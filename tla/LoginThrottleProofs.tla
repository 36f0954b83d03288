------------------------ MODULE LoginThrottleProofs ------------------------
(* The lock-out's bound on failures holds for any number of requests.      *)
EXTENDS LoginThrottle, TLAPS, FiniteSetTheorems

\* The requests at one of these steps; the attempts that may still fail, and
\* the failures whose lock is still to be set.
AtSteps(W) == {r \in Requests : step[r] \in W}
Verifying == AtSteps({"verify"})
Recording == AtSteps({"look", "lock"})

\* While no lock is set, every failure from the threshold on is one of a
\* request that is about to set it, or of one that stopped.  Once it is set no
\* attempt is admitted, so the failures to come are the attempts in flight.
Accounted ==
  /\ guesses = row.attempts
  /\ ~row.locked => guesses < MaxAttempts + Cardinality(Recording) + crashes
  /\ row.locked =>
       guesses + Cardinality(Verifying) < MaxAttempts + Cardinality(Requests) + crashes

IInv == TypeOK /\ Accounted

-----------------------------------------------------------------------------
(* Row, steps and counters keep their types.                               *)
LEMMA TypeInit == Init => TypeOK
BY ThrottleAssumption DEF Init, TypeOK, Row, NoRow, Steps

LEMMA TypeStep == TypeOK /\ [Next]_vars => TypeOK'
<1> SUFFICES ASSUME TypeOK, [Next]_vars PROVE TypeOK'
  OBVIOUS
<1> USE ThrottleAssumption DEF TypeOK, Row, NoRow, Steps, Goto, Finish, At
<1>1. ASSUME NEW r \in Requests, Check(r) PROVE TypeOK'
  BY <1>1 DEF Check, Refused, vars
<1>2. ASSUME NEW r \in Requests, DropExpired(r) PROVE TypeOK'
  BY <1>2 DEF DropExpired, RemoveRow
<1>3. ASSUME NEW r \in Requests, Count(r) PROVE TypeOK'
  BY <1>3 DEF Count
<1>4. ASSUME NEW r \in Requests, Look(r) PROVE TypeOK'
  BY <1>4 DEF Look
<1>5. ASSUME NEW r \in Requests, Lock(r) PROVE TypeOK'
  <2>1. CASE row = NoRow
    BY <1>5, <2>1 DEF Lock
  <2>2. CASE row # NoRow
    <3>1. row' = [row EXCEPT !.locked = TRUE, !.left = LockTicks] /\ row.attempts # 0
      BY <1>5, <2>2 DEF Lock
    <3>2. row' = [attempts |-> row.attempts, locked |-> TRUE, left |-> LockTicks]
      BY <3>1
    <3>3. LockTicks \in 0..LockTicks /\ row.attempts \in Nat
      OBVIOUS
    <3>4. row' \in Row /\ row'.attempts # 0
      BY ONLY <3>1, <3>2, <3>3 DEF Row
    <3> QED BY <1>5, <3>4 DEF Lock
  <2> QED BY <2>1, <2>2
<1>6. ASSUME NEW r \in Requests, Clear(r) PROVE TypeOK'
  BY <1>6 DEF Clear, RemoveRow
<1>7. ASSUME NEW r \in Requests, Challenge(r) PROVE TypeOK'
  BY <1>7 DEF Challenge
<1>8. ASSUME NEW r \in Requests, Crash(r) PROVE TypeOK'
  BY <1>8 DEF Crash
<1>9. CASE Cleanup
  BY <1>9 DEF Cleanup, RemoveRow
<1>10. CASE Tick
  BY <1>10 DEF Tick
<1>11. CASE UNCHANGED vars
  BY <1>11 DEF vars
<1> QED
  BY <1>1, <1>2, <1>3, <1>4, <1>5, <1>6, <1>7, <1>8, <1>9, <1>10, <1>11 DEF Next

-----------------------------------------------------------------------------
(* How many requests are where.                                            *)
LEMMA Counts ==
  ASSUME NEW W
  PROVE  /\ IsFiniteSet(AtSteps(W)) /\ IsFiniteSet(AtSteps(W)')
         /\ Cardinality(AtSteps(W)) \in Nat /\ Cardinality(AtSteps(W)') \in Nat
         /\ Cardinality(Requests) \in Nat
<1>1. AtSteps(W) \in SUBSET Requests /\ AtSteps(W)' \in SUBSET Requests
  BY DEF AtSteps
<1> QED
  BY <1>1, FS_Subset, FS_CardinalityType, ThrottleAssumption

\* One request moves to step s.
LEMMA MoveCounts ==
  ASSUME TypeOK, NEW W, NEW r \in Requests, NEW s \in Steps, Goto(r, s)
  PROVE  Cardinality(AtSteps(W)') =
           Cardinality(AtSteps(W)) - (IF step[r] \in W THEN 1 ELSE 0)
                                   + (IF s \in W THEN 1 ELSE 0)
<1>1. s \in W => AtSteps(W)' = (AtSteps(W) \ {r}) \cup {r}
  BY DEF TypeOK, Goto, AtSteps
<1>2. s \notin W => AtSteps(W)' = AtSteps(W) \ {r}
  BY DEF TypeOK, Goto, AtSteps
<1>3. r \in AtSteps(W) <=> step[r] \in W
  BY DEF AtSteps
<1>4. /\ IsFiniteSet(AtSteps(W) \ {r})
      /\ Cardinality(AtSteps(W) \ {r}) =
           IF step[r] \in W THEN Cardinality(AtSteps(W)) - 1 ELSE Cardinality(AtSteps(W))
  BY <1>3, Counts, FS_RemoveElement
<1>5. Cardinality((AtSteps(W) \ {r}) \cup {r}) = Cardinality(AtSteps(W) \ {r}) + 1
  <2>1. r \notin AtSteps(W) \ {r}
    OBVIOUS
  <2> QED BY <1>4, <2>1, FS_AddElement
<1>6. Cardinality(AtSteps(W)) \in Nat
  BY Counts
<1>7. Cardinality(AtSteps(W)') =
        Cardinality(AtSteps(W) \ {r}) + (IF s \in W THEN 1 ELSE 0)
  <2>1. Cardinality(AtSteps(W) \ {r}) \in Nat
    BY <1>4, FS_CardinalityType
  <2> QED BY <1>1, <1>2, <1>5, <2>1
<1>8. Cardinality(AtSteps(W) \ {r}) =
        Cardinality(AtSteps(W)) - (IF step[r] \in W THEN 1 ELSE 0)
  BY <1>4, <1>6
<1> QED BY <1>7, <1>8

\* The two kinds of requests are distinct ones.
LEMMA Disjoint == TypeOK => Cardinality(Verifying) + Cardinality(Recording) <= Cardinality(Requests)
<1> SUFFICES ASSUME TypeOK
             PROVE  Cardinality(Verifying) + Cardinality(Recording) <= Cardinality(Requests)
  OBVIOUS
<1>1. Verifying \cap Recording = {} /\ Verifying \cup Recording \in SUBSET Requests
  BY DEF Verifying, Recording, AtSteps
<1>2. IsFiniteSet(Verifying) /\ IsFiniteSet(Recording)
  BY Counts DEF Verifying, Recording
<1>3. Cardinality(Verifying \cup Recording) <= Cardinality(Requests)
  BY <1>1, FS_Subset, ThrottleAssumption
<1>4. Cardinality(Verifying \cup Recording) =
        Cardinality(Verifying) + Cardinality(Recording) - Cardinality({})
  BY <1>1, <1>2, FS_Union
<1> QED BY <1>2, <1>3, <1>4, FS_EmptySet, FS_CardinalityType

-----------------------------------------------------------------------------
(* No step spends a failure that is not accounted for.                     *)
LEMMA AccountInit == Init => Accounted
<1> SUFFICES ASSUME Init PROVE Accounted
  OBVIOUS
<1>1. Cardinality(Recording) \in Nat
  BY Counts DEF Recording
<1> QED BY <1>1, ThrottleAssumption DEF Init, Accounted, NoRow

LEMMA AccountStep == IInv /\ [Next]_vars => Accounted'
<1> SUFFICES ASSUME IInv, [Next]_vars PROVE Accounted'
  OBVIOUS
<1> USE ThrottleAssumption DEF IInv, At
<1>1. /\ Cardinality(Recording) \in Nat /\ Cardinality(Recording') \in Nat
      /\ Cardinality(Verifying) \in Nat /\ Cardinality(Verifying') \in Nat
      /\ Cardinality(Requests) \in Nat
  BY Counts DEF Recording, Verifying
<1>2. TypeOK'
  BY TypeStep
<1>3. ASSUME NEW r \in Requests, NEW s \in Steps, Goto(r, s)
      PROVE /\ Cardinality(Recording') = Cardinality(Recording)
                 - (IF step[r] \in {"look", "lock"} THEN 1 ELSE 0)
                 + (IF s \in {"look", "lock"} THEN 1 ELSE 0)
            /\ Cardinality(Verifying') = Cardinality(Verifying)
                 - (IF step[r] = "verify" THEN 1 ELSE 0) + (IF s = "verify" THEN 1 ELSE 0)
  BY <1>3, MoveCounts DEF Recording, Verifying
<1>4. RemoveRow /\ crashes' = crashes => Accounted'
  BY <1>1, <1>2 DEF RemoveRow, NoRow, Accounted, TypeOK
<1>5. ASSUME NEW r \in Requests, Check(r) PROVE Accounted'
  <2>1. CASE Refused(r)
    BY <1>5, <2>1 DEF Refused, vars, Accounted, Recording, Verifying, AtSteps
  <2>2. CASE Goto(r, IF Expired THEN "drop" ELSE "verify")
             /\ ~Running /\ UNCHANGED <<row, crashes, guesses>>
    <3>1. CASE Expired
      BY <1>1, <1>3, <1>5, <2>2, <3>1 DEF Check, Accounted, Expired, Steps
    <3>2. CASE ~Expired
      BY <1>1, <1>3, <1>5, <2>2, <3>2 DEF Check, Accounted, Expired, Running, Steps, TypeOK, Row
    <3> QED BY <3>1, <3>2
  <2> QED BY <1>5, <2>1, <2>2 DEF Check
<1>6. ASSUME NEW r \in Requests, DropExpired(r) PROVE Accounted'
  BY <1>4, <1>6 DEF DropExpired
<1>7. ASSUME NEW r \in Requests, Count(r) PROVE Accounted'
  BY <1>1, <1>3, <1>7 DEF Count, Accounted, Steps, TypeOK, Row
<1>8. ASSUME NEW r \in Requests, Look(r) PROVE Accounted'
  <2>1. CASE Goto(r, "lock")
    BY <1>1, <1>3, <1>8, <2>1 DEF Look, Accounted, Steps, TypeOK, Row
  <2>2. CASE Finish(r) /\ ~Reached(IF row = NoRow THEN 1 ELSE row.attempts)
    BY <1>1, <1>3, <1>8, <2>2 DEF Look, Finish, Reached, Accounted, Steps, TypeOK, Row, NoRow
  <2> QED BY <1>8, <2>1, <2>2 DEF Look
<1>9. ASSUME NEW r \in Requests, Lock(r) PROVE Accounted'
  BY <1>1, <1>3, <1>9, Disjoint DEF Lock, Finish, Accounted, Steps, TypeOK, Row, NoRow
<1>10. ASSUME NEW r \in Requests, Clear(r) PROVE Accounted'
  BY <1>4, <1>10 DEF Clear
<1>11. ASSUME NEW r \in Requests, Challenge(r) PROVE Accounted'
  BY <1>1, <1>3, <1>11 DEF Challenge, Finish, Accounted, Steps, TypeOK, Row
<1>12. ASSUME NEW r \in Requests, Crash(r) PROVE Accounted'
  BY <1>1, <1>3, <1>12 DEF Crash, Finish, Accounted, Steps, TypeOK, Row
<1>13. CASE Cleanup
  BY <1>4, <1>13 DEF Cleanup
<1>14. CASE Tick
  BY <1>14 DEF Tick, Accounted, TypeOK, Row, Recording, Verifying, AtSteps
<1>15. CASE UNCHANGED vars
  BY <1>15 DEF vars, Accounted, Recording, Verifying, AtSteps
<1> QED
  BY <1>5, <1>6, <1>7, <1>8, <1>9, <1>10, <1>11, <1>12, <1>13, <1>14, <1>15 DEF Next

LEMMA Bounded == IInv => GuessesBounded
<1> SUFFICES ASSUME IInv PROVE GuessesBounded
  OBVIOUS
<1>1. /\ Cardinality(Recording) \in Nat /\ Cardinality(Verifying) \in Nat
      /\ Cardinality(Requests) \in Nat
  BY Counts DEF Recording, Verifying
<1> QED
  BY <1>1, Disjoint, ThrottleAssumption DEF IInv, Accounted, GuessesBounded, TypeOK, Row

\* The row, the requests and the counters always have their types, and an
\* attempt count of zero means that there is no row.
THEOREM ThrottleTypeCorrect == Spec => []TypeOK
<1> QED BY TypeInit, TypeStep, PTL DEF Spec

\* Whatever the number of concurrent log-ins, the threshold and the crashes,
\* a row never absorbs more failures than the attempts in flight explain.
THEOREM FailuresAreBounded == Spec => []GuessesBounded
<1>1. Init => IInv
  BY TypeInit, AccountInit DEF IInv
<1>2. IInv /\ [Next]_vars => IInv'
  BY TypeStep, AccountStep DEF IInv
<1> QED BY <1>1, <1>2, Bounded, PTL DEF Spec
=============================================================================
