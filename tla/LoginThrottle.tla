--------------------------- MODULE LoginThrottle ---------------------------
(***************************************************************************)
(* The lock-out of one key in "login_attempts_ip": attempts are checked    *)
(* before the password is verified and recorded after it, by requests that *)
(* run concurrently.  Each SQL statement is one step.                      *)
(*                                                                         *)
(* Time is a Tick that brings the end of a lock one unit nearer.  The      *)
(* "now" of recordFailedLogin is read just before its three statements,    *)
(* which take far less than a tick: a lock is set for its whole length.    *)
(***************************************************************************)
EXTENDS Integers, FiniteSets

CONSTANTS
  Requests,     \* slots for log-in requests in flight at the same time
  MaxAttempts,  \* LOGIN_MAX_ATTEMPTS
  LockTicks,    \* LOGIN_LOCKOUT_MINUTES, in ticks
  Outcomes,     \* what the verification may find
  MaxCrashes    \* bound on the requests that stop between two statements

ASSUME ThrottleAssumption ==
  /\ IsFiniteSet(Requests)
  /\ MaxAttempts \in Nat \ {0}
  /\ LockTicks \in Nat \ {0}
  /\ MaxCrashes \in Nat
  /\ Outcomes \subseteq {"wrong", "right", "challenge"}

VARIABLES
  row,      \* the row of the key, NoRow without one
  step,     \* the next statement of each request
  crashes,  \* how many requests have stopped half-way
  guesses   \* history: failures recorded since the row was last removed

vars == <<row, step, crashes, guesses>>

\* locked: locked_until is not NULL; left: ticks until it, 0 once it is past.
Row   == [attempts: Nat, locked: BOOLEAN, left: 0..LockTicks]
NoRow == [attempts |-> 0, locked |-> FALSE, left |-> 0]

Steps == {"idle", "drop", "verify", "look", "lock"}

Running == row.locked /\ row.left > 0
Expired == row.locked /\ row.left = 0

At(r, s)   == step[r] = s
Goto(r, s) == step' = [step EXCEPT ![r] = s]
Finish(r)  == Goto(r, "idle")
RemoveRow  == row' = NoRow /\ guesses' = 0

-----------------------------------------------------------------------------
Init == /\ row = NoRow
        /\ step = [r \in Requests |-> "idle"]
        /\ crashes = 0
        /\ guesses = 0

(* checkLoginAttempt                                                       *)

\* Mutant of Refused: a refused attempt starts the lock again.
RefusedRelocks(r) == /\ Running
                     /\ row' = [row EXCEPT !.left = LockTicks]
                     /\ UNCHANGED <<step, crashes, guesses>>

\* While the lock runs the request answers 429 at once.
Refused(r) == Running /\ UNCHANGED vars

Check(r) ==
  /\ At(r, "idle")
  /\ \/ Refused(r)
     \/ /\ ~Running
        /\ Goto(r, IF Expired THEN "drop" ELSE "verify")
        /\ UNCHANGED <<row, crashes, guesses>>

\* The DELETE of an expired lock, by key alone.
DropExpired(r) == /\ At(r, "drop")
                  /\ RemoveRow
                  /\ Goto(r, "verify")
                  /\ UNCHANGED crashes

\* The probabilistic clean-up removes a row nobody touched for the retention
\* time.  A request does not outlive it, so none has just written it.
Cleanup == /\ row # NoRow
           /\ ~Running
           /\ \A r \in Requests : step[r] \notin {"look", "lock"}
           /\ RemoveRow
           /\ UNCHANGED <<step, crashes>>

(* The verification, and recordFailedLogin after a failure.                *)

\* The upsert counts on top of whatever the row holds, and keeps its lock.
Count(r) == /\ At(r, "verify")
            /\ "wrong" \in Outcomes
            /\ row' = [row EXCEPT !.attempts = @ + 1]
            /\ guesses' = guesses + 1
            /\ Goto(r, "look")
            /\ UNCHANGED crashes

\* Mutant of Reached: the threshold is passed instead of reached.
ReachedLate(attempts) == attempts > MaxAttempts

Reached(attempts) == attempts >= MaxAttempts

\* The second statement reads the count; a missing row counts as 1.
Look(r) == /\ At(r, "look")
           /\ IF Reached(IF row = NoRow THEN 1 ELSE row.attempts)
                THEN Goto(r, "lock") ELSE Finish(r)
           /\ UNCHANGED <<row, crashes, guesses>>

\* UPDATE by key: no row, no lock.
Lock(r) == /\ At(r, "lock")
           /\ row' = IF row = NoRow THEN NoRow
                     ELSE [row EXCEPT !.locked = TRUE, !.left = LockTicks]
           /\ Finish(r)
           /\ UNCHANGED <<crashes, guesses>>

\* clearLoginAttempts after a successful log-in.
Clear(r) == /\ At(r, "verify")
            /\ "right" \in Outcomes
            /\ RemoveRow
            /\ Finish(r)
            /\ UNCHANGED crashes

\* The password was right but a second factor is asked for: nothing recorded.
Challenge(r) == /\ At(r, "verify")
                /\ "challenge" \in Outcomes
                /\ Finish(r)
                /\ UNCHANGED <<row, crashes, guesses>>

(* The environment.                                                        *)

Crash(r) == /\ ~At(r, "idle")
            /\ crashes < MaxCrashes
            /\ crashes' = crashes + 1
            /\ Finish(r)
            /\ UNCHANGED <<row, guesses>>

Tick == /\ row.left > 0
        /\ row' = [row EXCEPT !.left = @ - 1]
        /\ UNCHANGED <<step, crashes, guesses>>

Next == \/ \E r \in Requests : \/ Check(r) \/ DropExpired(r) \/ Count(r) \/ Look(r)
                               \/ Lock(r) \/ Clear(r) \/ Challenge(r) \/ Crash(r)
        \/ Cleanup
        \/ Tick

\* Time passes whatever the requests do; no request has to be answered.
Spec == Init /\ [][Next]_vars /\ WF_vars(Tick)

-----------------------------------------------------------------------------
\* Row, requests and counters have their types; only a row has a lock.
TypeOK == /\ row \in Row
          /\ row.attempts = 0 => row = NoRow
          /\ step \in [Requests -> Steps]
          /\ crashes \in 0..MaxCrashes
          /\ guesses \in Nat

\* However the requests interleave, a row never absorbs more failures than
\* those of the attempts in flight when the threshold is reached: one each,
\* and one more for every request that stopped before it could set the lock.
GuessesBounded == guesses < MaxAttempts + Cardinality(Requests) + crashes

\* No lock is for ever, even when the client keeps trying while it runs:
\* refused attempts and late failures cannot prolong it without end.
LockEnds == Running ~> ~Running
=============================================================================
