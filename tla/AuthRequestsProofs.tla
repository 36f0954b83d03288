------------------------- MODULE AuthRequestsProofs -------------------------
(* An answer is final and goes to the newest request the approver saw, and *)
(* an approved request serves a bounded number of log-ins, for any number   *)
(* of requests, approvers and log-ins.                                      *)
EXTENDS AuthRequests, TLAPS, FiniteSetTheorems

\* A log-in between its check and its tokens holds a request that existed
\* and, while its row is there, is approved.
UsedIsApproved ==
  \A l \in Logins : req[l].step \in {"valid", "marked"} =>
     /\ req[l].id \in created
     /\ Exists(req[l].id) => row[req[l].id].answer = "approved"

Typed == TypeOK /\ UsedIsApproved

\* No log-in can be validated against a spent request any more.
Spent(id) == id \in created /\ (~Exists(id) \/ row[id].authenticated)

ServedAreSpent == /\ \A id \in Ids : sessions[id] # 0 => Spent(id)
                  /\ \A l \in Logins : req[l].step = "marked" => Spent(req[l].id)

\* The log-ins that will be served without another look at the row.
Using(id) == {l \in Logins : req[l].step \in {"valid", "marked"} /\ req[l].id = id}

Counted == \A id \in Ids : sessions[id] + Cardinality(Using(id)) <= Cardinality(Logins)

IInv == Typed /\ ServedAreSpent /\ Counted

-----------------------------------------------------------------------------
(* The table and the requests in flight.                                   *)
LEMMA Records ==
  /\ NoRow \in Row /\ ~NoRow.authenticated /\ NoRow.answer = "none"
  /\ Idle \in Request /\ Idle.step = "idle"
BY RequestsAssumption DEF NoRow, Row, Idle, Request, Steps, Time

LEMMA TypeInit == Init => Typed
<1> SUFFICES ASSUME Init PROVE Typed
  OBVIOUS
<1>1. TypeOK
  BY Records, RequestsAssumption DEF Init, TypeOK, Exists, Time
<1>2. UsedIsApproved
  BY Records DEF Init, UsedIsApproved, Slots
<1> QED BY <1>1, <1>2 DEF Typed

\* Pruning makes rows disappear and changes nothing else.
LEMMA PruneKeeps ==
  ASSUME TypeOK, NEW id \in Ids
  PROVE  /\ Pruned \in [Ids -> Row]
         /\ Pruned[id] = NoRow \/ Pruned[id] = row[id]
BY Records DEF TypeOK, Pruned

LEMMA TypeStep == Typed /\ [Next]_vars => Typed'
<1> SUFFICES ASSUME Typed, [Next]_vars PROVE Typed'
  OBVIOUS
<1> USE RequestsAssumption DEF Typed
<1>1. /\ row \in [Ids -> Row] /\ req \in [Slots -> Request] /\ created \subseteq Ids
      /\ sessions \in [Ids -> Nat] /\ now \in Time
      /\ Logins \subseteq Slots /\ Creators \subseteq Slots /\ Approvers \subseteq Slots
  BY DEF TypeOK, Slots
<1>2. ASSUME NEW r \in Slots, NEW q \in Request, Goto(r, q), UNCHANGED <<now, row, created, sessions>>,
             r \in Logins /\ q.step \in {"valid", "marked"} =>
                q.id \in created /\ (Exists(q.id) => row[q.id].answer = "approved")
      PROVE  Typed'
  <2>1. req' \in [Slots -> Request]
    BY <1>1, <1>2 DEF Goto
  <2>2. TypeOK'
    BY <1>2, <2>1 DEF TypeOK, Exists
  <2>3. ASSUME NEW l \in Logins, req'[l].step \in {"valid", "marked"}
        PROVE  /\ req'[l].id \in created
               /\ Exists(req'[l].id) => row[req'[l].id].answer = "approved"
    BY <1>1, <1>2, <2>3 DEF Goto, UsedIsApproved
  <2>4. UsedIsApproved'
    BY <1>2, <2>3 DEF UsedIsApproved, Exists
  <2> QED BY <2>2, <2>4
<1>3. ASSUME NEW r \in Slots, Finish(r), UNCHANGED <<now, row, created, sessions>>
      PROVE  Typed'
  BY <1>2, <1>3, Records DEF Finish
<1>4. ASSUME row' = Pruned, UNCHANGED <<now, created, sessions>>,
             \/ req' = req
             \/ \E c \in Creators : \E q \in Request : Goto(c, q)
      PROVE  Typed'
  <2>1. \A id \in Ids : row'[id] = NoRow \/ row'[id] = row[id]
    BY <1>4, PruneKeeps
  <2>2. row' \in [Ids -> Row]
    BY <1>4, PruneKeeps DEF Pruned, TypeOK
  <2>3. req' \in [Slots -> Request] /\ \A l \in Logins : req'[l] = req[l]
    BY <1>1, <1>4 DEF Goto
  <2>4. TypeOK'
    BY <1>4, <2>1, <2>2, <2>3, Records DEF TypeOK, Exists
  <2>5. UsedIsApproved'
    BY <1>1, <1>4, <2>1, <2>3 DEF UsedIsApproved, Exists
  <2> QED BY <2>4, <2>5
<1>5. CASE ListPending
  BY <1>4, <1>5 DEF ListPending
<1>6. ASSUME NEW c \in Creators, Create(c) PROVE Typed'
  <2>1. [Idle EXCEPT !.step = "dated", !.at = now] \in Request
    BY <1>1, Records DEF Request, Steps
  <2> QED BY <1>4, <1>6, <2>1 DEF Create
<1>7. ASSUME NEW c \in Creators, NEW id \in Ids, NEW d \in Devices, NEW t \in Types,
             Insert(c, id, d, t)
      PROVE  Typed'
  <2> DEFINE x == [NoRow EXCEPT !.device = d, !.type = t, !.created = req[c].at]
  <2>1. x \in Row /\ ~x.authenticated
    BY <1>1 DEF NoRow, Row, Request
  <2>2. row' = [row EXCEPT ![id] = x] /\ created' = created \cup {id} /\ id \notin created
        /\ UNCHANGED <<now, sessions>>
    BY <1>7 DEF Insert
  <2>3. req' \in [Slots -> Request] /\ \A l \in Logins : req'[l] = req[l]
    BY <1>1, <1>7, Records DEF Insert, Finish, Goto
  <2> HIDE DEF x
  <2>4. row' \in [Ids -> Row] /\ row'[id] = x /\ \A i \in Ids : i # id => row'[i] = row[i]
    BY <1>1, <2>1, <2>2
  <2>5. TypeOK'
    BY <2>1, <2>2, <2>3, <2>4 DEF TypeOK, Exists
  <2>6. UsedIsApproved'
    BY <1>1, <2>2, <2>3, <2>4 DEF UsedIsApproved, Exists
  <2> QED BY <2>5, <2>6
<1>8. ASSUME NEW a \in Approvers, NEW id \in Ids, ReadRow(a, id) PROVE Typed'
  <2>1. [Idle EXCEPT !.step = "read", !.id = id] \in Request
    BY Records DEF Request, Steps
  <2> QED BY <1>1, <1>2, <1>8, <2>1 DEF ReadRow
<1>9. ASSUME NEW a \in Approvers, List(a) PROVE Typed'
  <2>1. [req[a] EXCEPT !.step = "listed", !.seen = created] \in Request
    <3>1. req[a] \in Request /\ created \in SUBSET Ids
      BY <1>1
    <3> QED BY ONLY <3>1 DEF Request, Steps
  <2> QED BY <1>1, <1>2, <1>3, <1>9, <2>1 DEF List
<1>10. ASSUME NEW a \in Approvers, NEW answer \in {"approved", "denied"}, Respond(a, answer)
       PROVE  Typed'
  <2> DEFINE id == req[a].id
  <2>1. req' \in [Slots -> Request] /\ \A l \in Logins : req'[l] = req[l]
    BY <1>1, <1>10, Records DEF Respond, Finish, Goto
  <2>2. ASSUME NEW i \in Ids
        PROVE  /\ row'[i] \in Row
               /\ \/ row'[i] = row[i]
                  \/ /\ Exists(i) /\ row[i].answer = "none" /\ ~row[i].authenticated
                     /\ ~row'[i].authenticated
    BY <1>1, <1>10 DEF Respond, Answerable, Row
  <2>3. row' \in [Ids -> Row]
    <3>1. DOMAIN row' = Ids /\ row' = [i \in Ids |-> row'[i]]
      BY <1>1, <1>10 DEF Respond
    <3> QED BY <2>2, <3>1
  <2>4. TypeOK'
    BY <1>10, <2>1, <2>2, <2>3 DEF Respond, TypeOK, Exists
  <2>5. UsedIsApproved'
    BY <1>1, <1>10, <2>1, <2>2, ZenonT(30) DEF Respond, UsedIsApproved, Exists
  <2> QED BY <2>4, <2>5
<1>11. ASSUME NEW l \in Logins, NEW id \in Ids, Validate(l, id) PROVE Typed'
  <2> DEFINE q == [Idle EXCEPT !.step = "valid", !.id = id]
  <2>1. q \in Request /\ q.id = id
    BY Records DEF Request, Steps
  <2>2. id \in created /\ row[id].answer = "approved"
    BY <1>11 DEF Validate, Usable, TypeOK
  <2>3. Goto(l, q) /\ UNCHANGED <<now, row, created, sessions>>
    BY <1>11 DEF Validate
  <2> HIDE DEF q
  <2> QED BY <1>1, <1>2, <2>1, <2>2, <2>3
<1>12. ASSUME NEW l \in Logins, Mark(l) PROVE Typed'
  <2> DEFINE id == req[l].id
             q  == [req[l] EXCEPT !.step = "marked"]
  <2>1. q \in Request /\ q.id = id /\ id \in created
    BY <1>1, <1>12 DEF Mark, At, Request, Steps, UsedIsApproved
  <2>2. Goto(l, q) /\ UNCHANGED <<now, created, sessions>>
        /\ row' = IF Exists(id) THEN [row EXCEPT ![id].authenticated = TRUE] ELSE row
    BY <1>12 DEF Mark
  <2>3. Exists(id) => row[id].answer = "approved"
    BY <1>12 DEF Mark, At, UsedIsApproved
  <2> HIDE DEF q
  <2>4. req' \in [Slots -> Request] /\ req'[l] = q
        /\ \A k \in Logins : k # l => req'[k] = req[k]
    BY <1>1, <2>1, <2>2 DEF Goto
  <2>5. ASSUME NEW i \in Ids
        PROVE  /\ row'[i] \in Row
               /\ \/ row'[i] = row[i]
                  \/ /\ Exists(i) /\ row'[i].answer = "approved" /\ row[i].answer = "approved"
    <3>1. CASE i = id /\ Exists(id)
      <4>1. row'[i] = [row[i] EXCEPT !.authenticated = TRUE] /\ row[i] \in Row
        BY <1>1, <2>2, <3>1
      <4> QED BY <2>3, <3>1, <4>1 DEF Row
    <3>2. CASE ~(i = id /\ Exists(id))
      BY <1>1, <2>2, <3>2
    <3> QED BY <3>1, <3>2
  <2>6. row' \in [Ids -> Row]
    <3>1. row' = [i \in Ids |-> row'[i]]
      BY <1>1, <2>2
    <3> QED BY <2>5, <3>1
  <2>7. TypeOK'
    BY <2>2, <2>4, <2>5, <2>6 DEF TypeOK, Exists
  <2>8. ASSUME NEW i \in Ids, Exists(i)' PROVE Exists(i) /\ (row[i].answer = "approved" => row'[i].answer = "approved")
    BY <2>5, <2>8 DEF Exists
  <2>9. ASSUME NEW k \in Logins, req'[k].step \in {"valid", "marked"}
        PROVE  req'[k].id \in created /\ (Exists(req'[k].id) => row[req'[k].id].answer = "approved")
    BY <2>1, <2>3, <2>4, <2>9 DEF UsedIsApproved
  <2>10. UsedIsApproved'
    BY <1>1, <2>2, <2>8, <2>9 DEF UsedIsApproved
  <2> QED BY <2>7, <2>10
<1>13. ASSUME NEW l \in Logins, Issue(l) PROVE Typed'
  <2>1. req' \in [Slots -> Request] /\ \A k \in Logins : req'[k] = req[k] \/ req'[k] = Idle
    BY <1>1, <1>13, Records DEF Issue, Finish, Goto
  <2>2. sessions' \in [Ids -> Nat]
    <3>1. req[l].id \in Ids
      BY <1>1, <1>13 DEF Issue, At, UsedIsApproved
    <3> QED BY <1>1, <1>13, <3>1 DEF Issue
  <2>3. TypeOK'
    BY <1>13, <2>1, <2>2 DEF Issue, TypeOK, Exists
  <2>4. UsedIsApproved'
    BY <1>13, <2>1, Records DEF Issue, UsedIsApproved, Exists
  <2> QED BY <2>3, <2>4
<1>14. ASSUME NEW r \in Slots, Crash(r) PROVE Typed'
  BY <1>3, <1>14 DEF Crash
<1>15. CASE Tick
  BY <1>15 DEF Tick, TypeOK, UsedIsApproved, Exists, Time
<1>16. CASE UNCHANGED vars
  BY <1>16 DEF vars, TypeOK, UsedIsApproved, Exists
<1> QED
  BY <1>5, <1>6, <1>7, <1>8, <1>9, <1>10, <1>11, <1>12, <1>13, <1>14, <1>15, <1>16 DEF Next

\* The table keeps its type, and only approved requests are ever used.
THEOREM RequestsTypeCorrect == Spec => []TypeOK
<1>1. Typed => TypeOK
  BY DEF Typed
<1> QED BY <1>1, TypeInit, TypeStep, PTL DEF Spec

-----------------------------------------------------------------------------
(* Of two answers the second changes nothing.                              *)
LEMMA AnswerStep ==
  ASSUME Typed, [Next]_vars, NEW id \in Ids, row[id].answer # "none"
  PROVE  row'[id].answer = row[id].answer \/ row'[id] = NoRow
<1>1. /\ row \in [Ids -> Row] /\ req \in [Slots -> Request] /\ created \subseteq Ids
      /\ id \in created
  BY Records DEF Typed, TypeOK, Exists
<1>2. ASSUME row' = Pruned PROVE row'[id] = NoRow \/ row'[id] = row[id]
  BY <1>2, PruneKeeps DEF Typed
<1>3. ASSUME NEW c \in Creators, NEW i \in Ids, NEW d \in Devices, NEW t \in Types,
             Insert(c, i, d, t)
      PROVE  row'[id] = row[id]
  BY <1>1, <1>3 DEF Insert
<1>4. ASSUME NEW a \in Approvers, NEW answer \in {"approved", "denied"}, Respond(a, answer)
      PROVE  row'[id] = row[id]
  BY <1>1, <1>4 DEF Respond, Answerable
<1>5. ASSUME NEW l \in Logins, Mark(l) PROVE row'[id].answer = row[id].answer
  <2>1. CASE req[l].id = id /\ Exists(id)
    <3>1. row'[id] = [row[id] EXCEPT !.authenticated = TRUE] /\ row[id] \in Row
      BY <1>1, <1>5, <2>1 DEF Mark
    <3> QED BY <3>1 DEF Row
  <2>2. CASE ~(req[l].id = id /\ Exists(id))
    BY <1>1, <1>5, <2>2 DEF Mark
  <2> QED BY <2>1, <2>2
<1> QED
  BY <1>2, <1>3, <1>4, <1>5
  DEF Next, vars, ListPending, Create, ReadRow, List, Validate, Issue, Crash, Tick

\* Whatever approvers, log-ins and prunings interleave, an answer that was
\* given is never changed into the other.
THEOREM AnswersAreFinal == Spec => AnswerIsFinal
<1>1. Typed /\ [Next]_vars =>
        [\A id \in Ids : row[id].answer # "none"
           => row'[id].answer = row[id].answer \/ row'[id] = NoRow]_vars
  BY AnswerStep
<1> QED BY <1>1, TypeInit, TypeStep, PTL DEF Spec, AnswerIsFinal

-----------------------------------------------------------------------------
(* How many log-ins one request serves.                                    *)
LEMMA UsingIsFinite ==
  ASSUME NEW id
  PROVE  /\ IsFiniteSet(Using(id)) /\ Cardinality(Using(id)) \in Nat
         /\ Cardinality(Using(id)) <= Cardinality(Logins) /\ Cardinality(Logins) \in Nat
         /\ IsFiniteSet(Using(id)') /\ Cardinality(Using(id)') \in Nat
         /\ Cardinality(Using(id)') <= Cardinality(Logins)
<1>1. Using(id) \in SUBSET Logins /\ Using(id)' \in SUBSET Logins
  BY DEF Using
<1> QED BY <1>1, FS_Subset, FS_CardinalityType, RequestsAssumption

\* Fewer users of a request, and no session more, keep the count.
LEMMA CountShrinks ==
  ASSUME Counted, NEW id \in Ids, Using(id)' \subseteq Using(id), sessions[id] \in Nat,
         sessions'[id] = sessions[id]
  PROVE  sessions'[id] + Cardinality(Using(id)') <= Cardinality(Logins)
<1>1. Cardinality(Using(id)') <= Cardinality(Using(id))
  BY UsingIsFinite, FS_Subset
<1> QED BY <1>1, UsingIsFinite DEF Counted

LEMMA CountInit == Init => ServedAreSpent /\ Counted
<1> SUFFICES ASSUME Init PROVE ServedAreSpent /\ Counted
  OBVIOUS
<1>1. ServedAreSpent
  BY Records DEF Init, ServedAreSpent, Slots
<1>2. Counted
  BY UsingIsFinite DEF Init, Counted
<1> QED BY <1>1, <1>2

\* A spent request stays spent: its id is not drawn again and nothing
\* resets the mark.
LEMMA SpentStays ==
  ASSUME Typed, [Next]_vars, NEW id \in Ids, Spent(id) PROVE Spent(id)'
<1>1. /\ row \in [Ids -> Row] /\ req \in [Slots -> Request] /\ id \in created
  BY DEF Typed, TypeOK, Spent
<1>2. ASSUME row' = Pruned, created' = created PROVE Spent(id)'
  <2>1. row'[id] = NoRow \/ row'[id] = row[id]
    BY <1>2, PruneKeeps DEF Typed
  <2> QED BY <1>2, <2>1 DEF Spent, Exists
<1>3. ASSUME NEW c \in Creators, NEW i \in Ids, NEW d \in Devices, NEW t \in Types,
             Insert(c, i, d, t)
      PROVE  Spent(id)'
  <2>1. row'[id] = row[id] /\ id \in created'
    BY <1>1, <1>3 DEF Insert
  <2> QED BY <2>1 DEF Spent, Exists
<1>4. ASSUME NEW a \in Approvers, NEW answer \in {"approved", "denied"}, Respond(a, answer)
      PROVE  Spent(id)'
  <2>1. row'[id] = row[id] /\ created' = created
    BY <1>1, <1>4 DEF Respond, Answerable, Spent
  <2> QED BY <2>1 DEF Spent, Exists
<1>5. ASSUME NEW l \in Logins, Mark(l) PROVE Spent(id)'
  <2>1. created' = created
    BY <1>5 DEF Mark
  <2>2. CASE req[l].id = id /\ Exists(id)
    <3>1. row'[id] = [row[id] EXCEPT !.authenticated = TRUE] /\ row[id] \in Row
      BY <1>1, <1>5, <2>2 DEF Mark
    <3> QED BY <2>1, <3>1 DEF Row, Spent
  <2>3. CASE ~(req[l].id = id /\ Exists(id))
    <3>1. row'[id] = row[id]
      BY <1>1, <1>5, <2>3 DEF Mark
    <3> QED BY <2>1, <3>1 DEF Spent, Exists
  <2> QED BY <2>2, <2>3
<1>6. ASSUME UNCHANGED <<row, created>> PROVE Spent(id)'
  BY <1>6 DEF Spent, Exists
<1> QED
  BY <1>2, <1>3, <1>4, <1>5, <1>6
  DEF Next, vars, ListPending, Create, ReadRow, List, Validate, Issue, Crash, Tick

LEMMA CountStep == IInv /\ [Next]_vars => ServedAreSpent' /\ Counted'
<1> SUFFICES ASSUME IInv, [Next]_vars PROVE ServedAreSpent' /\ Counted'
  OBVIOUS
<1>1. /\ Typed /\ ServedAreSpent /\ Counted
      /\ row \in [Ids -> Row] /\ req \in [Slots -> Request] /\ created \subseteq Ids
      /\ sessions \in [Ids -> Nat] /\ Logins \subseteq Slots
      /\ \A id \in Ids : Spent(id) => Spent(id)'
  BY SpentStays DEF IInv, Typed, TypeOK, Slots
\* Steps that serve nobody: a log-in keeps its record or gives up.
<1>2. ASSUME sessions' = sessions,
             \A l \in Logins : \/ req'[l] = req[l]
                               \/ req'[l].step = "idle"
                               \/ req'[l].step = "valid" /\ req[l].step = "valid"
                                  /\ req'[l].id = req[l].id
      PROVE  ServedAreSpent' /\ Counted'
  <2>1. \A id \in Ids : Using(id)' \subseteq Using(id)
    BY <1>2 DEF Using
  <2>2. Counted'
    BY <1>1, <1>2, <2>1, CountShrinks DEF Counted
  <2>3. \A l \in Logins : req'[l].step = "marked" => req'[l] = req[l] /\ req[l].id \in Ids
    BY <1>1, <1>2 DEF Typed, UsedIsApproved
  <2>4. ServedAreSpent'
    <3>1. ASSUME NEW id \in Ids, sessions'[id] # 0 PROVE Spent(id)'
      BY <1>1, <1>2, <3>1 DEF ServedAreSpent
    <3>2. ASSUME NEW l \in Logins, req'[l].step = "marked" PROVE Spent(req[l].id)'
      <4>1. req'[l] = req[l] /\ req[l].id \in Ids /\ Spent(req[l].id)
        BY <1>1, <2>3, <3>2 DEF ServedAreSpent
      <4>2. PICK i \in Ids : i = req[l].id
        BY <4>1
      <4>3. Spent(i)'
        BY <1>1, <4>1, <4>2
      <4> QED BY <4>1, <4>2, <4>3 DEF Spent, Exists
    <3> QED BY <3>1, <3>2 DEF ServedAreSpent
  <2> QED BY <2>2, <2>4
<1>3. ASSUME NEW r \in Slots, Finish(r), sessions' = sessions
      PROVE  ServedAreSpent' /\ Counted'
  <2>1. \A l \in Logins : req'[l] = req[l] \/ req'[l].step = "idle"
    BY <1>1, <1>3, Records DEF Finish, Goto
  <2> QED BY <1>2, <1>3, <2>1
<1>4. ASSUME NEW r \in Creators \cup Approvers, NEW q, Goto(r, q), sessions' = sessions
      PROVE  ServedAreSpent' /\ Counted'
  <2>1. \A l \in Logins : req'[l] = req[l]
    BY <1>1, <1>4, RequestsAssumption DEF Goto
  <2> QED BY <1>2, <1>4, <2>1
<1>5. ASSUME NEW l \in Logins, NEW id \in Ids, Validate(l, id)
      PROVE  ServedAreSpent' /\ Counted'
  <2>1. req' = [req EXCEPT ![l] = [Idle EXCEPT !.step = "valid", !.id = id]]
        /\ UNCHANGED <<now, row, created, sessions>>
    BY <1>5 DEF Validate, Goto
  <2>2. /\ req'[l].step = "valid" /\ req'[l].id = id
        /\ \A k \in Logins : k # l => req'[k] = req[k]
    BY <1>1, <2>1 DEF Idle
  <2>3. ~Spent(id)
    BY <1>5 DEF Validate, Usable, Spent
  <2>4. sessions[id] = 0
    BY <1>1, <2>3 DEF ServedAreSpent
  <2>5. ASSUME NEW i \in Ids
        PROVE  sessions'[i] + Cardinality(Using(i)') <= Cardinality(Logins)
    <3>1. CASE i = id
      BY <2>1, <2>4, <3>1, UsingIsFinite
    <3>2. CASE i # id
      <4>1. Using(i)' \subseteq Using(i)
        BY <2>2, <3>2 DEF Using
      <4> QED BY <1>1, <2>1, <4>1, CountShrinks
    <3> QED BY <3>1, <3>2
  <2>6. ServedAreSpent'
    BY <1>1, <2>1, <2>2 DEF ServedAreSpent, Spent, Exists
  <2> QED BY <2>5, <2>6 DEF Counted
<1>6. ASSUME NEW l \in Logins, Mark(l) PROVE ServedAreSpent' /\ Counted'
  <2> DEFINE id == req[l].id
  <2>1. /\ req' = [req EXCEPT ![l] = [req[l] EXCEPT !.step = "marked"]] /\ created' = created
        /\ row' = IF Exists(id) THEN [row EXCEPT ![id].authenticated = TRUE] ELSE row
        /\ sessions' = sessions /\ req[l].step = "valid"
    BY <1>6 DEF Mark, Goto, At
  <2>2. /\ req'[l].step = "marked" /\ req'[l].id = id /\ id \in created /\ id \in Ids
        /\ \A k \in Logins : k # l => req'[k] = req[k]
    BY <1>1, <2>1 DEF Request, Typed, UsedIsApproved
  <2>3. \A i \in Ids : Using(i)' \subseteq Using(i)
    BY <2>1, <2>2 DEF Using
  <2>4. Counted'
    BY <1>1, <2>1, <2>3, CountShrinks DEF Counted
  <2>5. PICK i \in Ids : i = id
    BY <2>2
  <2>6. Spent(i)'
    <3>1. CASE Exists(id)
      <4>1. row'[i].authenticated
        BY <1>1, <2>1, <2>5, <3>1 DEF Row
      <4> QED BY <2>1, <2>2, <2>5, <4>1 DEF Spent
    <3>2. CASE ~Exists(id)
      BY <2>1, <2>2, <2>5, <3>2 DEF Spent, Exists
    <3> QED BY <3>1, <3>2
  <2>7. ASSUME NEW k \in Logins, req'[k].step = "marked" PROVE Spent(req[k].id)'
    <3>1. CASE k = l
      BY <2>2, <2>5, <2>6, <3>1 DEF Spent, Exists
    <3>2. CASE k # l
      <4>1. req'[k] = req[k] /\ req[k].id \in Ids /\ Spent(req[k].id)
        BY <1>1, <2>2, <2>7, <3>2 DEF ServedAreSpent, Typed, UsedIsApproved
      <4>2. PICK j \in Ids : j = req[k].id
        BY <4>1
      <4>3. Spent(j)'
        BY <1>1, <4>1, <4>2
      <4> QED BY <4>1, <4>2, <4>3 DEF Spent, Exists
    <3> QED BY <3>1, <3>2
  <2>8. ServedAreSpent'
    BY <1>1, <2>1, <2>7 DEF ServedAreSpent
  <2> QED BY <2>4, <2>8
<1>7. ASSUME NEW l \in Logins, Issue(l) PROVE ServedAreSpent' /\ Counted'
  <2> DEFINE id == req[l].id
  <2>1. /\ req' = [req EXCEPT ![l] = Idle] /\ sessions' = [sessions EXCEPT ![id] = @ + 1]
        /\ UNCHANGED <<now, row, created>> /\ req[l].step = "marked"
    BY <1>7 DEF Issue, Finish, Goto, At
  <2>2. /\ req'[l].step = "idle" /\ id \in Ids /\ Spent(id)
        /\ \A k \in Logins : k # l => req'[k] = req[k]
    BY <1>1, <2>1, Records DEF Typed, UsedIsApproved, ServedAreSpent
  <2>3. ASSUME NEW i \in Ids
        PROVE  sessions'[i] + Cardinality(Using(i)') <= Cardinality(Logins)
    <3>1. CASE i = id
      <4>1. Using(i)' = Using(i) \ {l} /\ l \in Using(i)
        BY <2>1, <2>2, <3>1 DEF Using
      <4>2. Cardinality(Using(i)') = Cardinality(Using(i)) - 1
        BY <4>1, UsingIsFinite, FS_RemoveElement
      <4>3. sessions'[i] = sessions[i] + 1 /\ sessions[i] \in Nat
        BY <1>1, <2>1, <3>1
      <4> QED BY <1>1, <4>2, <4>3, UsingIsFinite DEF Counted
    <3>2. CASE i # id
      <4>1. Using(i)' \subseteq Using(i)
        BY <2>2 DEF Using
      <4> QED BY <1>1, <2>1, <3>2, <4>1, CountShrinks
    <3> QED BY <3>1, <3>2
  <2>4. ServedAreSpent'
    BY <1>1, <2>1, <2>2 DEF ServedAreSpent, Spent, Exists
  <2> QED BY <2>3, <2>4 DEF Counted
<1>8. ASSUME req' = req, sessions' = sessions PROVE ServedAreSpent' /\ Counted'
  BY <1>2, <1>8
<1>9. ASSUME NEW r \in Slots, Crash(r) PROVE ServedAreSpent' /\ Counted'
  BY <1>3, <1>9 DEF Crash
<1>10. ASSUME NEW c \in Creators, NEW id \in Ids, NEW d \in Devices, NEW t \in Types,
              Insert(c, id, d, t)
       PROVE  ServedAreSpent' /\ Counted'
  BY <1>4, <1>10 DEF Insert, Finish
<1>11. ASSUME NEW c \in Creators, Create(c) PROVE ServedAreSpent' /\ Counted'
  BY <1>4, <1>11 DEF Create
<1>12. ASSUME NEW a \in Approvers, NEW id \in Ids, ReadRow(a, id)
       PROVE  ServedAreSpent' /\ Counted'
  BY <1>4, <1>12 DEF ReadRow
<1>13. ASSUME NEW a \in Approvers, List(a) PROVE ServedAreSpent' /\ Counted'
  BY <1>4, <1>13 DEF List, Finish
<1>14. ASSUME NEW a \in Approvers, NEW answer \in {"approved", "denied"}, Respond(a, answer)
       PROVE  ServedAreSpent' /\ Counted'
  BY <1>4, <1>14 DEF Respond, Finish
<1> QED
  BY <1>5, <1>6, <1>7, <1>8, <1>9, <1>10, <1>11, <1>12, <1>13, <1>14
  DEF Next, vars, ListPending, Tick

\* An approved request serves no more log-ins than were in flight together,
\* however many crash and however often it is presented again.
THEOREM ServedOnceTogether == Spec => []SessionsBounded
<1>1. Init => IInv
  BY TypeInit, CountInit DEF IInv
<1>2. IInv /\ [Next]_vars => IInv'
  BY TypeStep, CountStep DEF IInv
<1>3. IInv => SessionsBounded
  <2> SUFFICES ASSUME IInv, NEW id \in Ids PROVE sessions[id] <= Cardinality(Logins)
    BY DEF SessionsBounded
  <2>1. sessions[id] + Cardinality(Using(id)) <= Cardinality(Logins) /\ sessions[id] \in Nat
    BY DEF IInv, Counted, Typed, TypeOK
  <2> QED BY <2>1, UsingIsFinite
<1> QED BY <1>1, <1>2, <1>3, PTL DEF Spec

-----------------------------------------------------------------------------
(* Which request is answered.                                              *)

\* Request n is open and newer than id, of the same device.
Overtakes(n, id) == /\ Exists(n) /\ row[n].type \in {0, 1} /\ Answerable(row[n])
                    /\ row[n].device = row[id].device
                    /\ row[n].created > row[id].created

\* The same of the next state.
OvertakesNext(n, id) == /\ row'[n] # NoRow /\ row'[n].type \in {0, 1} /\ Answerable(row'[n])
                        /\ row'[n].device = row'[id].device
                        /\ row'[n].created > row'[id].created

\* Of the requests an approver's list showed, none overtakes the one it found
\* to be the latest, however long the answer takes.
ListedIsNewest ==
  \A a \in Approvers :
     /\ req[a].step \in {"read", "listed"} => req[a].id \in created
     /\ req[a].step = "listed" =>
          /\ req[a].seen \subseteq created
          /\ Exists(req[a].id) => \A n \in req[a].seen : ~Overtakes(n, req[a].id)

\* A request that was drawn keeps its device, type and date until its row
\* goes, never comes back and is never open again once it was closed.
LEMMA DrawnStays ==
  ASSUME Typed, [Next]_vars, NEW id \in created
  PROVE  /\ id \in created'
         /\ row'[id] # NoRow =>
              /\ Exists(id)
              /\ row'[id].device = row[id].device /\ row'[id].type = row[id].type
              /\ row'[id].created = row[id].created
              /\ Answerable(row'[id]) => Answerable(row[id])
<1>1. /\ row \in [Ids -> Row] /\ req \in [Slots -> Request] /\ id \in Ids
      /\ created \subseteq Ids
  BY DEF Typed, TypeOK
<1>2. ASSUME row' = Pruned, created' = created
      PROVE  id \in created' /\ (row'[id] = NoRow \/ row'[id] = row[id])
  BY <1>1, <1>2, PruneKeeps DEF Typed
<1>3. ASSUME NEW c \in Creators, NEW i \in Ids, NEW d \in Devices, NEW t \in Types,
             Insert(c, i, d, t)
      PROVE  id \in created' /\ row'[id] = row[id]
  BY <1>1, <1>3 DEF Insert
<1>4. ASSUME NEW a \in Approvers, NEW answer \in {"approved", "denied"}, Respond(a, answer)
      PROVE  /\ id \in created'
             /\ \/ row'[id] = row[id]
                \/ /\ Exists(id) /\ Answerable(row[id])
                   /\ row'[id] = [row[id] EXCEPT !.answer = answer]
  BY <1>1, <1>4 DEF Respond
<1>5. ASSUME NEW l \in Logins, Mark(l)
      PROVE  /\ id \in created'
             /\ \/ row'[id] = row[id]
                \/ Exists(id) /\ row'[id] = [row[id] EXCEPT !.authenticated = TRUE]
  BY <1>1, <1>5 DEF Mark
<1>6. ASSUME UNCHANGED <<row, created>> PROVE id \in created' /\ row'[id] = row[id]
  BY <1>6
<1>7. ASSUME id \in created', row'[id] = NoRow \/ row'[id] = row[id] PROVE
        /\ id \in created'
        /\ row'[id] # NoRow =>
             /\ Exists(id)
             /\ row'[id].device = row[id].device /\ row'[id].type = row[id].type
             /\ row'[id].created = row[id].created
             /\ Answerable(row'[id]) => Answerable(row[id])
  BY <1>7 DEF Exists
<1>8. ASSUME id \in created', Exists(id), NEW q \in Row, row'[id] = q,
             q.device = row[id].device, q.type = row[id].type, q.created = row[id].created,
             Answerable(q) => Answerable(row[id])
      PROVE
        /\ id \in created'
        /\ row'[id] # NoRow =>
             /\ Exists(id)
             /\ row'[id].device = row[id].device /\ row'[id].type = row[id].type
             /\ row'[id].created = row[id].created
             /\ Answerable(row'[id]) => Answerable(row[id])
  BY <1>8
<1>9. row[id] \in Row
  BY <1>1
<1>10. ASSUME NEW a \in Approvers, NEW answer \in {"approved", "denied"},
              Answerable(row[id])
       PROVE  LET q == [row[id] EXCEPT !.answer = answer]
              IN  /\ q \in Row /\ q.device = row[id].device /\ q.type = row[id].type
                  /\ q.created = row[id].created
  BY <1>9 DEF Row
<1>11. LET q == [row[id] EXCEPT !.authenticated = TRUE]
       IN  /\ q \in Row /\ q.device = row[id].device /\ q.type = row[id].type
           /\ q.created = row[id].created /\ ~Answerable(q)
  BY <1>9 DEF Row, Answerable
<1>12. CASE \E a \in Approvers, answer \in {"approved", "denied"} : Respond(a, answer)
  BY <1>4, <1>7, <1>8, <1>10, <1>12
<1>13. CASE \E l \in Logins : Mark(l)
  BY <1>5, <1>7, <1>8, <1>11, <1>13
<1> QED
  BY <1>2, <1>3, <1>6, <1>7, <1>12, <1>13
  DEF Next, vars, ListPending, Create, ReadRow, List, Validate, Issue, Crash, Tick

\* The latest of the pending requests is overtaken by none at all: a newer one
\* would be pending itself, since the older has not expired.
LEMMA LatestIsNewest ==
  ASSUME TypeOK, NEW id \in Ids, Latest(id), NEW n \in Ids PROVE ~Overtakes(n, id)
<1> SUFFICES ASSUME Overtakes(n, id) PROVE FALSE
  OBVIOUS
<1>1. /\ row[id].created \in Nat /\ row[n].created \in Nat /\ now \in Nat /\ Expiration \in Nat
  BY RequestsAssumption DEF TypeOK, Row, Time
<1>2. row[id].created + Expiration > now /\ row[n].created > row[id].created
  BY <1>1 DEF Latest, Pending, Expired, Overtakes
<1>3. ~Expired(n)
  BY <1>1, <1>2 DEF Expired
<1>4. n \in Rivals(id)
  BY <1>3 DEF Rivals, Pending, Overtakes
<1> QED BY <1>1, <1>2, <1>4 DEF Latest

\* What keeps a listed request listed: its record stays, the rest of the
\* table moves as DrawnStays says.
LEMMA ListedStays ==
  ASSUME Typed, ListedIsNewest, [Next]_vars, NEW a \in Approvers, req'[a] = req[a]
  PROVE  /\ req'[a].step \in {"read", "listed"} => req'[a].id \in created'
         /\ req'[a].step = "listed" =>
              /\ req'[a].seen \subseteq created'
              /\ row'[req'[a].id] # NoRow =>
                   \A n \in req'[a].seen : ~OvertakesNext(n, req'[a].id)
<1>1. created \subseteq Ids /\ row \in [Ids -> Row]
  BY DEF Typed, TypeOK
<1>2. CASE req[a].step = "read"
  BY <1>2, DrawnStays DEF ListedIsNewest
<1>3. CASE req[a].step = "listed"
  <2>1. req[a].id \in created /\ req[a].seen \subseteq created
    BY <1>3 DEF ListedIsNewest
  <2>2. PICK id \in created : id = req[a].id
    BY <2>1
  <2>3. id \in created' /\ req[a].seen \subseteq created'
    BY <2>1, DrawnStays
  <2>4. ASSUME row'[id] # NoRow, NEW n \in req[a].seen, OvertakesNext(n, id)
        PROVE  FALSE
    <3>1. n \in created /\ row'[n] # NoRow
      BY <2>1, <2>4 DEF OvertakesNext
    <3>2. /\ Exists(id) /\ row'[id].device = row[id].device
          /\ row'[id].created = row[id].created
      BY <2>4, DrawnStays
    <3>3. /\ Exists(n) /\ row'[n].device = row[n].device /\ row'[n].type = row[n].type
          /\ row'[n].created = row[n].created /\ (Answerable(row'[n]) => Answerable(row[n]))
      BY <3>1, DrawnStays
    <3>4. /\ row'[n].type \in {0, 1} /\ Answerable(row'[n])
          /\ row'[n].device = row'[id].device /\ row'[n].created > row'[id].created
      BY <2>4 DEF OvertakesNext
    <3>5. Overtakes(n, id)
      BY <3>2, <3>3, <3>4 DEF Overtakes
    <3> QED BY <1>3, <2>2, <3>2, <3>5 DEF ListedIsNewest
  <2> QED BY <1>3, <2>1, <2>2, <2>3, <2>4
<1> QED BY <1>2, <1>3

LEMMA ListedStep == Typed /\ ListedIsNewest /\ [Next]_vars => ListedIsNewest'
<1> SUFFICES ASSUME Typed, ListedIsNewest, [Next]_vars, NEW a \in Approvers
             PROVE  /\ req'[a].step \in {"read", "listed"} => req'[a].id \in created'
                    /\ req'[a].step = "listed" =>
                         /\ req'[a].seen \subseteq created'
                         /\ row'[req'[a].id] # NoRow =>
                              \A n \in req'[a].seen : ~OvertakesNext(n, req'[a].id)
  BY DEF ListedIsNewest, Exists, Overtakes, OvertakesNext, Answerable
<1> DEFINE Kept == req'[a] = req[a] \/ req'[a].step = "idle"
<1>1. /\ row \in [Ids -> Row] /\ req \in [Slots -> Request] /\ created \subseteq Ids /\ TypeOK
      /\ Approvers \subseteq Slots /\ Creators \subseteq Slots /\ Logins \subseteq Slots
      /\ Creators \cap Approvers = {} /\ Logins \cap (Creators \cup Approvers) = {}
  BY RequestsAssumption DEF Typed, TypeOK, Slots
<1>2. CASE Kept
  BY <1>2, ListedStays
<1>3. ASSUME NEW r \in Slots, NEW q, Goto(r, q), r # a \/ q.step = "idle" PROVE Kept
  BY <1>1, <1>3 DEF Goto
<1>4. ASSUME NEW r \in Slots, Finish(r) PROVE Kept
  BY <1>3, <1>4, Records DEF Finish
<1>5. CASE \E c \in Creators : \/ Create(c)
                               \/ \E id \in Ids, d \in Devices, t \in Types : Insert(c, id, d, t)
  BY <1>1, <1>2, <1>3, <1>4, <1>5 DEF Create, Insert
<1>6. CASE \E l \in Logins : \/ \E id \in Ids : Validate(l, id)
                             \/ Mark(l) \/ Issue(l)
  BY <1>1, <1>2, <1>3, <1>4, <1>6 DEF Validate, Mark, Issue
<1>7. ASSUME NEW b \in Approvers, NEW id \in Ids, ReadRow(b, id), b = a
      PROVE  req'[a].step = "read" /\ req'[a].id \in created'
  BY <1>1, <1>7 DEF ReadRow, Goto, Idle, TypeOK
<1>8. CASE \E b \in Approvers : \E id \in Ids : ReadRow(b, id)
  <2>1. CASE ReadRow(a, req'[a].id) /\ req'[a].id \in Ids
    BY <1>7, <2>1
  <2>2. CASE Kept
    BY <1>2, <2>2
  <2>3. PICK b \in Approvers, id \in Ids : ReadRow(b, id)
    BY <1>8
  <2>4. CASE b = a
    BY <1>7, <2>3, <2>4
  <2>5. CASE b # a
    BY <1>1, <1>2, <1>3, <2>3, <2>5 DEF ReadRow
  <2> QED BY <2>4, <2>5
<1>9. CASE \E b \in Approvers : List(b)
  <2>1. PICK b \in Approvers : List(b)
    BY <1>9
  <2>2. CASE Finish(b)
    BY <1>1, <1>2, <1>4, <2>2
  <2>3. CASE b # a
    BY <1>1, <1>2, <1>3, <1>4, <2>1, <2>3 DEF List
  <2>4. CASE b = a /\ ~Finish(b)
    <3>1. /\ req[a].step = "read" /\ Latest(req[a].id) /\ UNCHANGED <<now, row, created>>
          /\ req' = [req EXCEPT ![a] = [req[a] EXCEPT !.step = "listed", !.seen = created]]
      BY <2>1, <2>4 DEF List, At, Goto
    <3>2. /\ req'[a].step = "listed" /\ req'[a].id = req[a].id /\ req'[a].seen = created
      BY <1>1, <3>1 DEF Request
    <3>3. req[a].id \in created
      BY <3>1 DEF ListedIsNewest
    <3>4. PICK id \in created : id = req[a].id
      BY <3>3
    <3>5. \A n \in created : ~Overtakes(n, id)
      BY <1>1, <3>1, <3>4, LatestIsNewest
    <3>6. \A n \in created : ~OvertakesNext(n, req'[a].id)
      BY <3>1, <3>2, <3>4, <3>5 DEF Overtakes, OvertakesNext, Exists
    <3> QED BY <3>1, <3>2, <3>3, <3>6
  <2> QED BY <2>2, <2>3, <2>4
<1>10. CASE \E b \in Approvers, answer \in {"approved", "denied"} : Respond(b, answer)
  BY <1>1, <1>2, <1>4, <1>10 DEF Respond
<1>11. CASE \E r \in Slots : Crash(r)
  BY <1>2, <1>4, <1>11 DEF Crash
<1>12. CASE ListPending \/ Tick \/ UNCHANGED vars
  BY <1>2, <1>12 DEF ListPending, Tick, vars
<1> QED
  BY <1>5, <1>6, <1>8, <1>9, <1>10, <1>11, <1>12 DEF Next

\* Only the approver that listed a request answers it.
LEMMA AnsweredByApprover ==
  ASSUME Typed, [Next]_vars, NEW id \in Ids, row[id].answer = "none", row'[id].answer # "none"
  PROVE  \E a \in Approvers : req[a].step = "listed" /\ req[a].id = id /\ Exists(id)
<1>1. /\ row \in [Ids -> Row] /\ row[id] \in Row
  BY DEF Typed, TypeOK
<1>2. ASSUME row' = Pruned PROVE FALSE
  BY <1>2, PruneKeeps, Records DEF Typed
<1>3. ASSUME NEW c \in Creators, NEW i \in Ids, NEW d \in Devices, NEW t \in Types,
             Insert(c, i, d, t)
      PROVE  FALSE
  <2>1. CASE i = id
    <3>1. row'[id] = [NoRow EXCEPT !.device = d, !.type = t, !.created = req[c].at]
      BY <1>1, <1>3, <2>1 DEF Insert
    <3> QED BY <3>1 DEF NoRow
  <2>2. CASE i # id
    BY <1>1, <1>3, <2>2 DEF Insert
  <2> QED BY <2>1, <2>2
<1>4. ASSUME NEW a \in Approvers, NEW answer \in {"approved", "denied"}, Respond(a, answer)
      PROVE  req[a].step = "listed" /\ req[a].id = id /\ Exists(id)
  BY <1>1, <1>4 DEF Respond, At
<1>5. ASSUME NEW l \in Logins, Mark(l) PROVE FALSE
  <2>1. CASE req[l].id = id /\ Exists(id)
    <3>1. row'[id] = [row[id] EXCEPT !.authenticated = TRUE]
      BY <1>1, <1>5, <2>1 DEF Mark
    <3> QED BY <1>1, <3>1 DEF Row
  <2>2. CASE ~(req[l].id = id /\ Exists(id))
    BY <1>1, <1>5, <2>2 DEF Mark
  <2> QED BY <2>1, <2>2
<1> QED
  BY <1>2, <1>3, <1>4, <1>5
  DEF Next, vars, ListPending, Create, ReadRow, List, Validate, Issue, Crash, Tick

\* However long an approver takes between its list and its answer, and
\* whatever is created, answered and pruned meanwhile, it does not answer a
\* request of which the list already showed a newer one.
THEOREM NewestAreAnswered == Spec => NewestIsAnswered
<1>1. Init => ListedIsNewest
  BY Records DEF Init, ListedIsNewest, Slots
<1>2. Typed /\ ListedIsNewest /\ [Next]_vars =>
        [\A id \in Ids : row[id].answer = "none" /\ row'[id].answer # "none"
           => \E a \in Approvers :
                 /\ req[a].id = id
                 /\ \A n \in Ids : /\ Exists(n) /\ row[n].type \in {0, 1} /\ Answerable(row[n])
                                   /\ row[n].device = row[id].device
                                   /\ row[n].created > row[id].created
                                   => n \notin req[a].seen]_vars
  BY AnsweredByApprover DEF ListedIsNewest, Overtakes
<1> QED BY <1>1, <1>2, ListedStep, TypeInit, TypeStep, PTL DEF Spec, NewestIsAnswered
=============================================================================
