---------------------------- MODULE AuthRequests ----------------------------
(***************************************************************************)
(* Log-in with another device: a device without a session creates an auth  *)
(* request, an approver who has one answers it, and the device logs in     *)
(* with the access code of the approved request instead of a password.     *)
(*                                                                         *)
(* The module has the auth_requests rows of one user and the handlers that *)
(* create, answer, use and prune them, one action per database call.  The  *)
(* caller of a log-in knows the access code; wrong codes are failures of   *)
(* LoginThrottle.tla.                                                      *)
(***************************************************************************)
EXTENDS Integers, FiniteSets

CONSTANTS
  Ids,         \* auth requests, each created once
  NoId,
  Devices,     \* devices that ask to log in
  NoDevice,
  Creators,    \* slots for handleCreateAuthRequest
  Approvers,   \* slots for handleUpdateAuthRequest
  Logins,      \* slots for handleToken with an authRequest
  Types,       \* 0 log in and unlock, 1 unlock, 2 admin approval
  Expiration,  \* AUTH_REQUEST_EXPIRATION_MS, in ticks
  MaxTime      \* bound on the clock

ASSUME RequestsAssumption ==
  /\ NoId \notin Ids /\ NoDevice \notin Devices
  /\ IsFiniteSet(Logins)
  /\ Creators \cap Approvers = {} /\ Logins \cap (Creators \cup Approvers) = {}
  /\ Types \subseteq 0..2
  /\ Expiration \in Nat \ {0} /\ MaxTime \in Nat

VARIABLES
  now,
  row,       \* the table
  created,   \* ids drawn so far: generateUUID repeats none
  req,       \* the requests in flight
  sessions   \* history: the log-ins each auth request has served

vars == <<now, row, created, req, sessions>>

Slots == Creators \cup Approvers \cup Logins
Time  == 0..MaxTime

Row   == [device: Devices \cup {NoDevice}, type: 0..2, created: Time,
          answer: {"none", "approved", "denied"}, authenticated: BOOLEAN]
NoRow == [device |-> NoDevice, type |-> 0, created |-> 0,
          answer |-> "none", authenticated |-> FALSE]

\* at: the creation date; seen (history): the rows there when one was listed.
Steps   == {"idle", "dated", "read", "listed", "valid", "marked"}
Request == [step: Steps, id: Ids \cup {NoId}, at: Time, seen: SUBSET Ids]
Idle    == [step |-> "idle", id |-> NoId, at |-> 0, seen |-> {}]

At(r, step) == req[r].step = step
Goto(r, q)  == req' = [req EXCEPT ![r] = q]
Finish(r)   == Goto(r, Idle)

Exists(id)    == row[id] # NoRow
Expired(id)   == row[id].created + Expiration <= now
Answerable(x) == x.answer = "none" /\ ~x.authenticated

-----------------------------------------------------------------------------
Init == /\ now = 0
        /\ row = [id \in Ids |-> NoRow]
        /\ created = {}
        /\ req = [r \in Slots |-> Idle]
        /\ sessions = [id \in Ids |-> 0]

\* pruneExpiredAuthRequests.
Pruned == [id \in Ids |-> IF row[id].created + Expiration < now THEN NoRow ELSE row[id]]

\* handleListPendingAuthRequests prunes as well.
ListPending == row' = Pruned /\ UNCHANGED <<now, created, req, sessions>>

\* handleCreateAuthRequest, handleCreateAdminAuthRequest: prune, take the date,
Create(c) == /\ At(c, "idle")
             /\ row' = Pruned
             /\ Goto(c, [Idle EXCEPT !.step = "dated", !.at = now])
             /\ UNCHANGED <<now, created, sessions>>

\* ... and insert.
Insert(c, id, d, t) ==
  /\ At(c, "dated")
  /\ id \notin created
  /\ created' = created \cup {id}
  /\ row' = [row EXCEPT ![id] = [NoRow EXCEPT !.device = d, !.type = t, !.created = req[c].at]]
  /\ Finish(c)
  /\ UNCHANGED <<now, sessions>>

-----------------------------------------------------------------------------
\* handleUpdateAuthRequest: an expired or answered request is refused.
ReadRow(a, id) == /\ At(a, "idle")
                  /\ Exists(id) /\ ~Expired(id) /\ Answerable(row[id])
                  /\ Goto(a, [Idle EXCEPT !.step = "read", !.id = id])
                  /\ UNCHANGED <<now, row, created, sessions>>

\* listPendingAuthRequestsByUserId: of each device the latest; two of the same
\* date come in either order.
Pending(id) == Exists(id) /\ row[id].type \in {0, 1} /\ Answerable(row[id]) /\ ~Expired(id)
Rivals(id)  == {n \in Ids : Pending(n) /\ row[n].device = row[id].device}

\* Mutant of Latest: any pending request will do.
AnyPending(id) == Pending(id)

Latest(id)  == Pending(id) /\ \A n \in Rivals(id) : row[n].created <= row[id].created
Tied(id)    == \E n \in Rivals(id) \ {id} : row[n].created = row[id].created

List(a) ==
  /\ At(a, "read")
  /\ LET id == req[a].id
     IN  \/ Latest(id) /\ Goto(a, [req[a] EXCEPT !.step = "listed", !.seen = created])
         \/ (~Latest(id) \/ Tied(id)) /\ Finish(a)
  /\ UNCHANGED <<now, row, created, sessions>>

\* Mutant of Respond: the conditions of the UPDATE are dropped.
RespondAnyway(a, answer) ==
  /\ At(a, "listed")
  /\ row' = IF Exists(req[a].id) THEN [row EXCEPT ![req[a].id].answer = answer] ELSE row
  /\ Finish(a)
  /\ UNCHANGED <<now, created, sessions>>

\* updateAuthRequestResponse: 409 when another answer was first.
Respond(a, answer) ==
  /\ At(a, "listed")
  /\ LET id == req[a].id
     IN  row' = IF Exists(id) /\ Answerable(row[id])
                  THEN [row EXCEPT ![id].answer = answer]
                  ELSE row
  /\ Finish(a)
  /\ UNCHANGED <<now, created, sessions>>

-----------------------------------------------------------------------------
\* Mutants of Usable: a used request still counts; so does an unanswered one.
UsableAgain(id)  == Exists(id) /\ row[id].type = 0 /\ row[id].answer = "approved" /\ ~Expired(id)
UsableUnasked(id) == Exists(id) /\ row[id].type = 0 /\ ~row[id].authenticated /\ ~Expired(id)

Usable(id) == /\ Exists(id) /\ row[id].type = 0
              /\ row[id].answer = "approved"
              /\ ~row[id].authenticated
              /\ ~Expired(id)

\* handleToken: the request is checked before the second factor,
Validate(l, id) == /\ At(l, "idle")
                   /\ Usable(id)
                   /\ Goto(l, [Idle EXCEPT !.step = "valid", !.id = id])
                   /\ UNCHANGED <<now, row, created, sessions>>

\* ... marked after it; whether the mark was the first is not looked at;
Mark(l) == /\ At(l, "valid")
           /\ LET id == req[l].id
              IN  row' = IF Exists(id) THEN [row EXCEPT ![id].authenticated = TRUE] ELSE row
           /\ Goto(l, [req[l] EXCEPT !.step = "marked"])
           /\ UNCHANGED <<now, created, sessions>>

\* ... and the tokens are issued.
Issue(l) == /\ At(l, "marked")
            /\ sessions' = [sessions EXCEPT ![req[l].id] = @ + 1]
            /\ Finish(l)
            /\ UNCHANGED <<now, row, created>>

\* A request stops between two calls: an error, a wrong second factor.
Crash(r) == /\ ~At(r, "idle")
            /\ Finish(r)
            /\ UNCHANGED <<now, row, created, sessions>>

Tick == /\ now < MaxTime
        /\ now' = now + 1
        /\ UNCHANGED <<row, created, req, sessions>>

Next == \/ ListPending
        \/ \E c \in Creators : \/ Create(c)
                               \/ \E id \in Ids, d \in Devices, t \in Types : Insert(c, id, d, t)
        \/ \E a \in Approvers : \/ \E id \in Ids : ReadRow(a, id)
                                \/ List(a)
                                \/ \E answer \in {"approved", "denied"} : Respond(a, answer)
        \/ \E l \in Logins : \/ \E id \in Ids : Validate(l, id)
                             \/ Mark(l) \/ Issue(l)
        \/ \E r \in Slots : Crash(r)
        \/ Tick

Spec == Init /\ [][Next]_vars

-----------------------------------------------------------------------------
\* The table and the requests have their types; a row was used for a log-in
\* only if the owner approved it.
TypeOK == /\ now \in Time
          /\ row \in [Ids -> Row]
          /\ \A id \in Ids : row[id].authenticated => row[id].answer = "approved"
          /\ created \subseteq Ids
          /\ \A id \in Ids : Exists(id) => id \in created
          /\ req \in [Slots -> Request]
          /\ sessions \in [Ids -> Nat]

\* However often an approved request is presented, it serves at most the
\* log-ins that were in flight together: the mark is not a lock, and those
\* that were validated before it all get their tokens.
SessionsBounded == \A id \in Ids : sessions[id] <= Cardinality(Logins)

\* Of two approvers one decides: an answer stands until the row is pruned.
AnswerIsFinal ==
  [][\A id \in Ids : row[id].answer # "none"
        => row'[id].answer = row[id].answer \/ row'[id] = NoRow]_vars

\* An answer never goes to a request that a newer one had replaced when the
\* approver's list was read: the newer one was answered since, or is younger
\* than the list.
NewestIsAnswered ==
  [][\A id \in Ids : row[id].answer = "none" /\ row'[id].answer # "none"
        => \E a \in Approvers :
              /\ req[a].id = id
              /\ \A n \in Ids : /\ Exists(n) /\ row[n].type \in {0, 1} /\ Answerable(row[n])
                                /\ row[n].device = row[id].device
                                /\ row[n].created > row[id].created
                                => n \notin req[a].seen]_vars
=============================================================================
