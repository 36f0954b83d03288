---------------------------- MODULE Registration ----------------------------
(***************************************************************************)
(* How accounts come and go: the first registration makes the              *)
(* administrator, every other one takes an invite, reserved before the     *)
(* account is inserted and given back when that fails; the administrator   *)
(* creates and deletes invites, bans accounts and deletes them.            *)
(*                                                                         *)
(* One action per statement on "users" and "invites".  What an account     *)
(* does afterwards, and what a ban or a deletion does to its sessions, is  *)
(* in Sessions.tla.                                                        *)
(***************************************************************************)
EXTENDS Integers, FiniteSets

CONSTANTS
  Accounts,    \* user ids: each is drawn by one registration
  NoAccount,
  Emails, NoEmail,
  Invites, NoInvite,  \* invite codes: each is drawn once
  Registrars,  \* slots for handleRegister
  Admins,      \* slots for handleAdminSetUserStatus, handleAdminDeleteUser
  MaxFailures  \* bound on insertions that fail for another reason than the e-mail

ASSUME RegistrationAssumption ==
  /\ NoAccount \notin Accounts /\ NoEmail \notin Emails /\ NoInvite \notin Invites
  /\ Registrars \cap Admins = {}
  /\ MaxFailures \in Nat

VARIABLES
  users,     \* the row of each account
  drawn,     \* the ids drawn so far
  invites,   \* the row of each invite
  signups,   \* the requests in flight
  failures,  \* insertions that failed
  bought,    \* history: the accounts each invite has made
  excused    \* history: of "misreported" the invites whose account was inserted
             \* by a statement that threw, of "stopped" those whose registration
             \* stopped half-way

registrationVars == <<users, drawn, invites, signups, failures, bought, excused>>

\* Of a user: the e-mail, the role and the status.
User   == [email: Emails \cup {NoEmail}, admin: BOOLEAN, status: {"none", "active", "banned"}]
NoUser == [email |-> NoEmail, admin |-> FALSE, status |-> "none"]

\* An invite past its expiry stays in the table until it is deleted.
Invite   == [status: {"new", "active", "used", "deleted"}, usedBy: Accounts \cup {NoAccount},
             expired: BOOLEAN]
NoRowFor(status) == [status |-> status, usedBy |-> NoAccount, expired |-> FALSE]

\* copy: the target an administrator's request has read.
SignupSteps == {"idle", "first", "mark", "create", "assign", "revert", "save", "delete"}
Signup   == [step: SignupSteps, id: Accounts \cup {NoAccount}, email: Emails \cup {NoEmail},
             invite: Invites \cup {NoInvite}, copy: User]
NoSignup == [step |-> "idle", id |-> NoAccount, email |-> NoEmail, invite |-> NoInvite,
             copy |-> NoUser]

Exist        == {u \in Accounts : users[u] # NoUser}
Taken(email) == \E u \in Exist : users[u].email = email

In(r, s)    == signups[r].step = s
To(r, s)    == signups' = [signups EXCEPT ![r].step = s]
Done(r)     == signups' = [signups EXCEPT ![r] = NoSignup]

-----------------------------------------------------------------------------
RegistrationInit ==
  /\ users = [u \in Accounts |-> NoUser]
  /\ drawn = {}
  /\ invites = [i \in Invites |-> NoRowFor("new")]
  /\ signups = [r \in Registrars \cup Admins |-> NoSignup]
  /\ failures = 0
  /\ bought = [i \in Invites |-> 0]
  /\ excused = [misreported |-> {}, stopped |-> {}]

(* handleRegister.                                                         *)

\* getUserCount decides between the two ways; without a code it ends.
CountUsers(r, u, e) ==
  /\ In(r, "idle")
  /\ u \notin drawn
  /\ drawn' = drawn \cup {u}
  /\ \/ /\ Exist = {}
        /\ signups' = [signups EXCEPT ![r] = [NoSignup EXCEPT !.step = "first", !.id = u, !.email = e]]
     \/ /\ Exist # {}
        /\ \E i \in Invites :
             signups' = [signups EXCEPT ![r] =
               [NoSignup EXCEPT !.step = "mark", !.id = u, !.email = e, !.invite = i]]
  /\ UNCHANGED <<users, invites, failures, bought, excused>>

\* Mutant of NobodyYet: the insertion does not repeat the condition.
Anybody == TRUE

\* createFirstUser inserts WHERE NOT EXISTS; who comes too late gets a 409.
NobodyYet == Exist = {}

CreateFirst(r) ==
  /\ In(r, "first")
  /\ users' = IF NobodyYet /\ ~Taken(signups[r].email)
                THEN [users EXCEPT ![signups[r].id] =
                       [email |-> signups[r].email, admin |-> TRUE, status |-> "active"]]
                ELSE users
  /\ Done(r)
  /\ UNCHANGED <<drawn, invites, failures, bought, excused>>

\* Mutant of Open: the UPDATE checks the expiry only.
OpenTwice(i) == invites[i].status \in {"active", "used"} /\ ~invites[i].expired

Open(i) == invites[i].status = "active" /\ ~invites[i].expired

\* markInviteUsed.
MarkInvite(r) ==
  /\ In(r, "mark")
  /\ LET i == signups[r].invite
     IN  IF Open(i)
           THEN /\ invites' = [invites EXCEPT ![i].status = "used", ![i].usedBy = NoAccount]
                /\ To(r, "create")
           ELSE Done(r) /\ UNCHANGED invites
  /\ UNCHANGED <<users, drawn, failures, bought, excused>>

InsertedBy(r) == [users EXCEPT ![signups[r].id] =
                   [email |-> signups[r].email, admin |-> FALSE, status |-> "active"]]

\* createUser: the e-mail is unique, and a taken one gives the invite back.
CreateUser(r) ==
  /\ In(r, "create")
  /\ IF Taken(signups[r].email)
       THEN To(r, "revert") /\ UNCHANGED <<users, bought>>
       ELSE /\ users' = InsertedBy(r)
            /\ bought' = [bought EXCEPT ![signups[r].invite] = @ + 1]
            /\ To(r, "assign")
  /\ UNCHANGED <<drawn, invites, failures, excused>>

\* The statement throws for another reason, and may have been done all the
\* same: the handler cannot tell.
CreateFails(r) ==
  /\ In(r, "create")
  /\ failures < MaxFailures
  /\ failures' = failures + 1
  /\ \/ UNCHANGED <<users, bought, excused>>
     \/ /\ ~Taken(signups[r].email)
        /\ users' = InsertedBy(r)
        /\ bought' = [bought EXCEPT ![signups[r].invite] = @ + 1]
        /\ excused' = [excused EXCEPT !.misreported = @ \cup {signups[r].invite}]
  /\ To(r, "revert")
  /\ UNCHANGED <<drawn, invites>>

Reserved(i) == invites[i].status = "used" /\ invites[i].usedBy = NoAccount

\* Mutant of RevertInvite: the reservation is not given back.
RevertNothing(r) == /\ In(r, "revert")
                    /\ Done(r)
                    /\ UNCHANGED <<users, drawn, invites, failures, bought, excused>>

\* revertInviteUsed, by the code alone.
RevertInvite(r) ==
  /\ In(r, "revert")
  /\ LET i == signups[r].invite
     IN  invites' = IF Reserved(i) THEN [invites EXCEPT ![i].status = "active"] ELSE invites
  /\ Done(r)
  /\ UNCHANGED <<users, drawn, failures, bought, excused>>

\* assignInviteUsedBy, whose foreign key fails when the user is gone again.
AssignInvite(r) ==
  /\ In(r, "assign")
  /\ LET i == signups[r].invite
     IN  invites' = IF Reserved(i) /\ signups[r].id \in Exist
                      THEN [invites EXCEPT ![i].usedBy = signups[r].id] ELSE invites
  /\ Done(r)
  /\ UNCHANGED <<users, drawn, failures, bought, excused>>

StopSignup(r) ==
  /\ ~In(r, "idle")
  /\ excused' = IF signups[r].step \in {"create", "revert"}
                   THEN [excused EXCEPT !.stopped = @ \cup {signups[r].invite}] ELSE excused
  /\ Done(r)
  /\ UNCHANGED <<users, drawn, invites, failures, bought>>

-----------------------------------------------------------------------------
(* The administrator.                                                      *)

Acts(a) == users[a].admin /\ users[a].status = "active"

CreateInvite(i) ==
  /\ \E a \in Accounts : Acts(a)
  /\ invites[i].status = "new"
  /\ invites' = [invites EXCEPT ![i].status = "active"]
  /\ UNCHANGED <<users, drawn, signups, failures, bought, excused>>

\* The time passes at which the invite expires.
ExpireInvite(i) ==
  /\ invites[i].status \in {"active", "used"} /\ ~invites[i].expired
  /\ invites' = [invites EXCEPT ![i].expired = TRUE]
  /\ UNCHANGED <<users, drawn, signups, failures, bought, excused>>

\* One invite, the invalid ones, or all.
DeleteInvites ==
  /\ \E a \in Accounts : Acts(a)
  /\ LET there   == {i \in Invites : invites[i].status \in {"active", "used"}}
         invalid == {i \in there : invites[i].status = "used" \/ invites[i].expired}
     IN  \E doomed \in {{i} : i \in there} \cup {invalid, there} :
           /\ doomed # {}
           /\ invites' = [i \in Invites |-> IF i \in doomed THEN NoRowFor("deleted") ELSE invites[i]]
  /\ UNCHANGED <<users, drawn, signups, failures, bought, excused>>

\* "You cannot ban yourself", "You cannot delete yourself".
MayTarget(a, u) == Acts(a) /\ a # u

\* handleAdminSetUserStatus, handleAdminDeleteUser: the target is read,
ReadTarget(d, a, u) ==
  /\ In(d, "idle")
  /\ u \in Exist
  /\ \/ /\ Acts(a)
        /\ \E status \in {"active", "banned"} :
             /\ status = "banned" => MayTarget(a, u)
             /\ signups' = [signups EXCEPT ![d] = [NoSignup EXCEPT !.step = "save", !.id = u,
                             !.copy = [users[u] EXCEPT !.status = status]]]
     \/ /\ MayTarget(a, u)
        /\ signups' = [signups EXCEPT ![d] = [NoSignup EXCEPT !.step = "delete", !.id = u]]
  /\ UNCHANGED <<users, drawn, invites, failures, bought, excused>>

\* ... and the whole copy saved, which inserts a row that is gone unless its
\* e-mail has been taken,
SaveTarget(d) ==
  /\ In(d, "save")
  /\ LET u == signups[d].id
         c == signups[d].copy
     IN  users' = IF u \in Exist \/ ~Taken(c.email) THEN [users EXCEPT ![u] = c] ELSE users
  /\ Done(d)
  /\ UNCHANGED <<drawn, invites, failures, bought, excused>>

\* ... or the row deleted; the invite it came by keeps its status.
DeleteTarget(d) ==
  /\ In(d, "delete")
  /\ users' = [users EXCEPT ![signups[d].id] = NoUser]
  /\ invites' = [i \in Invites |-> IF invites[i].usedBy = signups[d].id
                                   THEN [invites[i] EXCEPT !.usedBy = NoAccount] ELSE invites[i]]
  /\ Done(d)
  /\ UNCHANGED <<drawn, failures, bought, excused>>

RegistrationNext ==
  \/ \E r \in Registrars :
       \/ \E u \in Accounts, e \in Emails : CountUsers(r, u, e)
       \/ CreateFirst(r) \/ MarkInvite(r) \/ CreateUser(r) \/ CreateFails(r)
       \/ RevertInvite(r) \/ AssignInvite(r)
  \/ \E i \in Invites : CreateInvite(i) \/ ExpireInvite(i)
  \/ DeleteInvites
  \/ \E d \in Admins : \/ \E a, u \in Accounts : ReadTarget(d, a, u)
                       \/ SaveTarget(d) \/ DeleteTarget(d)
  \/ \E r \in Registrars \cup Admins : StopSignup(r)

RegistrationSpec == RegistrationInit /\ [][RegistrationNext]_registrationVars

-----------------------------------------------------------------------------
\* Rows, requests and counters have their types; e-mails are unique.
RegistrationTypeOK ==
  /\ users \in [Accounts -> User]
  /\ \A u, v \in Exist : users[u].email = users[v].email => u = v
  /\ drawn \subseteq Accounts
  /\ invites \in [Invites -> Invite]
  /\ signups \in [Registrars \cup Admins -> Signup]
  /\ failures \in 0..MaxFailures
  /\ bought \in [Invites -> Nat]
  /\ excused \in [misreported: SUBSET Invites, stopped: SUBSET Invites]

\* However first registrations race, and whatever administrators' requests
\* save or delete with the copies they have read: as long as there is an
\* account there is one administrator, and he is active.
OneActiveAdmin == Exist # {} =>
  \E a \in Exist : Acts(a) /\ \A u \in Exist : users[u].admin => u = a

\* An invite makes one account at most, unless an insertion that was done was
\* reported as failed.
InviteMakesOne == \A i \in Invites : bought[i] > 1 => i \in excused.misreported

\* An invite is used up without an account only while its registration runs
\* or after it stopped half-way: a refused e-mail and a failed insertion give
\* it back.
NoInviteLost == \A i \in Invites :
  invites[i].status = "used" /\ bought[i] = 0 =>
    i \in excused.stopped \/ \E r \in Registrars : signups[r].invite = i
=============================================================================
