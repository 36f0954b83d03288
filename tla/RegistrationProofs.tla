------------------------- MODULE RegistrationProofs -------------------------
(* There is one active administrator and an invite makes one account, for  *)
(* any number of registrations, invites and administrators' requests.      *)
EXTENDS Registration, TLAPS

\* A registration that has not inserted its account yet has the id to itself.
Drawing == {r \in Registrars : signups[r].step \in {"first", "mark", "create"}}
Unborn  == \A r \in Drawing :
             /\ signups[r].id \in drawn /\ users[signups[r].id] = NoUser
             /\ \A q \in Drawing : signups[q].id = signups[r].id => q = r
             /\ \A d \in Admins : ~In(d, "idle") => signups[d].id # signups[r].id

\* What the copy of an administrator's request and a row, or two copies, of one
\* account agree on.
SameAccount(c, x) == c.email = x.email /\ c.admin = x.admin

Saving == {d \in Admins : In(d, "save")}
Copied == /\ \A d \in Saving : /\ signups[d].copy.status # "none"
                               /\ users[signups[d].id] # NoUser =>
                                    SameAccount(signups[d].copy, users[signups[d].id])
          /\ \A d, b \in Saving :
               signups[d].id = signups[b].id => SameAccount(signups[d].copy, signups[b].copy)

\* Requests do the steps of their kind, on ids that have been drawn.
Kinds == /\ \A r \in Registrars : /\ signups[r].step \notin {"save", "delete"}
                                  /\ ~In(r, "idle") => signups[r].id \in drawn
                                  /\ signups[r].step \in {"mark", "create", "assign", "revert"} =>
                                       signups[r].invite \in Invites
         /\ \A d \in Admins : /\ signups[d].step \in {"idle", "save", "delete"}
                              /\ ~In(d, "idle") => signups[d].id \in drawn
         /\ Exist \subseteq drawn
         /\ \A u \in Exist : users[u].status # "none"

RegistrationInv == RegistrationTypeOK /\ Kinds /\ Unborn /\ Copied

LEMMA RegistrationInitInv == RegistrationInit => RegistrationInv
<1> SUFFICES ASSUME RegistrationInit PROVE RegistrationInv
  OBVIOUS
<1>1. NoSignup \in Signup /\ NoSignup.step = "idle" /\ NoUser \in User
  BY DEF NoSignup, NoUser, Signup, SignupSteps, User
<1>2. Exist = {}
  BY DEF RegistrationInit, Exist
<1>3. \A r \in Registrars \cup Admins : signups[r] = NoSignup
  BY DEF RegistrationInit
<1>4. RegistrationTypeOK
  BY RegistrationAssumption, <1>1, <1>2
  DEF RegistrationInit, RegistrationTypeOK, Invite, NoRowFor
<1>5. Kinds /\ Unborn /\ Copied
  BY <1>1, <1>2, <1>3 DEF Kinds, Unborn, Copied, Drawing, Saving, In
<1> QED BY <1>4, <1>5 DEF RegistrationInv

\* The record of a request, changed by a step.
LEMMA NextSignup ==
  ASSUME signups \in [Registrars \cup Admins -> Signup],
         NEW r \in Registrars \cup Admins, NEW s \in SignupSteps
  PROVE  /\ To(r, s) => \E x \in Signup :
              /\ signups' = [signups EXCEPT ![r] = x]
              /\ x.step = s /\ x.id = signups[r].id /\ x.email = signups[r].email
              /\ x.invite = signups[r].invite
         /\ Done(r) => \E x \in Signup :
              signups' = [signups EXCEPT ![r] = x] /\ x.step = "idle"
<1>1. signups[r] \in Signup
  OBVIOUS
<1>2. ASSUME To(r, s)
      PROVE  \E x \in Signup :
              /\ signups' = [signups EXCEPT ![r] = x]
              /\ x.step = s /\ x.id = signups[r].id /\ x.email = signups[r].email
              /\ x.invite = signups[r].invite
  <2> DEFINE x == [signups[r] EXCEPT !.step = s]
  <2>1. x \in Signup /\ x.step = s
    BY <1>1 DEF Signup
  <2>2. x.id = signups[r].id /\ x.email = signups[r].email /\ x.invite = signups[r].invite
    BY <1>1 DEF Signup
  <2>3. signups' = [signups EXCEPT ![r] = x]
    BY <1>1, <1>2 DEF To, Signup
  <2> HIDE DEF x
  <2> QED BY <2>1, <2>2, <2>3
<1>3. NoSignup \in Signup /\ NoSignup.step = "idle"
  BY DEF NoSignup, NoUser, Signup, SignupSteps, User
<1> QED BY <1>2, <1>3 DEF Done

\* The tables of invites and the counters keep their types.
InvitesTyped == /\ invites \in [Invites -> Invite] /\ failures \in 0..MaxFailures
                /\ bought \in [Invites -> Nat]
                /\ excused \in [misreported: SUBSET Invites, stopped: SUBSET Invites]

LEMMA InvitesStep ==
  RegistrationTypeOK /\ Kinds /\ [RegistrationNext]_registrationVars => InvitesTyped'
<1> SUFFICES ASSUME RegistrationTypeOK, Kinds, [RegistrationNext]_registrationVars
             PROVE  InvitesTyped'
  OBVIOUS
<1> USE RegistrationAssumption
<1>t. /\ InvitesTyped
      /\ \A i \in Invites : invites[i] \in Invite
      /\ \A r \in Registrars \cup Admins : signups[r] \in Signup
  BY DEF RegistrationTypeOK, InvitesTyped
<1>i. \A r \in Registrars : signups[r].step \in {"mark", "create", "assign", "revert"} =>
                             signups[r].invite \in Invites
  BY DEF Kinds
<1>1. UNCHANGED <<invites, failures, bought, excused>> => InvitesTyped'
  BY <1>t DEF InvitesTyped
<1>2. ASSUME invites' \in [Invites -> Invite], UNCHANGED <<failures, bought, excused>>
      PROVE  InvitesTyped'
  BY <1>t, <1>2 DEF InvitesTyped
<1>3. ASSUME NEW r \in Registrars, MarkInvite(r) PROVE InvitesTyped'
  <2>1. signups[r].invite \in Invites
    BY <1>i, <1>3 DEF MarkInvite, In
  <2>2. invites' \in [Invites -> Invite]
    BY <1>t, <1>3, <2>1 DEF MarkInvite, InvitesTyped, Invite
  <2> QED BY <1>2, <1>3, <2>2 DEF MarkInvite
<1>4. ASSUME NEW r \in Registrars, CreateUser(r) PROVE InvitesTyped'
  <2>1. bought' \in [Invites -> Nat]
    BY <1>i, <1>t, <1>4 DEF CreateUser, In, InvitesTyped
  <2> QED BY <1>t, <1>4, <2>1 DEF CreateUser, InvitesTyped
<1>5. ASSUME NEW r \in Registrars, CreateFails(r) PROVE InvitesTyped'
  <2>1. signups[r].invite \in Invites
    BY <1>i, <1>5 DEF CreateFails, In
  <2>2. bought' \in [Invites -> Nat] /\ failures' \in 0..MaxFailures
    BY <1>t, <1>5, <2>1 DEF CreateFails, InvitesTyped
  <2>3. excused' \in [misreported: SUBSET Invites, stopped: SUBSET Invites]
    BY <1>t, <1>5, <2>1 DEF CreateFails, InvitesTyped
  <2> QED BY <1>t, <1>5, <2>2, <2>3 DEF CreateFails, InvitesTyped
<1>6. ASSUME NEW r \in Registrars, RevertInvite(r) PROVE InvitesTyped'
  <2>1. invites' \in [Invites -> Invite]
    BY <1>t, <1>6 DEF RevertInvite, InvitesTyped, Invite
  <2> QED BY <1>2, <1>6, <2>1 DEF RevertInvite
<1>7. ASSUME NEW r \in Registrars, AssignInvite(r) PROVE InvitesTyped'
  <2>1. invites' \in [Invites -> Invite]
    BY <1>t, <1>7, ZenonT(30) DEF AssignInvite, InvitesTyped, Invite, Exist
  <2> QED BY <1>2, <1>7, <2>1 DEF AssignInvite
<1>8. ASSUME NEW r \in Registrars \cup Admins, StopSignup(r) PROVE InvitesTyped'
  <2>1. signups[r].step \in {"create", "revert"} => signups[r].invite \in Invites
    BY <1>i DEF Kinds
  <2>2. excused' \in [misreported: SUBSET Invites, stopped: SUBSET Invites]
    BY <1>t, <1>8, <2>1 DEF StopSignup, InvitesTyped
  <2> QED BY <1>t, <1>8, <2>2 DEF StopSignup, InvitesTyped
<1>9. ASSUME NEW i \in Invites, CreateInvite(i) \/ ExpireInvite(i) PROVE InvitesTyped'
  <2>1. PICK x \in Invite : invites' = [invites EXCEPT ![i] = x]
    <3>1. [invites[i] EXCEPT !.status = "active"] \in Invite
      BY <1>t DEF Invite
    <3>2. [invites[i] EXCEPT !.expired = TRUE] \in Invite
      BY <1>t DEF Invite
    <3> QED BY <1>9, <3>1, <3>2 DEF CreateInvite, ExpireInvite
  <2>2. invites' \in [Invites -> Invite]
    BY <1>t, <2>1 DEF InvitesTyped
  <2> QED BY <1>2, <1>9, <2>2 DEF CreateInvite, ExpireInvite
<1>10. CASE DeleteInvites
  <2>1. NoRowFor("deleted") \in Invite
    BY DEF NoRowFor, Invite
  <2>2. invites' \in [Invites -> Invite]
    BY <1>t, <1>10, <2>1 DEF DeleteInvites, InvitesTyped
  <2> QED BY <1>2, <1>10, <2>2 DEF DeleteInvites
<1>11. ASSUME NEW d \in Admins, DeleteTarget(d) PROVE InvitesTyped'
  <2>1. \A i \in Invites : [invites[i] EXCEPT !.usedBy = NoAccount] \in Invite
    BY <1>t DEF Invite
  <2>2. invites' \in [Invites -> Invite]
    BY <1>t, <1>11, <2>1 DEF DeleteTarget
  <2> QED BY <1>2, <1>11, <2>2 DEF DeleteTarget
<1> QED
  BY <1>1, <1>3, <1>4, <1>5, <1>6, <1>7, <1>8, <1>9, <1>10, <1>11
  DEF RegistrationNext, registrationVars, CountUsers, CreateFirst, ReadTarget, SaveTarget

\* The accounts and the requests.
AccountsTyped == /\ users \in [Accounts -> User] /\ drawn \subseteq Accounts
                 /\ \A u, v \in Exist : users[u].email = users[v].email => u = v
                 /\ signups \in [Registrars \cup Admins -> Signup]

AccountsInv == AccountsTyped /\ Kinds /\ Unborn /\ Copied

\* A registration takes a step and no account comes or goes.
LEMMA RegistrarSteps ==
  ASSUME AccountsInv, NEW r \in Registrars, NEW x \in Signup,
         signups' = [signups EXCEPT ![r] = x], UNCHANGED <<users, drawn>>,
         x.step \notin {"save", "delete"}, x.step # "idle" => x.id \in drawn,
         x.step \in {"mark", "create", "assign", "revert"} => x.invite \in Invites,
         x.step \in {"first", "mark", "create"} => r \in Drawing /\ x.id = signups[r].id
  PROVE  AccountsInv'
<1>0. /\ signups \in [Registrars \cup Admins -> Signup] /\ Registrars \cap Admins = {}
      /\ Kinds /\ Unborn /\ Copied
  BY RegistrationAssumption DEF AccountsInv, AccountsTyped
<1>1. /\ \A q \in Registrars : signups'[q] = IF q = r THEN x ELSE signups[q]
      /\ \A d \in Admins : signups'[d] = signups[d]
  BY <1>0
<1>2. AccountsTyped'
  BY <1>0 DEF AccountsInv, AccountsTyped, Exist
<1>3. Kinds'
  BY <1>0, <1>1 DEF Kinds, In, Exist
<1>4. Drawing' \subseteq Drawing /\ \A q \in Drawing' : signups'[q].id = signups[q].id
  BY <1>1 DEF Drawing
<1>5. Unborn'
  BY <1>0, <1>1, <1>4 DEF Unborn, In
<1>6. Copied'
  BY <1>0, <1>1 DEF Copied, Saving, In
<1> QED BY <1>2, <1>3, <1>5, <1>6 DEF AccountsInv

\* A registration inserts its account and goes on or ends.
LEMMA Inserts ==
  ASSUME AccountsInv, NEW r \in Drawing, NEW x \in Signup, NEW b \in BOOLEAN,
         ~Taken(signups[r].email),
         users' = [users EXCEPT ![signups[r].id] =
                     [email |-> signups[r].email, admin |-> b, status |-> "active"]],
         signups' = [signups EXCEPT ![r] = x], drawn' = drawn,
         x.step \in {"idle", "assign", "revert"}, x.step # "idle" => x.id \in drawn,
         x.step # "idle" => x.invite \in Invites
  PROVE  /\ AccountsInv'
         /\ Exist' = Exist \cup {signups[r].id} /\ signups[r].id \notin Exist
         /\ \A u \in Exist : users'[u] = users[u]
<1>0. /\ signups \in [Registrars \cup Admins -> Signup] /\ Registrars \cap Admins = {}
      /\ users \in [Accounts -> User] /\ drawn \subseteq Accounts
      /\ Kinds /\ Unborn /\ Copied /\ r \in Registrars /\ signups[r] \in Signup
  BY RegistrationAssumption DEF AccountsInv, AccountsTyped, Drawing
<1>1. /\ \A q \in Registrars : signups'[q] = IF q = r THEN x ELSE signups[q]
      /\ \A d \in Admins : signups'[d] = signups[d]
  BY <1>0
<1> DEFINE me == signups[r].id
           row == [email |-> signups[r].email, admin |-> b, status |-> "active"]
<1>2. /\ me \in drawn /\ me \in Accounts /\ users[me] = NoUser
      /\ \A q \in Drawing : signups[q].id = me => q = r
      /\ \A d \in Admins : ~In(d, "idle") => signups[d].id # me
  BY <1>0 DEF Unborn
<1>3. row \in User /\ row # NoUser /\ row.status = "active" /\ row.email = signups[r].email
  BY <1>0 DEF User, NoUser, Signup
<1>4. users'[me] = row /\ \A u \in Accounts : u # me => users'[u] = users[u]
  BY <1>0, <1>2
<1> HIDE DEF row, me
<1>5. Exist' = Exist \cup {me} /\ me \notin Exist
  BY <1>2, <1>3, <1>4 DEF Exist
<1>6. \A u \in Exist : users'[u] = users[u]
  BY <1>2, <1>4 DEF Exist
<1>7. AccountsTyped'
  <2>1. users' \in [Accounts -> User]
    BY <1>0, <1>2, <1>3 DEF me, row
  <2>2. \A u \in Exist : users[u].email # row.email
    BY <1>3 DEF Taken
  <2>3. \A u, v \in Exist' : users'[u].email = users'[v].email => u = v
    BY <1>4, <1>5, <1>6, <2>2 DEF AccountsInv, AccountsTyped
  <2> QED BY <1>0, <2>1, <2>3 DEF AccountsTyped
<1>8. Kinds'
  BY <1>0, <1>1, <1>2, <1>3, <1>4, <1>5, <1>6 DEF Kinds, In
<1>9. Drawing' = Drawing \ {r}
  BY <1>0, <1>1 DEF Drawing
<1>10. \A q \in Drawing' : /\ q \in Registrars /\ signups'[q] = signups[q] /\ signups[q].id # me
                           /\ signups[q].id \in Accounts
  BY <1>0, <1>1, <1>2, <1>9 DEF Drawing, Unborn
<1>11. Unborn'
  BY <1>0, <1>1, <1>4, <1>9, <1>10 DEF Unborn, In
<1>12. \A d \in Saving : d \in Admins /\ signups[d].id # me /\ signups[d].id \in Accounts
  BY <1>0, <1>2 DEF Saving, In, Kinds
<1>13. Copied'
  BY <1>0, <1>1, <1>4, <1>12 DEF Copied, Saving, In
<1> QED BY <1>5, <1>6, <1>7, <1>8, <1>11, <1>13 DEF AccountsInv, me

\* An administrator's request takes a step; its target is an account there is,
\* and what it holds of it is a copy.
LEMMA AdminSteps ==
  ASSUME AccountsInv, NEW d \in Admins, NEW x \in Signup,
         signups' = [signups EXCEPT ![d] = x], UNCHANGED <<users, drawn>>,
         x.step \in {"idle", "save", "delete"}, x.step # "idle" => x.id \in Exist,
         x.step = "save" => SameAccount(x.copy, users[x.id]) /\ x.copy.status # "none"
  PROVE  AccountsInv'
<1>0. /\ signups \in [Registrars \cup Admins -> Signup] /\ Registrars \cap Admins = {}
      /\ Kinds /\ Unborn /\ Copied /\ Exist' = Exist
  BY RegistrationAssumption DEF AccountsInv, AccountsTyped, Exist
<1>1. /\ \A q \in Registrars : signups'[q] = signups[q]
      /\ \A b \in Admins : signups'[b] = IF b = d THEN x ELSE signups[b]
  BY <1>0
<1>2. AccountsTyped'
  BY <1>0 DEF AccountsInv, AccountsTyped
<1>3. Kinds'
  BY <1>0, <1>1 DEF Kinds, In
<1>4. Drawing' = Drawing /\ \A r \in Drawing : r \in Registrars /\ signups[r].id \notin Exist
  BY <1>0, <1>1 DEF Drawing, Unborn, Exist
<1>5. Unborn'
  BY <1>0, <1>1, <1>4 DEF Unborn, In
<1>6. \A b \in Saving' : (b = d /\ x.step = "save") \/ (b # d /\ b \in Saving)
  BY <1>1 DEF Saving, In
<1>7. Copied'
  BY <1>0, <1>1, <1>6 DEF Copied, SameAccount, Exist
<1> QED BY <1>2, <1>3, <1>5, <1>7 DEF AccountsInv

\* A copy is saved, over its row or in its place.
LEMMA Saves ==
  ASSUME AccountsInv, NEW d \in Admins, SaveTarget(d)
  PROVE  /\ AccountsInv'
         /\ \/ users' = users
            \/ /\ signups[d].id \in Accounts
               /\ users' = [users EXCEPT ![signups[d].id] = signups[d].copy]
<1>0. /\ signups \in [Registrars \cup Admins -> Signup] /\ Registrars \cap Admins = {}
      /\ users \in [Accounts -> User] /\ drawn \subseteq Accounts
      /\ Kinds /\ Unborn /\ Copied /\ signups[d] \in Signup /\ d \in Saving
  BY RegistrationAssumption DEF AccountsInv, AccountsTyped, SaveTarget, Saving
<1> DEFINE u == signups[d].id
           c == signups[d].copy
<1>1. /\ u \in drawn /\ u \in Accounts /\ c \in User /\ c # NoUser
      /\ users[u] # NoUser => SameAccount(c, users[u])
      /\ \A b \in Saving : signups[b].id = u => SameAccount(signups[b].copy, c)
  <2>1. u \in drawn /\ u \in Accounts
    BY <1>0 DEF Kinds, Saving, In
  <2>2. c \in User /\ c.status # "none"
    BY <1>0 DEF Signup, Copied
  <2>3. c # NoUser
    BY <2>2 DEF NoUser
  <2>4. /\ users[u] # NoUser => SameAccount(c, users[u])
        /\ \A b \in Saving : signups[b].id = u => SameAccount(signups[b].copy, c)
    BY <1>0 DEF Copied
  <2> QED BY <2>1, <2>2, <2>3, <2>4
<1>2. /\ users' = IF u \in Exist \/ ~Taken(c.email) THEN [users EXCEPT ![u] = c] ELSE users
      /\ Done(d) /\ drawn' = drawn
  BY <1>0 DEF SaveTarget
<1>3. PICK x \in Signup : signups' = [signups EXCEPT ![d] = x] /\ x.step = "idle"
  BY <1>0, <1>2, NextSignup DEF SignupSteps
<1>4. /\ \A q \in Registrars : signups'[q] = signups[q]
      /\ \A b \in Admins : signups'[b] = IF b = d THEN x ELSE signups[b]
  BY <1>0, <1>3
<1>d. c.status # "none"
  BY <1>0 DEF Copied
<1> HIDE DEF u, c
<1>5. CASE users' = users
  BY <1>2, <1>3, <1>5, AdminSteps
<1>6. CASE users' = [users EXCEPT ![u] = c] /\ (u \in Exist \/ ~Taken(c.email))
  <2>1. users'[u] = c /\ \A v \in Accounts : v # u => users'[v] = users[v]
    BY <1>0, <1>1, <1>6
  <2>2. Exist' = Exist \cup {u}
    BY <1>1, <2>1 DEF Exist
  <2>3. \A v \in Exist : v # u => users[v].email # c.email
    BY <1>0, <1>1, <1>6 DEF Taken, AccountsInv, AccountsTyped, SameAccount, Exist
  <2>4. users' \in [Accounts -> User]
    BY <1>0, <1>1, <1>6
  <2>5. \A v, w \in Exist' : users'[v].email = users'[w].email => v = w
    BY <1>1, <2>1, <2>2, <2>3 DEF AccountsInv, AccountsTyped, Exist
  <2>6. AccountsTyped'
    BY <1>0, <1>2, <1>3, <2>4, <2>5 DEF AccountsTyped
  <2>7. Kinds'
    <3>1. \A v \in Exist' : users'[v].status # "none"
      BY <1>0, <1>d, <2>1, <2>2 DEF Kinds, Exist
    <3> QED BY <1>0, <1>1, <1>2, <1>3, <1>4, <2>2, <3>1 DEF Kinds, In
  <2>8. Drawing' = Drawing /\ \A r \in Drawing : /\ r \in Registrars /\ signups'[r] = signups[r]
                                                 /\ signups[r].id # u /\ signups[r].id \in Accounts
    BY <1>0, <1>4 DEF Drawing, Unborn, Saving, In, u
  <2>9. Unborn'
    BY <1>0, <1>2, <1>3, <1>4, <2>1, <2>8 DEF Unborn, In
  <2>10. Saving' \subseteq Saving /\ \A b \in Saving' : signups'[b] = signups[b] /\ b \in Admins
    BY <1>3, <1>4 DEF Saving, In
  <2>11. Copied'
    <3>1. ASSUME NEW b \in Saving', users'[signups'[b].id] # NoUser
          PROVE  SameAccount(signups'[b].copy, users'[signups'[b].id])
      <4>1. signups[b].id \in Accounts
        BY <1>0, <2>10 DEF Kinds, Saving, In
      <4> QED BY <1>0, <1>1, <2>1, <2>10, <3>1, <4>1 DEF Copied
    <3> QED BY <1>0, <2>10, <3>1 DEF Copied, SameAccount
  <2> QED BY <1>1, <1>6, <2>6, <2>7, <2>9, <2>11 DEF AccountsInv, u, c
<1> QED BY <1>2, <1>5, <1>6

\* A row is deleted.
LEMMA Deletes ==
  ASSUME AccountsInv, NEW d \in Admins, DeleteTarget(d)
  PROVE  AccountsInv'
<1>0. /\ signups \in [Registrars \cup Admins -> Signup] /\ Registrars \cap Admins = {}
      /\ users \in [Accounts -> User] /\ drawn \subseteq Accounts
      /\ Kinds /\ Unborn /\ Copied /\ In(d, "delete") /\ NoUser \in User
  BY RegistrationAssumption DEF AccountsInv, AccountsTyped, DeleteTarget, NoUser, User
<1>1. signups[d].id \in Accounts
  BY <1>0 DEF Kinds, In
<1>2. /\ users' = [users EXCEPT ![signups[d].id] = NoUser] /\ drawn' = drawn /\ Done(d)
  BY DEF DeleteTarget
<1>3. PICK x \in Signup : signups' = [signups EXCEPT ![d] = x] /\ x.step = "idle"
  BY <1>0, <1>2, NextSignup DEF SignupSteps
<1>4. /\ \A q \in Registrars : signups'[q] = signups[q]
      /\ \A b \in Admins : signups'[b] = IF b = d THEN x ELSE signups[b]
  BY <1>0, <1>3
<1>5. \A v \in Accounts : users'[v] = users[v] \/ users'[v] = NoUser
  BY <1>0, <1>2
<1>6. Exist' \subseteq Exist /\ \A v \in Exist' : users'[v] = users[v]
  BY <1>5 DEF Exist
<1>7. AccountsTyped'
  <2>1. users' \in [Accounts -> User]
    BY <1>0, <1>1, <1>2
  <2> QED BY <1>0, <1>2, <1>3, <1>6, <2>1 DEF AccountsTyped, AccountsInv
<1>8. Kinds'
  BY <1>0, <1>2, <1>3, <1>4, <1>6 DEF Kinds, In
<1>9. Drawing' = Drawing /\ \A r \in Drawing : /\ r \in Registrars /\ signups'[r] = signups[r]
                                               /\ signups[r].id \in Accounts
  BY <1>0, <1>4 DEF Drawing, Unborn
<1>10. Unborn'
  BY <1>0, <1>2, <1>3, <1>4, <1>5, <1>9 DEF Unborn, In
<1>11. Saving' \subseteq Saving /\ \A b \in Saving' : signups'[b] = signups[b] /\ b \in Admins
  BY <1>3, <1>4 DEF Saving, In
<1>12. \A b \in Saving : signups[b].id \in Accounts
  BY <1>0 DEF Kinds, Saving, In
<1>13. Copied'
  BY <1>0, <1>5, <1>11, <1>12 DEF Copied
<1> QED BY <1>7, <1>8, <1>10, <1>13 DEF AccountsInv

LEMMA AccountsStep == AccountsInv /\ [RegistrationNext]_registrationVars => AccountsInv'
<1> SUFFICES ASSUME AccountsInv, [RegistrationNext]_registrationVars PROVE AccountsInv'
  OBVIOUS
<1>0. /\ signups \in [Registrars \cup Admins -> Signup] /\ users \in [Accounts -> User]
      /\ drawn \subseteq Accounts /\ Kinds /\ Unborn /\ Copied
      /\ \A r \in Registrars \cup Admins : signups[r] \in Signup
  BY DEF AccountsInv, AccountsTyped
<1>1. ASSUME NEW r \in Registrars, Done(r), UNCHANGED <<users, drawn>> PROVE AccountsInv'
  <2>1. PICK x \in Signup : signups' = [signups EXCEPT ![r] = x] /\ x.step = "idle"
    BY <1>0, <1>1, NextSignup DEF SignupSteps
  <2> QED BY <1>1, <2>1, RegistrarSteps
<1>2. ASSUME NEW d \in Admins, Done(d), UNCHANGED <<users, drawn>> PROVE AccountsInv'
  <2>1. PICK x \in Signup : signups' = [signups EXCEPT ![d] = x] /\ x.step = "idle"
    BY <1>0, <1>2, NextSignup DEF SignupSteps
  <2> QED BY <1>2, <2>1, AdminSteps
<1>3. ASSUME NEW r \in Registrars, NEW s \in {"create", "revert", "assign"}, To(r, s),
             UNCHANGED <<users, drawn>>, signups[r].step \in {"mark", "create"},
             s = "create" => signups[r].step = "mark"
      PROVE  AccountsInv'
  <2>1. PICK x \in Signup : /\ signups' = [signups EXCEPT ![r] = x] /\ x.step = s
                            /\ x.id = signups[r].id /\ x.invite = signups[r].invite
    BY <1>0, <1>3, NextSignup DEF SignupSteps
  <2>2. x.id \in drawn /\ x.invite \in Invites /\ r \in Drawing
    BY <1>0, <1>3, <2>1 DEF Kinds, In, Drawing
  <2> QED BY <1>3, <2>1, <2>2, RegistrarSteps
<1>4. ASSUME NEW r \in Registrars, NEW u \in Accounts, NEW e \in Emails, CountUsers(r, u, e)
      PROVE  AccountsInv'
  <2>1. PICK x \in Signup : /\ signups' = [signups EXCEPT ![r] = x]
                            /\ x.step \in {"first", "mark"} /\ x.id = u
                            /\ x.step = "mark" => x.invite \in Invites
    <3>1. CASE signups' = [signups EXCEPT ![r] = [NoSignup EXCEPT !.step = "first", !.id = u, !.email = e]]
      <4> DEFINE x == [NoSignup EXCEPT !.step = "first", !.id = u, !.email = e]
      <4>1. x \in Signup /\ x.step = "first" /\ x.id = u
        BY DEF NoSignup, NoUser, User, Signup, SignupSteps
      <4> QED BY <3>1, <4>1
    <3>2. ASSUME NEW i \in Invites,
                 signups' = [signups EXCEPT ![r] =
                   [NoSignup EXCEPT !.step = "mark", !.id = u, !.email = e, !.invite = i]]
          PROVE  \E x \in Signup : /\ signups' = [signups EXCEPT ![r] = x]
                                  /\ x.step = "mark" /\ x.id = u /\ x.invite \in Invites
      <4> DEFINE x == [NoSignup EXCEPT !.step = "mark", !.id = u, !.email = e, !.invite = i]
      <4>1. x \in Signup /\ x.step = "mark" /\ x.id = u /\ x.invite = i
        BY DEF NoSignup, NoUser, User, Signup, SignupSteps
      <4> QED BY <3>2, <4>1
    <3>3. \/ signups' = [signups EXCEPT ![r] = [NoSignup EXCEPT !.step = "first", !.id = u, !.email = e]]
          \/ \E i \in Invites : signups' = [signups EXCEPT ![r] =
                   [NoSignup EXCEPT !.step = "mark", !.id = u, !.email = e, !.invite = i]]
      BY <1>4 DEF CountUsers
    <3> QED BY <3>1, <3>2, <3>3
  <2>2. /\ u \notin drawn /\ drawn' = drawn \cup {u} /\ users' = users
    BY <1>4 DEF CountUsers
  <2>3. /\ \A q \in Registrars : signups'[q] = IF q = r THEN x ELSE signups[q]
        /\ \A d \in Admins : signups'[d] = signups[d]
    BY <1>0, <2>1, RegistrationAssumption
  <2>4. AccountsTyped' /\ Exist' = Exist
    BY <1>0, <2>1, <2>2 DEF AccountsInv, AccountsTyped, Exist
  <2>5. Kinds'
    BY <1>0, <2>1, <2>2, <2>3, <2>4 DEF Kinds, In
  <2>6. users[u] = NoUser
    BY <1>0, <2>2 DEF Kinds, Exist
  <2>7. Drawing' \subseteq Drawing \cup {r} /\ \A q \in Drawing' : q \in Registrars
    BY <2>3 DEF Drawing
  <2>8. \A q \in Drawing : signups[q].id # u
    BY <1>0, <2>2 DEF Unborn
  <2>9. \A d \in Admins : ~In(d, "idle") => signups[d].id # u
    BY <1>0, <2>2 DEF Kinds
  <2>10. \A q \in Drawing' : (q = r /\ signups'[q].id = u) \/ (q \in Drawing /\ q # r /\ signups'[q].id = signups[q].id)
    BY <2>1, <2>3, <2>7
  <2>11. Unborn'
    BY <1>0, <2>2, <2>3, <2>6, <2>8, <2>9, <2>10 DEF Unborn, In
  <2>12. Copied'
    BY <1>0, <2>2, <2>3 DEF Copied, Saving, In
  <2> QED BY <2>4, <2>5, <2>11, <2>12 DEF AccountsInv
<1>5. ASSUME NEW r \in Registrars, CreateFirst(r) PROVE AccountsInv'
  <2>1. CASE users' = users
    BY <1>1, <1>5, <2>1 DEF CreateFirst
  <2>2. CASE users' # users
    <3>1. r \in Drawing /\ ~Taken(signups[r].email) /\ drawn' = drawn
      BY <1>5, <2>2 DEF CreateFirst, Drawing, In
    <3>2. users' = [users EXCEPT ![signups[r].id] =
                      [email |-> signups[r].email, admin |-> TRUE, status |-> "active"]]
      BY <1>5, <2>2 DEF CreateFirst
    <3>3. PICK x \in Signup : signups' = [signups EXCEPT ![r] = x] /\ x.step = "idle"
      BY <1>0, <1>5, NextSignup DEF SignupSteps, CreateFirst
    <3> QED BY <3>1, <3>2, <3>3, Inserts
  <2> QED BY <2>1, <2>2
<1>6. ASSUME NEW r \in Registrars, MarkInvite(r) PROVE AccountsInv'
  BY <1>1, <1>3, <1>6 DEF MarkInvite, In
<1>7. ASSUME NEW r \in Registrars, NEW s \in {"assign", "revert"}, In(r, "create"),
             users' = InsertedBy(r), ~Taken(signups[r].email), To(r, s), drawn' = drawn
      PROVE  AccountsInv'
  <2>1. PICK x \in Signup : /\ signups' = [signups EXCEPT ![r] = x] /\ x.step = s
                            /\ x.id = signups[r].id /\ x.invite = signups[r].invite
    BY <1>0, <1>7, NextSignup DEF SignupSteps
  <2>2. x.id \in drawn /\ x.invite \in Invites /\ r \in Drawing
    BY <1>0, <1>7, <2>1 DEF Kinds, In, Drawing
  <2> QED BY <1>7, <2>1, <2>2, Inserts DEF InsertedBy
<1>8. ASSUME NEW r \in Registrars, CreateUser(r) PROVE AccountsInv'
  <2>1. CASE Taken(signups[r].email)
    BY <1>3, <1>8, <2>1 DEF CreateUser, In
  <2>2. CASE ~Taken(signups[r].email)
    BY <1>7, <1>8, <2>2 DEF CreateUser
  <2> QED BY <2>1, <2>2
<1>9. ASSUME NEW r \in Registrars, CreateFails(r) PROVE AccountsInv'
  <2>1. CASE users' = users
    BY <1>3, <1>9, <2>1 DEF CreateFails, In
  <2>2. CASE users' # users
    BY <1>7, <1>9, <2>2 DEF CreateFails
  <2> QED BY <2>1, <2>2
<1>10. ASSUME NEW r \in Registrars, RevertInvite(r) \/ AssignInvite(r) PROVE AccountsInv'
  BY <1>1, <1>10 DEF RevertInvite, AssignInvite
<1>11. ASSUME NEW r \in Registrars \cup Admins, StopSignup(r) PROVE AccountsInv'
  BY <1>1, <1>2, <1>11 DEF StopSignup
<1>12. ASSUME NEW d \in Admins, NEW a \in Accounts, NEW u \in Accounts, ReadTarget(d, a, u)
       PROVE  AccountsInv'
  <2>1. PICK x \in Signup : /\ signups' = [signups EXCEPT ![d] = x]
                            /\ x.step \in {"save", "delete"} /\ x.id = u
                            /\ x.step = "save" => SameAccount(x.copy, users[u]) /\ x.copy.status # "none"
    <3>1. CASE \E status \in {"active", "banned"} :
                 signups' = [signups EXCEPT ![d] = [NoSignup EXCEPT !.step = "save", !.id = u,
                             !.copy = [users[u] EXCEPT !.status = status]]]
      <4>1. PICK status \in {"active", "banned"} :
                 signups' = [signups EXCEPT ![d] = [NoSignup EXCEPT !.step = "save", !.id = u,
                             !.copy = [users[u] EXCEPT !.status = status]]]
        BY <3>1
      <4> DEFINE c == [users[u] EXCEPT !.status = status]
                 x == [NoSignup EXCEPT !.step = "save", !.id = u, !.copy = c]
      <4>2. c \in User /\ SameAccount(c, users[u]) /\ c.status # "none"
        BY <1>0 DEF User, SameAccount
      <4> HIDE DEF c
      <4>3. x \in Signup /\ x.step = "save" /\ x.id = u /\ x.copy = c
        BY <4>2 DEF NoSignup, Signup, SignupSteps
      <4>4. signups' = [signups EXCEPT ![d] = x]
        BY <4>1 DEF c
      <4> QED BY <4>2, <4>3, <4>4
    <3>2. CASE signups' = [signups EXCEPT ![d] = [NoSignup EXCEPT !.step = "delete", !.id = u]]
      <4> DEFINE x == [NoSignup EXCEPT !.step = "delete", !.id = u]
      <4>1. x \in Signup /\ x.step = "delete" /\ x.id = u
        BY DEF NoSignup, NoUser, User, Signup, SignupSteps
      <4> QED BY <3>2, <4>1
    <3> QED BY <1>12, <3>1, <3>2 DEF ReadTarget
  <2>2. u \in Exist /\ UNCHANGED <<users, drawn>>
    BY <1>12 DEF ReadTarget
  <2> QED BY <2>1, <2>2, AdminSteps
<1>13. ASSUME NEW d \in Admins, SaveTarget(d) \/ DeleteTarget(d) PROVE AccountsInv'
  BY <1>13, Saves, Deletes
<1>14. ASSUME UNCHANGED <<users, drawn, signups>> PROVE AccountsInv'
  BY <1>14 DEF AccountsInv, AccountsTyped, Kinds, Unborn, Copied, Exist, Drawing, Saving, In
<1> QED
  BY <1>4, <1>5, <1>6, <1>8, <1>9, <1>10, <1>11, <1>12, <1>13, <1>14
  DEF RegistrationNext, registrationVars, CreateInvite, ExpireInvite, DeleteInvites

LEMMA RegistrationStepInv == RegistrationInv /\ [RegistrationNext]_registrationVars => RegistrationInv'
<1>1. RegistrationInv <=> InvitesTyped /\ AccountsInv
  BY DEF RegistrationInv, RegistrationTypeOK, InvitesTyped, AccountsInv, AccountsTyped
<1>2. InvitesTyped' /\ AccountsInv' => RegistrationInv'
  BY DEF RegistrationInv, RegistrationTypeOK, InvitesTyped, AccountsInv, AccountsTyped
<1>3. RegistrationInv => RegistrationTypeOK /\ Kinds
  BY DEF RegistrationInv
<1> QED BY <1>1, <1>2, <1>3, InvitesStep, AccountsStep

\* Accounts, invites and requests keep their types, and no two accounts have
\* one e-mail, though copies of rows that are gone are saved.
THEOREM RegistrationTyped == RegistrationSpec => []RegistrationTypeOK
<1>1. RegistrationInv => RegistrationTypeOK
  BY DEF RegistrationInv
<1> QED BY <1>1, RegistrationInitInv, RegistrationStepInv, PTL DEF RegistrationSpec

-----------------------------------------------------------------------------
(* The administrator.                                                      *)

\* He is the only one; no request is about to delete or to ban him, or to save
\* another administrator.
Governs(a) ==
  /\ Acts(a)
  /\ \A u \in Exist : users[u].admin => u = a
  /\ \A d \in Admins : In(d, "delete") => signups[d].id # a
  /\ \A d \in Saving : /\ signups[d].id = a => signups[d].copy.status = "active"
                       /\ signups[d].copy.admin => signups[d].id = a

\* Before the first account there is nobody to act and no invite to use.
Governed ==
  /\ Exist # {} => \E a \in Exist : Governs(a)
  /\ Exist = {} => /\ \A d \in Admins : In(d, "idle")
                   /\ \A r \in Registrars : signups[r].step \notin {"mark", "create"}

\* A registration changes nothing for the administrator.
LEMMA StillGoverned ==
  ASSUME AccountsInv, AccountsInv', NEW a \in Exist, Governs(a),
         \A d \in Admins : signups'[d] = signups[d],
         \A u \in Exist : u \in Exist' /\ users'[u] = users[u],
         \A u \in Exist' \ Exist : ~users'[u].admin
  PROVE  Governed'
<1>1. a \in Exist' /\ Governs(a)'
  BY DEF Governs, Acts, In, Saving
<1> QED BY <1>1 DEF Governed

LEMMA GovernedStep == AccountsInv /\ Governed /\ [RegistrationNext]_registrationVars => Governed'
<1> SUFFICES ASSUME AccountsInv, Governed, [RegistrationNext]_registrationVars PROVE Governed'
  OBVIOUS
<1>0. /\ signups \in [Registrars \cup Admins -> Signup] /\ users \in [Accounts -> User]
      /\ Kinds /\ Unborn /\ Copied /\ Registrars \cap Admins = {}
      /\ \A r \in Registrars \cup Admins : signups[r] \in Signup
  BY RegistrationAssumption DEF AccountsInv, AccountsTyped
<1>i. AccountsInv'
  BY AccountsStep
<1>1. \* A registration goes on or ends.
      ASSUME NEW r \in Registrars, NEW x \in Signup, signups' = [signups EXCEPT ![r] = x],
             users' = users, x.step \in {"mark", "create"} => Exist # {}
      PROVE  Governed'
  <2>1. /\ \A d \in Admins : signups'[d] = signups[d]
        /\ \A q \in Registrars : signups'[q] = IF q = r THEN x ELSE signups[q]
    BY <1>0, <1>1
  <2>2. CASE Exist # {}
    BY <1>1, <1>i, <2>1, <2>2, StillGoverned DEF Governed, Exist
  <2>3. CASE Exist = {}
    BY <1>1, <2>1, <2>3 DEF Governed, Exist, In
  <2> QED BY <2>2, <2>3
<1>2. ASSUME NEW r \in Registrars, Done(r), users' = users PROVE Governed'
  <2>1. PICK x \in Signup : signups' = [signups EXCEPT ![r] = x] /\ x.step = "idle"
    BY <1>0, <1>2, NextSignup DEF SignupSteps
  <2> QED BY <1>1, <1>2, <2>1
<1>3. ASSUME NEW r \in Registrars, NEW s \in {"create", "revert", "assign"}, To(r, s), users' = users,
             signups[r].step \in {"mark", "create"}
      PROVE  Governed'
  <2>1. PICK x \in Signup : signups' = [signups EXCEPT ![r] = x]
    BY <1>0, <1>3, NextSignup DEF SignupSteps
  <2>2. Exist # {}
    BY <1>3 DEF Governed
  <2> QED BY <1>1, <1>3, <2>1, <2>2
<1>4. ASSUME NEW r \in Registrars, NEW u \in Accounts, NEW e \in Emails, CountUsers(r, u, e)
      PROVE  Governed'
  <2>1. CASE Exist # {}
    <3>1. \A d \in Admins : signups'[d] = signups[d]
      BY <1>0, <1>4 DEF CountUsers
    <3>2. users' = users
      BY <1>4 DEF CountUsers
    <3> QED BY <1>i, <2>1, <3>1, <3>2, StillGoverned DEF Governed, Exist
  <2>2. CASE Exist = {}
    <3> DEFINE x == [NoSignup EXCEPT !.step = "first", !.id = u, !.email = e]
    <3>1. x \in Signup /\ x.step = "first"
      BY DEF NoSignup, NoUser, User, Signup, SignupSteps
    <3>2. signups' = [signups EXCEPT ![r] = x] /\ users' = users
      BY <1>4, <2>2 DEF CountUsers
    <3> HIDE DEF x
    <3> QED BY <1>1, <3>1, <3>2
  <2> QED BY <2>1, <2>2
<1>5. ASSUME NEW r \in Registrars, CreateFirst(r) PROVE Governed'
  <2>1. CASE users' = users
    BY <1>2, <1>5, <2>1 DEF CreateFirst
  <2>2. CASE users' # users
    <3> DEFINE me == signups[r].id
               row == [email |-> signups[r].email, admin |-> TRUE, status |-> "active"]
    <3>1. /\ r \in Drawing /\ ~Taken(signups[r].email) /\ drawn' = drawn /\ Exist = {}
          /\ users' = [users EXCEPT ![me] = row]
      BY <1>5, <2>2 DEF CreateFirst, Drawing, In, NobodyYet
    <3>2. PICK x \in Signup : signups' = [signups EXCEPT ![r] = x] /\ x.step = "idle"
      BY <1>0, <1>5, NextSignup DEF SignupSteps, CreateFirst
    <3>3. Exist' = {me}
      BY <3>1, <3>2, Inserts
    <3>4. \A d \in Admins : In(d, "idle")'
      BY <1>0, <3>1, <3>2 DEF Governed, In
    <3>5. users'[me].admin /\ users'[me].status = "active"
      BY <1>0, <3>1, <3>3 DEF Exist
    <3> HIDE DEF me, row
    <3>6. ASSUME NEW a, a = me PROVE Governs(a)'
      BY <3>3, <3>4, <3>5, <3>6 DEF Governs, Acts, Saving, In
    <3>7. PICK a : a = me
      OBVIOUS
    <3> QED BY <3>3, <3>6, <3>7 DEF Governed
  <2> QED BY <2>1, <2>2
<1>6. ASSUME NEW r \in Registrars, MarkInvite(r) PROVE Governed'
  BY <1>2, <1>3, <1>6 DEF MarkInvite, In
<1>7. ASSUME NEW r \in Registrars, NEW s \in {"assign", "revert"}, In(r, "create"),
             users' = InsertedBy(r), ~Taken(signups[r].email), To(r, s), drawn' = drawn
      PROVE  Governed'
  <2>1. PICK x \in Signup : /\ signups' = [signups EXCEPT ![r] = x] /\ x.step = s
                            /\ x.id = signups[r].id /\ x.invite = signups[r].invite
    BY <1>0, <1>7, NextSignup DEF SignupSteps
  <2>2. x.id \in drawn /\ x.invite \in Invites /\ r \in Drawing
    BY <1>0, <1>7, <2>1 DEF Kinds, In, Drawing
  <2>3. /\ Exist' = Exist \cup {signups[r].id} /\ signups[r].id \notin Exist
        /\ \A u \in Exist : users'[u] = users[u]
    BY <1>7, <2>1, <2>2, Inserts DEF InsertedBy
  <2>4. ~users'[signups[r].id].admin
    BY <1>0, <1>7, <2>3 DEF InsertedBy, Exist
  <2>5. Exist # {}
    BY <1>7 DEF Governed, In
  <2>6. \A d \in Admins : signups'[d] = signups[d]
    BY <1>0, <2>1
  <2> QED BY <1>i, <2>3, <2>4, <2>5, <2>6, StillGoverned DEF Governed
<1>8. ASSUME NEW r \in Registrars, CreateUser(r) PROVE Governed'
  <2>1. CASE Taken(signups[r].email)
    BY <1>3, <1>8, <2>1 DEF CreateUser, In
  <2>2. CASE ~Taken(signups[r].email)
    BY <1>7, <1>8, <2>2 DEF CreateUser
  <2> QED BY <2>1, <2>2
<1>9. ASSUME NEW r \in Registrars, CreateFails(r) PROVE Governed'
  <2>1. CASE users' = users
    BY <1>3, <1>9, <2>1 DEF CreateFails, In
  <2>2. CASE users' # users
    BY <1>7, <1>9, <2>2 DEF CreateFails
  <2> QED BY <2>1, <2>2
<1>10. ASSUME NEW r \in Registrars, RevertInvite(r) \/ AssignInvite(r) PROVE Governed'
  BY <1>2, <1>10 DEF RevertInvite, AssignInvite
<1>11. ASSUME NEW d \in Admins, Done(d), users' = users PROVE Governed'
  <2>1. PICK x \in Signup : signups' = [signups EXCEPT ![d] = x] /\ x.step = "idle"
    BY <1>0, <1>11, NextSignup DEF SignupSteps
  <2>2. /\ \A r \in Registrars : signups'[r] = signups[r]
        /\ \A b \in Admins : signups'[b] = IF b = d THEN x ELSE signups[b]
    BY <1>0, <2>1
  <2>3. Exist' = Exist /\ \A a \in Exist : Governs(a) => Governs(a)'
    BY <1>11, <2>1, <2>2 DEF Exist, Governs, Acts, In, Saving
  <2> QED BY <2>1, <2>2, <2>3 DEF Governed, In
<1>12. ASSUME NEW r \in Registrars \cup Admins, StopSignup(r) PROVE Governed'
  BY <1>2, <1>11, <1>12 DEF StopSignup
<1>13. ASSUME NEW d \in Admins, NEW b \in Accounts, NEW u \in Accounts, ReadTarget(d, b, u)
       PROVE  Governed'
  <2>1. PICK a \in Exist : Governs(a)
    BY <1>13 DEF ReadTarget, Governed
  <2>2. b = a
    BY <1>13, <2>1 DEF ReadTarget, MayTarget, Acts, Governs, Exist, NoUser
  <2>3. PICK x : /\ signups' = [signups EXCEPT ![d] = x] /\ x.id = u
                 /\ x.step \in {"save", "delete"}
                 /\ x.step = "delete" => u # a
                 /\ x.step = "save" => /\ x.copy.admin = users[u].admin
                                       /\ u = a => x.copy.status = "active"
    <3>1. ASSUME NEW status \in {"active", "banned"}, status = "banned" => MayTarget(b, u),
                 signups' = [signups EXCEPT ![d] = [NoSignup EXCEPT !.step = "save", !.id = u,
                             !.copy = [users[u] EXCEPT !.status = status]]]
          PROVE  \E x : /\ signups' = [signups EXCEPT ![d] = x] /\ x.id = u
                        /\ x.step = "save" /\ x.copy.admin = users[u].admin
                        /\ u = a => x.copy.status = "active"
      <4> DEFINE c == [users[u] EXCEPT !.status = status]
                 x == [NoSignup EXCEPT !.step = "save", !.id = u, !.copy = c]
      <4>1. c.admin = users[u].admin /\ c.status = status
        BY <1>0 DEF User
      <4>2. u = a => status = "active"
        BY <2>2, <3>1 DEF MayTarget
      <4>3. signups' = [signups EXCEPT ![d] = x]
        BY <3>1
      <4> HIDE DEF c
      <4>4. x.step = "save" /\ x.id = u /\ x.copy = c
        BY DEF NoSignup
      <4> QED BY <4>1, <4>2, <4>3, <4>4
    <3>2. ASSUME MayTarget(b, u),
                 signups' = [signups EXCEPT ![d] = [NoSignup EXCEPT !.step = "delete", !.id = u]]
          PROVE  \E x : /\ signups' = [signups EXCEPT ![d] = x] /\ x.id = u
                        /\ x.step = "delete" /\ u # a
      <4> DEFINE x == [NoSignup EXCEPT !.step = "delete", !.id = u]
      <4>1. x.step = "delete" /\ x.id = u
        BY DEF NoSignup
      <4>2. u # a
        BY <2>2, <3>2 DEF MayTarget
      <4> QED BY <3>2, <4>1, <4>2
    <3>3. \/ \E status \in {"active", "banned"} :
               /\ status = "banned" => MayTarget(b, u)
               /\ signups' = [signups EXCEPT ![d] = [NoSignup EXCEPT !.step = "save", !.id = u,
                             !.copy = [users[u] EXCEPT !.status = status]]]
          \/ /\ MayTarget(b, u)
             /\ signups' = [signups EXCEPT ![d] = [NoSignup EXCEPT !.step = "delete", !.id = u]]
      BY <1>13 DEF ReadTarget
    <3> QED BY <3>1, <3>2, <3>3
  <2>4. u \in Exist /\ users' = users /\ Exist' = Exist
    BY <1>13 DEF ReadTarget, Exist
  <2>5. \A e \in Admins : signups'[e] = IF e = d THEN x ELSE signups[e]
    BY <1>0, <2>3
  <2>6. Governs(a)'
    BY <2>1, <2>3, <2>4, <2>5 DEF Governs, Acts, In, Saving
  <2> QED BY <2>4, <2>6 DEF Governed
<1>14. ASSUME NEW d \in Admins, SaveTarget(d) PROVE Governed'
  <2> DEFINE u == signups[d].id
             c == signups[d].copy
  <2>1. CASE users' = users
    BY <1>11, <1>14, <2>1 DEF SaveTarget
  <2>2. CASE u \in Accounts /\ users' = [users EXCEPT ![u] = c]
    <3>1. PICK a \in Exist : Governs(a)
      BY <1>14 DEF SaveTarget, Governed, In
    <3>2. d \in Saving
      BY <1>14 DEF SaveTarget, Saving
    <3>3. /\ u = a => c.status = "active" /\ c.admin
          /\ c.admin => u = a
      BY <1>0, <3>1, <3>2 DEF Governs, Copied, SameAccount, Exist, Acts
    <3>4. PICK x \in Signup : signups' = [signups EXCEPT ![d] = x] /\ x.step = "idle"
      BY <1>0, <1>14, NextSignup DEF SignupSteps, SaveTarget
    <3>5. \A e \in Admins : signups'[e] = IF e = d THEN x ELSE signups[e]
      BY <1>0, <3>4
    <3> HIDE DEF u, c
    <3>6. \A v \in Accounts : users'[v] = IF v = u THEN c ELSE users[v]
      BY <1>0, <2>2
    <3>7. a \in Accounts /\ a \in Exist'
      BY <3>1, <3>3, <3>6 DEF Exist, NoUser
    <3>8. Acts(a)'
      BY <3>1, <3>3, <3>6, <3>7 DEF Acts, Governs
    <3>9. \A v \in Exist' : users'[v].admin => v = a
      BY <3>1, <3>3, <3>6 DEF Exist, Governs
    <3>10. Governs(a)'
      BY <3>1, <3>4, <3>5, <3>8, <3>9 DEF Governs, In, Saving
    <3> QED BY <3>7, <3>10 DEF Governed
  <2> QED BY <1>14, <2>1, <2>2, Saves
<1>15. ASSUME NEW d \in Admins, DeleteTarget(d) PROVE Governed'
  <2> DEFINE u == signups[d].id
  <2>1. PICK a \in Exist : Governs(a)
    BY <1>15 DEF DeleteTarget, Governed, In
  <2>2. u # a
    BY <1>15, <2>1 DEF DeleteTarget, Governs
  <2>3. PICK x \in Signup : signups' = [signups EXCEPT ![d] = x] /\ x.step = "idle"
    BY <1>0, <1>15, NextSignup DEF SignupSteps, DeleteTarget
  <2>4. \A e \in Admins : signups'[e] = IF e = d THEN x ELSE signups[e]
    BY <1>0, <2>3
  <2>5. \A v \in Accounts : v # u => users'[v] = users[v]
    BY <1>0, <1>15 DEF DeleteTarget
  <2>6. Exist' \subseteq Exist /\ a \in Exist' /\ \A v \in Exist' : users'[v] = users[v]
    BY <1>0, <1>15, <2>2, <2>5 DEF DeleteTarget, Exist
  <2> HIDE DEF u
  <2>7. Governs(a)'
    BY <2>1, <2>3, <2>4, <2>6 DEF Governs, Acts, In, Saving
  <2> QED BY <2>6, <2>7 DEF Governed
<1>16. ASSUME UNCHANGED <<users, signups>> PROVE Governed'
  BY <1>16 DEF Governed, Governs, Acts, Exist, In, Saving
<1> QED
  BY <1>4, <1>5, <1>6, <1>8, <1>9, <1>10, <1>12, <1>13, <1>14, <1>15, <1>16
  DEF RegistrationNext, registrationVars, CreateInvite, ExpireInvite, DeleteInvites

\* Whatever registrations race to be the first and whatever copies of accounts
\* are saved or rows deleted, there is one active administrator.
THEOREM AdminIsOneAndActive == RegistrationSpec => []OneActiveAdmin
<1>1. RegistrationInit => Governed
  BY DEF RegistrationInit, Governed, Exist, In, NoSignup
<1>2. Governed => OneActiveAdmin
  BY DEF Governed, Governs, OneActiveAdmin
<1>3. RegistrationInv => AccountsInv
  BY DEF RegistrationInv, RegistrationTypeOK, AccountsInv, AccountsTyped
<1>4. RegistrationInv /\ Governed /\ [RegistrationNext]_registrationVars =>
        (RegistrationInv /\ Governed)'
  BY <1>3, RegistrationStepInv, GovernedStep
<1> QED BY <1>1, <1>2, <1>4, RegistrationInitInv, PTL DEF RegistrationSpec

-----------------------------------------------------------------------------
(* The invites.                                                            *)

\* The registrations that hold a reservation they may have to give back.
Holding(i) == {r \in Registrars : signups[r].step \in {"create", "revert"} /\ signups[r].invite = i}

\* One at most holds an invite, which has made no account then; an invite that
\* can be used has made none.
HeldOnce(i) == i \notin excused.misreported =>
  /\ \A q, r \in Holding(i) : q = r
  /\ Holding(i) # {} => bought[i] = 0 /\ invites[i].status \in {"used", "deleted"}
  /\ invites[i].status \in {"new", "active"} => bought[i] = 0
  /\ bought[i] <= 1

\* An invite is given to an account it has made.
GivenToItsOwn(i) ==
  /\ invites[i].usedBy # NoAccount => bought[i] > 0
  /\ \A r \in Registrars : In(r, "assign") /\ signups[r].invite = i => bought[i] > 0

\* One that is used and has made none is held.
UsedIsHeld(i) ==
  invites[i].status = "used" /\ bought[i] = 0 => i \in excused.stopped \/ Holding(i) # {}

InviteInv(i) == HeldOnce(i) /\ GivenToItsOwn(i) /\ UsedIsHeld(i)

InvitesInv == \A i \in Invites : InviteInv(i)

LEMMA InviteStep ==
  RegistrationInv /\ InvitesInv /\ [RegistrationNext]_registrationVars => InvitesInv'
<1> SUFFICES ASSUME RegistrationInv, \A i \in Invites : InviteInv(i), [RegistrationNext]_registrationVars,
                    NEW i \in Invites
             PROVE  InviteInv(i)'
  BY DEF InvitesInv
<1>0. /\ signups \in [Registrars \cup Admins -> Signup] /\ Kinds /\ Registrars \cap Admins = {}
      /\ \A r \in Registrars \cup Admins : signups[r] \in Signup
      /\ invites \in [Invites -> Invite] /\ bought \in [Invites -> Nat] /\ invites[i] \in Invite
      /\ bought[i] \in Nat /\ excused \in [misreported: SUBSET Invites, stopped: SUBSET Invites]
      /\ InviteInv(i)
  BY RegistrationAssumption DEF RegistrationInv, RegistrationTypeOK
<1>1. \* The invite keeps its row and its holders.
      ASSUME Holding(i)' = Holding(i), invites'[i].status = invites[i].status,
             invites'[i].usedBy \in {invites[i].usedBy, NoAccount}, bought'[i] = bought[i],
             excused' = excused,
             \A r \in Registrars : In(r, "assign")' /\ signups'[r].invite = i =>
               In(r, "assign") /\ signups[r].invite = i
      PROVE  InviteInv(i)'
  BY <1>0, <1>1 DEF InviteInv, HeldOnce, GivenToItsOwn, UsedIsHeld
<1>2. \* A registration that does not hold i takes a step and does not take it.
      ASSUME NEW r \in Registrars, NEW x, signups' = [signups EXCEPT ![r] = x],
             r \notin Holding(i), x.step \notin {"create", "revert", "assign"} \/ x.invite # i,
             invites'[i].status = invites[i].status,
             invites'[i].usedBy \in {invites[i].usedBy, NoAccount},
             bought'[i] = bought[i], excused' = excused
      PROVE  InviteInv(i)'
  <2>1. \A q \in Registrars : signups'[q] = IF q = r THEN x ELSE signups[q]
    BY <1>0, <1>2
  <2>2. Holding(i)' = Holding(i)
    BY <1>2, <2>1 DEF Holding
  <2> QED BY <1>1, <1>2, <2>1, <2>2 DEF In
<1>3. ASSUME NEW r \in Registrars, NEW u \in Accounts, NEW e \in Emails, CountUsers(r, u, e)
      PROVE  InviteInv(i)'
  <2>1. PICK x : signups' = [signups EXCEPT ![r] = x] /\ x.step \in {"first", "mark"}
    <3> DEFINE y == [NoSignup EXCEPT !.step = "first", !.id = u, !.email = e]
    <3>1. y.step = "first"
      BY DEF NoSignup
    <3>2. ASSUME NEW j \in Invites,
                 signups' = [signups EXCEPT ![r] =
                   [NoSignup EXCEPT !.step = "mark", !.id = u, !.email = e, !.invite = j]]
          PROVE  \E x : signups' = [signups EXCEPT ![r] = x] /\ x.step = "mark"
      <4> DEFINE z == [NoSignup EXCEPT !.step = "mark", !.id = u, !.email = e, !.invite = j]
      <4>1. z.step = "mark"
        BY DEF NoSignup
      <4> QED BY <3>2, <4>1
    <3>3. \/ signups' = [signups EXCEPT ![r] = y]
          \/ \E j \in Invites : signups' = [signups EXCEPT ![r] =
               [NoSignup EXCEPT !.step = "mark", !.id = u, !.email = e, !.invite = j]]
      BY <1>3 DEF CountUsers
    <3> HIDE DEF y
    <3> QED BY <3>1, <3>2, <3>3
  <2>2. r \notin Holding(i) /\ UNCHANGED <<invites, bought, excused>>
    BY <1>3 DEF CountUsers, Holding, In
  <2> QED BY <1>2, <2>1, <2>2
<1>4. ASSUME NEW r \in Registrars, Done(r), r \notin Holding(i), excused' = excused,
             invites'[i].status = invites[i].status,
             invites'[i].usedBy \in {invites[i].usedBy, NoAccount}, bought'[i] = bought[i]
      PROVE  InviteInv(i)'
  <2>1. PICK x \in Signup : signups' = [signups EXCEPT ![r] = x] /\ x.step = "idle"
    BY <1>0, <1>4, NextSignup DEF SignupSteps
  <2> QED BY <1>2, <1>4, <2>1
<1>5. ASSUME NEW r \in Registrars, CreateFirst(r) PROVE InviteInv(i)'
  BY <1>4, <1>5 DEF CreateFirst, Holding, In
<1>6. ASSUME NEW r \in Registrars, MarkInvite(r) PROVE InviteInv(i)'
  <2>1. r \notin Holding(i) /\ UNCHANGED <<bought, excused>>
    BY <1>6 DEF MarkInvite, Holding, In
  <2>2. CASE ~Open(signups[r].invite)
    BY <1>4, <1>6, <2>1, <2>2 DEF MarkInvite
  <2>3. CASE Open(signups[r].invite)
    <3>1. PICK x \in Signup : /\ signups' = [signups EXCEPT ![r] = x] /\ x.step = "create"
                              /\ x.invite = signups[r].invite
      BY <1>0, <1>6, <2>3, NextSignup DEF SignupSteps, MarkInvite
    <3>2. signups[r].invite \in Invites
      BY <1>0, <1>6 DEF Kinds, MarkInvite, In
    <3>3. CASE signups[r].invite # i
      BY <1>0, <1>2, <1>6, <2>1, <2>3, <3>1, <3>2, <3>3 DEF MarkInvite
    <3>4. CASE signups[r].invite = i
      <4>1. invites[i].status = "active"
        BY <2>3, <3>4 DEF Open
      <4>2. invites'[i].status = "used" /\ invites'[i].usedBy = NoAccount
        BY <1>0, <1>6, <2>3, <3>4 DEF MarkInvite, Invite
      <4>3. \A q \in Registrars : signups'[q] = IF q = r THEN x ELSE signups[q]
        BY <1>0, <3>1
      <4>4. Holding(i)' = Holding(i) \cup {r}
        BY <3>1, <3>4, <4>3 DEF Holding
      <4>5. i \notin excused.misreported => Holding(i) = {} /\ bought[i] = 0
        BY <1>0, <4>1 DEF InviteInv, HeldOnce
      <4>6. HeldOnce(i)'
        BY <2>1, <4>2, <4>4, <4>5 DEF HeldOnce
      <4>7. GivenToItsOwn(i)'
        BY <1>0, <2>1, <3>1, <4>2, <4>3 DEF InviteInv, GivenToItsOwn, In
      <4>8. UsedIsHeld(i)'
        BY <4>4 DEF UsedIsHeld
      <4> QED BY <4>6, <4>7, <4>8 DEF InviteInv
    <3> QED BY <3>3, <3>4
  <2> QED BY <2>2, <2>3
<1>7. \* A registration that has a reservation goes on; i may have made its account.
      ASSUME NEW r \in Registrars, NEW s \in {"assign", "revert"}, In(r, "create"), To(r, s),
             invites' = invites,
             \/ s = "revert" /\ UNCHANGED <<bought, excused>>
             \/ s = "assign" /\ bought' = [bought EXCEPT ![signups[r].invite] = @ + 1]
                             /\ excused' = excused
             \/ s = "revert" /\ bought' = [bought EXCEPT ![signups[r].invite] = @ + 1]
                  /\ excused' = [excused EXCEPT !.misreported = @ \cup {signups[r].invite}]
      PROVE  InviteInv(i)'
  <2>1. PICK x \in Signup : /\ signups' = [signups EXCEPT ![r] = x] /\ x.step = s
                            /\ x.invite = signups[r].invite
    BY <1>0, <1>7, NextSignup DEF SignupSteps
  <2>2. \A q \in Registrars : signups'[q] = IF q = r THEN x ELSE signups[q]
    BY <1>0, <2>1
  <2>3. signups[r].invite \in Invites
    BY <1>0, <1>7 DEF Kinds, In
  <2>4. CASE signups[r].invite # i
    <3>1. bought'[i] = bought[i] /\ (i \in excused'.misreported <=> i \in excused.misreported)
          /\ excused'.stopped = excused.stopped
      BY <1>0, <1>7, <2>3, <2>4
    <3>2. Holding(i)' = Holding(i)
      BY <2>1, <2>2, <2>4 DEF Holding
    <3>3. HeldOnce(i)'
      BY <1>0, <1>7, <3>1, <3>2 DEF InviteInv, HeldOnce
    <3>4. GivenToItsOwn(i)'
      BY <1>0, <1>7, <2>1, <2>2, <2>4, <3>1 DEF InviteInv, GivenToItsOwn, In
    <3>5. UsedIsHeld(i)'
      BY <1>0, <1>7, <3>1, <3>2 DEF InviteInv, UsedIsHeld
    <3> QED BY <3>3, <3>4, <3>5 DEF InviteInv
  <2>5. CASE signups[r].invite = i /\ s = "revert" /\ UNCHANGED <<bought, excused>>
    <3>1. Holding(i)' = Holding(i)
      BY <1>7, <2>1, <2>2, <2>5 DEF Holding, In
    <3>2. \A q \in Registrars : In(q, "assign")' /\ signups'[q].invite = i =>
               In(q, "assign") /\ signups[q].invite = i
      BY <2>1, <2>2, <2>5 DEF In
    <3> QED BY <1>1, <1>7, <2>5, <3>1, <3>2
  <2>6. CASE signups[r].invite = i /\ s = "assign"
    <3>1. bought'[i] = bought[i] + 1 /\ excused' = excused
      BY <1>0, <1>7, <2>6
    <3>2. r \in Holding(i) /\ Holding(i)' = Holding(i) \ {r}
      BY <1>7, <2>1, <2>2, <2>6 DEF Holding, In
    <3>3. i \notin excused.misreported =>
            /\ Holding(i)' = {} /\ bought[i] = 0 /\ invites[i].status \in {"used", "deleted"}
      BY <1>0, <3>2 DEF InviteInv, HeldOnce
    <3>4. HeldOnce(i)'
      BY <1>7, <3>1, <3>3 DEF HeldOnce
    <3>5. GivenToItsOwn(i)' /\ UsedIsHeld(i)'
      BY <1>0, <3>1 DEF GivenToItsOwn, UsedIsHeld
    <3> QED BY <3>4, <3>5 DEF InviteInv
  <2>7. CASE signups[r].invite = i /\ bought' = [bought EXCEPT ![i] = @ + 1] /\ i \in excused'.misreported
    <3>1. bought'[i] = bought[i] + 1
      BY <1>0, <2>7
    <3> QED BY <1>0, <2>7, <3>1 DEF InviteInv, HeldOnce, GivenToItsOwn, UsedIsHeld
  <2>8. signups[r].invite = i /\ excused' = [excused EXCEPT !.misreported = @ \cup {i}]
          => i \in excused'.misreported
    BY <1>0
  <2> QED BY <1>7, <2>4, <2>5, <2>6, <2>7, <2>8
<1>8. ASSUME NEW r \in Registrars, CreateUser(r) \/ CreateFails(r) PROVE InviteInv(i)'
  BY <1>7, <1>8 DEF CreateUser, CreateFails
<1>9. ASSUME NEW r \in Registrars, RevertInvite(r) PROVE InviteInv(i)'
  <2>1. UNCHANGED <<bought, excused>> /\ signups[r].invite \in Invites
    BY <1>0, <1>9 DEF RevertInvite, Kinds, In
  <2>2. CASE signups[r].invite # i
    BY <1>0, <1>4, <1>9, <2>1, <2>2 DEF RevertInvite, Holding
  <2>3. CASE signups[r].invite = i
    <3>1. PICK x \in Signup : signups' = [signups EXCEPT ![r] = x] /\ x.step = "idle"
      BY <1>0, <1>9, NextSignup DEF SignupSteps, RevertInvite
    <3>2. \A q \in Registrars : signups'[q] = IF q = r THEN x ELSE signups[q]
      BY <1>0, <3>1
    <3>3. r \in Holding(i) /\ Holding(i)' = Holding(i) \ {r}
      BY <1>9, <2>3, <3>1, <3>2 DEF Holding, In, RevertInvite
    <3>4. /\ invites'[i].usedBy = invites[i].usedBy
          /\ invites'[i].status = IF Reserved(i) THEN "active" ELSE invites[i].status
      BY <1>0, <1>9, <2>3 DEF RevertInvite, Invite
    <3>5. i \notin excused.misreported =>
            /\ Holding(i)' = {} /\ bought[i] = 0 /\ invites[i].status \in {"used", "deleted"}
      BY <1>0, <3>3 DEF InviteInv, HeldOnce
    <3>6. HeldOnce(i)'
      BY <2>1, <3>5 DEF HeldOnce
    <3>7. GivenToItsOwn(i)'
      BY <1>0, <2>1, <3>1, <3>2, <3>4 DEF InviteInv, GivenToItsOwn, In
    <3>8. UsedIsHeld(i)'
      BY <1>0, <2>1, <3>4 DEF InviteInv, GivenToItsOwn, UsedIsHeld, Reserved
    <3> QED BY <3>6, <3>7, <3>8 DEF InviteInv
  <2> QED BY <2>2, <2>3
<1>10. ASSUME NEW r \in Registrars, AssignInvite(r) PROVE InviteInv(i)'
  <2>1. /\ UNCHANGED <<bought, excused>> /\ signups[r].invite \in Invites /\ r \notin Holding(i)
        /\ signups[r].id \in Accounts \cup {NoAccount}
    BY <1>0, <1>10 DEF AssignInvite, Kinds, In, Holding, Signup
  <2>2. CASE invites'[i] = invites[i]
    BY <1>4, <1>10, <2>1, <2>2 DEF AssignInvite
  <2>3. CASE invites'[i] # invites[i]
    <3>1. signups[r].invite = i /\ invites' = [invites EXCEPT ![i].usedBy = signups[r].id]
      BY <1>0, <1>10, <2>3 DEF AssignInvite
    <3>2. invites'[i].status = invites[i].status
      BY <1>0, <3>1 DEF Invite
    <3>3. bought[i] > 0
      BY <1>0, <1>10, <3>1 DEF AssignInvite, InviteInv, GivenToItsOwn
    <3>4. PICK x \in Signup : signups' = [signups EXCEPT ![r] = x] /\ x.step = "idle"
      BY <1>0, <1>10, NextSignup DEF SignupSteps, AssignInvite
    <3>5. \A q \in Registrars : signups'[q] = IF q = r THEN x ELSE signups[q]
      BY <1>0, <3>4
    <3>6. Holding(i)' = Holding(i)
      BY <2>1, <3>4, <3>5 DEF Holding
    <3> QED BY <1>0, <2>1, <3>2, <3>3, <3>6 DEF InviteInv, HeldOnce, GivenToItsOwn, UsedIsHeld
  <2> QED BY <2>2, <2>3
<1>11. ASSUME NEW d \in Admins, NEW x, signups' = [signups EXCEPT ![d] = x],
              UNCHANGED <<bought, excused>>, invites'[i].status = invites[i].status,
              invites'[i].usedBy \in {invites[i].usedBy, NoAccount}
       PROVE  InviteInv(i)'
  <2>1. \A r \in Registrars : signups'[r] = signups[r]
    BY <1>0, <1>11
  <2> QED BY <1>1, <1>11, <2>1 DEF Holding, In
<1>12. ASSUME NEW r \in Registrars \cup Admins, StopSignup(r) PROVE InviteInv(i)'
  <2>1. UNCHANGED <<invites, bought>>
    BY <1>12 DEF StopSignup
  <2>2. PICK x \in Signup : signups' = [signups EXCEPT ![r] = x] /\ x.step = "idle"
    BY <1>0, <1>12, NextSignup DEF SignupSteps, StopSignup
  <2>3. \A q \in Registrars : signups'[q] = IF q = r THEN x ELSE signups[q]
    BY <1>0, <2>2
  <2>4. excused'.misreported = excused.misreported /\ excused.stopped \subseteq excused'.stopped
    BY <1>0, <1>12 DEF StopSignup
  <2>5. Holding(i)' \subseteq Holding(i)
    BY <2>2, <2>3 DEF Holding
  <2>6. Holding(i)' = Holding(i) \/ i \in excused'.stopped
    <3>1. CASE r \in Holding(i)
      BY <1>0, <1>12, <3>1 DEF StopSignup, Holding
    <3>2. CASE r \notin Holding(i)
      BY <2>2, <2>3, <3>2 DEF Holding
    <3> QED BY <3>1, <3>2
  <2>7. HeldOnce(i)'
    BY <1>0, <2>1, <2>4, <2>5 DEF InviteInv, HeldOnce
  <2>8. GivenToItsOwn(i)'
    BY <1>0, <2>1, <2>2, <2>3 DEF InviteInv, GivenToItsOwn, In
  <2>9. UsedIsHeld(i)'
    BY <1>0, <2>1, <2>4, <2>6 DEF InviteInv, UsedIsHeld
  <2> QED BY <2>7, <2>8, <2>9 DEF InviteInv
<1>13. ASSUME NEW j \in Invites, CreateInvite(j) \/ ExpireInvite(j) PROVE InviteInv(i)'
  <2>1. UNCHANGED <<signups, bought, excused>>
    BY <1>13 DEF CreateInvite, ExpireInvite
  <2>2. /\ invites'[i].usedBy = invites[i].usedBy
        /\ \/ invites'[i].status = invites[i].status
           \/ invites[i].status = "new" /\ invites'[i].status = "active"
    <3>1. CASE CreateInvite(j)
      BY <1>0, <3>1 DEF CreateInvite, Invite
    <3>2. CASE ExpireInvite(j)
      BY <1>0, <3>2 DEF ExpireInvite, Invite
    <3> QED BY <1>13, <3>1, <3>2
  <2>3. Holding(i)' = Holding(i) /\ \A r \in Registrars : signups'[r] = signups[r]
    BY <2>1 DEF Holding
  <2> QED BY <1>0, <2>1, <2>2, <2>3 DEF InviteInv, HeldOnce, GivenToItsOwn, UsedIsHeld, In
<1>14. CASE DeleteInvites
  <2>1. UNCHANGED <<signups, bought, excused>>
    BY <1>14 DEF DeleteInvites
  <2>2. invites'[i] = invites[i] \/ invites'[i] = NoRowFor("deleted")
    BY <1>0, <1>14 DEF DeleteInvites
  <2>3. Holding(i)' = Holding(i) /\ \A r \in Registrars : signups'[r] = signups[r]
    BY <2>1 DEF Holding
  <2>4. NoRowFor("deleted").status = "deleted" /\ NoRowFor("deleted").usedBy = NoAccount
    BY DEF NoRowFor
  <2> QED BY <1>0, <2>1, <2>2, <2>3, <2>4 DEF InviteInv, HeldOnce, GivenToItsOwn, UsedIsHeld, In
<1>15. ASSUME NEW d \in Admins, NEW a \in Accounts, NEW u \in Accounts, ReadTarget(d, a, u)
       PROVE  InviteInv(i)'
  BY <1>11, <1>15 DEF ReadTarget
<1>16. ASSUME NEW d \in Admins, SaveTarget(d) PROVE InviteInv(i)'
  BY <1>11, <1>16 DEF SaveTarget, Done
<1>17. ASSUME NEW d \in Admins, DeleteTarget(d) PROVE InviteInv(i)'
  <2>1. /\ invites'[i].status = invites[i].status
        /\ invites'[i].usedBy \in {invites[i].usedBy, NoAccount}
    BY <1>0, <1>17 DEF DeleteTarget, Invite
  <2> QED BY <1>11, <1>17, <2>1 DEF DeleteTarget, Done
<1>18. CASE UNCHANGED registrationVars
  BY <1>1, <1>18 DEF registrationVars, Holding, In
<1> QED
  BY <1>3, <1>5, <1>6, <1>8, <1>9, <1>10, <1>12, <1>13, <1>14, <1>15, <1>16, <1>17, <1>18
  DEF RegistrationNext

LEMMA InviteInitInv == RegistrationInit => InvitesInv
BY DEF RegistrationInit, InvitesInv, InviteInv, HeldOnce, GivenToItsOwn, UsedIsHeld, Holding, In,
       NoSignup, NoRowFor

LEMMA InvitesInvariant == RegistrationSpec => [](RegistrationInv /\ InvitesInv)
<1>1. RegistrationInv /\ InvitesInv /\ [RegistrationNext]_registrationVars =>
        (RegistrationInv /\ InvitesInv)'
  BY RegistrationStepInv, InviteStep
<1> QED BY <1>1, InviteInitInv, RegistrationInitInv, PTL DEF RegistrationSpec

\* Of all registrations that compete for an invite one gets an account, unless
\* an insertion that was done was reported as failed.
THEOREM InvitesMakeOne == RegistrationSpec => []InviteMakesOne
<1>1. RegistrationInv /\ InvitesInv => InviteMakesOne
  BY DEF RegistrationInv, RegistrationTypeOK, InvitesInv, InviteInv, HeldOnce, InviteMakesOne
<1> QED BY <1>1, InvitesInvariant, PTL

\* A used invite without an account is held by a registration or was held by
\* one that stopped: every other way out gives it back.
THEOREM InvitesAreGivenBack == RegistrationSpec => []NoInviteLost
<1>1. InvitesInv => NoInviteLost
  BY DEF InvitesInv, InviteInv, UsedIsHeld, Holding, NoInviteLost
<1> QED BY <1>1, InvitesInvariant, PTL
=============================================================================
