--------------------------- MODULE SessionsProofs ---------------------------
EXTENDS Sessions, TLAPS

LEMMA Bounds == /\ Stamps \subseteq Nat /\ 0 \in Stamps /\ 1 \in Stamps /\ 2 \in Stamps
                /\ \A s \in Stamps : s < MaxStamp => s + 1 \in Stamps
BY ConstantsAssumption DEF Stamps

LEMMA IdleType == Idle \in Request /\ NoUser \in UserRow /\ NoToken \in TokenRow
BY Bounds DEF NoUser, UserRow, NoToken, TokenRow, Idle, Request, AnyDevice, Steps

\* TypeOK alone is not inductive: device[d] has a type only for a real device.
Directed == \A r \in Requests :
  /\ req[r].kind = "refresh" => req[r].tok \in Tokens
  /\ req[r].kind = "deleteDevice" => req[r].dev \in Devices
  /\ req[r].step \in {"device", "upsert", "reread"} => req[r].dev \in Devices

Typed == TypeOK /\ Directed

LEMMA TypeInit == Init => Typed
<1> SUFFICES ASSUME Init PROVE Typed
  OBVIOUS
<1>1. PICK old \in AnyDevice :
        /\ device = [d \in Devices |-> IF d = old THEN 2 ELSE 0]
        /\ rtok = [t \in Tokens |-> IF t \in LegacyTokens
                     THEN [NoToken EXCEPT !.dev = old, !.pw = 1] ELSE NoToken]
  BY DEF Init
<1>2. [NoToken EXCEPT !.dev = old, !.pw = 1] \in TokenRow
  BY Bounds DEF NoToken, TokenRow
<1>3. device \in [Devices -> Stamps] /\ rtok \in [Tokens -> TokenRow]
  BY <1>1, <1>2, Bounds, IdleType
<1>4. user \in UserRow /\ pwOf \in [Stamps -> Stamps]
  BY Bounds DEF Init, UserRow
<1>5. req \in [Requests -> Request]
  BY IdleType DEF Init
<1> QED
  BY <1>3, <1>4, <1>5, Bounds, ConstantsAssumption DEF Init, TypeOK, Typed, Directed, Idle

\* How a request's record may move.
Undirected == Steps \ {"device", "upsert", "reread"}

LEMMA StartMove ==
  ASSUME Typed, NEW r \in Requests, NEW kind \in AllKinds, NEW local \in Request,
         Start(r, kind, local), local.step \in Undirected,
         kind = "refresh" => local.tok \in Tokens,
         kind = "deleteDevice" => local.dev \in Devices
  PROVE  req' \in [Requests -> Request] /\ Directed'
<1>1. req' \in [Requests -> Request]
  BY DEF Typed, TypeOK, Start, Request
<1>2. Directed'
  BY DEF Typed, TypeOK, Directed, Start, Request, Undirected
<1> QED BY <1>1, <1>2

LEMMA GotoMove ==
  ASSUME Typed, NEW r \in Requests, NEW step \in Steps, Goto(r, step),
         step \in Undirected \/ req[r].dev \in Devices
  PROVE  req' \in [Requests -> Request] /\ Directed'
BY DEF Typed, TypeOK, Directed, Goto, Request, Undirected

LEMMA FinishMove ==
  ASSUME Typed, NEW r \in Requests, Finish(r)
  PROVE  req' \in [Requests -> Request] /\ Directed'
BY IdleType DEF Typed, TypeOK, Directed, Finish, Idle

LEMMA DrawType ==
  ASSUME Typed, NEW pw \in Stamps, Draw(pw)
  PROVE  stamps' \in Stamps \ {0} /\ pwOf' \in [Stamps -> Stamps] /\ stamps + 1 \in Stamps
BY Bounds DEF Typed, TypeOK, Draw

LEMMA SaveUserType ==
  ASSUME Typed, NEW row \in UserRow, SaveUser(row)
  PROVE  user' \in UserRow /\ retired' \subseteq Stamps
BY DEF Typed, TypeOK, SaveUser, UserRow

LEMMA DeleteTokensType ==
  ASSUME Typed, NEW gone, DeleteTokens(gone)
  PROVE  rtok' \in [Tokens -> TokenRow]
BY IdleType DEF Typed, TypeOK, DeleteTokens

LEMMA DeleteDevicesType ==
  ASSUME Typed, NEW gone \in SUBSET Devices, DeleteDevices(gone)
  PROVE  device' \in [Devices -> Stamps] /\ retired' \subseteq Stamps
<1>1. {device[d] : d \in gone} \subseteq Stamps
  BY DEF Typed, TypeOK
<1>2. retired' \subseteq Stamps
  BY <1>1 DEF Typed, TypeOK, DeleteDevices
<1>3. device' \in [Devices -> Stamps]
  BY Bounds DEF Typed, TypeOK, DeleteDevices
<1> QED BY <1>2, <1>3

LEMMA TypeLogin ==
  ASSUME Typed, NEW r \in Requests, LoginStep(r)
  PROVE  Typed'
<1> USE DEF Typed, TypeOK
<1>1. ASSUME NEW d \in AnyDevice, LoginRead(r, d) PROVE Typed'
  <2> DEFINE local(step) == [Idle EXCEPT !.step = step, !.u = user, !.dev = d]
  <2>1. PICK step \in {"upgrade", "recover"} : Start(r, "login", local(step))
    BY <1>1 DEF LoginRead
  <2>2. local(step) \in Request /\ local(step).step \in Undirected
    BY IdleType DEF Request, Undirected, Steps
  <2> HIDE DEF local
  <2>3. req' \in [Requests -> Request] /\ Directed'
    BY <2>1, <2>2, StartMove DEF AllKinds
  <2> QED BY <1>1, <2>3 DEF LoginRead
<1>2. CASE LoginRecover(r)
  BY <1>2, Bounds DEF LoginRecover, At, Draw, SaveUser, Request, Steps, UserRow, Directed
<1>3. CASE LoginUpgrade(r)
  <2>1. user' \in UserRow
    BY <1>3 DEF LoginUpgrade, Request, UserRow
  <2>2. req' \in [Requests -> Request] /\ Directed'
    BY <1>3 DEF LoginUpgrade, At, Request, Steps, UserRow, Directed, AnyDevice
  <2> QED BY <1>3, <2>1, <2>2 DEF LoginUpgrade
<1>4. CASE LoginReadDevice(r)
  BY <1>4, Bounds DEF LoginReadDevice, At, Draw, Request, Steps, Directed
<1>5. CASE LoginUpsertDevice(r)
  <2>1. req' \in [Requests -> Request] /\ Directed'
    BY <1>5, GotoMove, FinishMove DEF LoginUpsertDevice, At, Directed, Steps
  <2>2. device' \in [Devices -> Stamps]
    BY <1>5 DEF LoginUpsertDevice, Request
  <2> QED BY <1>5, <2>1, <2>2 DEF LoginUpsertDevice
<1>6. CASE LoginRereadDevice(r)
  BY <1>6, FinishMove DEF LoginRereadDevice, At, Request, Steps, Directed
<1>7. CASE LoginIssue(r)
  <2>1. req' \in [Requests -> Request] /\ Directed'
    BY <1>7, FinishMove DEF LoginIssue
  <2>2. req[r].dev \in AnyDevice /\ req[r].dst \in Stamps /\ req[r].u \in UserRow
    BY DEF Request
  <2>3. rtok' \in [Tokens -> TokenRow] /\ access' \subseteq AccessToken /\ minted' \subseteq Tokens
    BY <1>7, <2>2 DEF LoginIssue, TokenRow, AccessToken, UserRow
  <2> QED BY <1>7, <2>1, <2>3 DEF LoginIssue
<1> QED BY <1>1, <1>2, <1>3, <1>4, <1>5, <1>6, <1>7 DEF LoginStep

LEMMA TypeRefresh ==
  ASSUME Typed, NEW r \in Requests, RefreshStep(r)
  PROVE  Typed'
<1> USE DEF Typed, TypeOK
<1>0. /\ req[r] \in Request
      /\ req[r].dev \in AnyDevice /\ req[r].dst \in Stamps /\ req[r].u.stamp \in Stamps
      /\ req[r].rec.pw \in Stamps /\ (req[r].kind = "refresh" => req[r].tok \in Tokens)
  BY DEF Request, UserRow, TokenRow, Directed
<1>1. ASSUME NEW t \in Tokens, RefreshLookup(r, t) PROVE Typed'
  <2> DEFINE local == [Idle EXCEPT !.step = "read", !.tok = t, !.rec = rtok[t],
                                   !.dev = rtok[t].dev]
  <2>1. Start(r, "refresh", local)
    BY <1>1 DEF RefreshLookup
  <2>2. local \in Request /\ local.step \in Undirected /\ local.tok \in Tokens
    BY IdleType DEF Request, Undirected, Steps, TokenRow
  <2> HIDE DEF local
  <2>3. req' \in [Requests -> Request] /\ Directed'
    BY <2>1, <2>2, StartMove DEF AllKinds
  <2> QED BY <1>1, <2>3 DEF RefreshLookup
<1>2. CASE RefreshReadUser(r)
  BY <1>2 DEF RefreshReadUser, At, Request, Steps, Directed, AnyDevice
<1>3. CASE RefreshDrop(r)
  BY <1>3, DeleteTokensType, FinishMove DEF RefreshDrop
<1>4. CASE RefreshBindUser(r)
  <2>1. req' \in [Requests -> Request] /\ Directed'
    BY <1>0, <1>4, GotoMove DEF RefreshBindUser, Undirected, Steps, AnyDevice
  <2>2. rtok' \in [Tokens -> TokenRow]
    BY <1>0, <1>4 DEF RefreshBindUser, At, TokenRow
  <2> QED BY <1>4, <2>1, <2>2 DEF RefreshBindUser
<1>5. CASE RefreshReadDevice(r)
  BY <1>5 DEF RefreshReadDevice, At, Request, Steps, Directed
<1>6. CASE RefreshBindDevice(r)
  <2>1. req' \in [Requests -> Request] /\ Directed'
    BY <1>0, <1>6, GotoMove DEF RefreshBindDevice, Undirected, Steps
  <2>2. rtok' \in [Tokens -> TokenRow]
    BY <1>0, <1>6 DEF RefreshBindDevice, At, TokenRow
  <2> QED BY <1>6, <2>1, <2>2 DEF RefreshBindDevice
<1>7. CASE RefreshExtend(r)
  <2>1. req' \in [Requests -> Request] /\ Directed'
    BY <1>7, FinishMove DEF RefreshExtend
  <2>2. access' \subseteq AccessToken
    BY <1>0, <1>7 DEF RefreshExtend, At, AccessToken
  <2> QED BY <1>7, <2>1, <2>2 DEF RefreshExtend
<1> QED BY <1>1, <1>2, <1>3, <1>4, <1>5, <1>6, <1>7 DEF RefreshStep

LEMMA TypeAccount ==
  ASSUME Typed, NEW r \in Requests, AccountStep(r)
  PROVE  Typed'
<1> USE DEF Typed, TypeOK
<1>0. req[r] \in Request /\ req[r].u \in UserRow
  BY DEF Request
<1>1. ASSUME NEW kind \in AccountKinds, Authorize(r, kind) PROVE Typed'
  <2> DEFINE local(d) == [Idle EXCEPT !.dev = d,
                !.step = IF kind = "deleteDevice" THEN "deleteTokens" ELSE "read"]
  <2>1. PICK d \in AnyDevice :
          /\ (kind = "deleteDevice") = (d # NoDevice)
          /\ Start(r, kind, local(d))
    BY <1>1 DEF Authorize
  <2>2. /\ local(d) \in Request /\ local(d).step \in Undirected
        /\ kind = "deleteDevice" => local(d).dev \in Devices
    BY <2>1, IdleType DEF Request, Undirected, Steps, AnyDevice
  <2> HIDE DEF local
  <2>3. req' \in [Requests -> Request] /\ Directed'
    BY <2>1, <2>2, StartMove DEF AllKinds, AccountKinds
  <2> QED BY <1>1, <2>3 DEF Authorize
<1>2. CASE ReadAccount(r)
  BY <1>2, FinishMove DEF ReadAccount, Request, Steps, Directed, AccountKinds
<1>3. CASE ChangePasswordSave(r)
  <2>1. stamps + 1 \in Stamps /\ Draw(stamps + 1)
    BY <1>3, Bounds DEF ChangePasswordSave, Draw
  <2>2. [req[r].u EXCEPT !.stamp = stamps + 1, !.pw = stamps + 1, !.legacy = FALSE] \in UserRow
    BY <1>0, <2>1 DEF UserRow
  <2>3. req' \in [Requests -> Request] /\ Directed'
    BY <1>3, GotoMove DEF ChangePasswordSave, Undirected, Steps
  <2> QED BY <1>3, <2>1, <2>2, <2>3, DrawType, SaveUserType DEF ChangePasswordSave
<1>4. CASE SecondFactorSave(r)
  <2>1. req' \in [Requests -> Request] /\ Directed'
    BY <1>4, GotoMove DEF SecondFactorSave, Undirected, Steps
  <2> QED BY <1>0, <1>4, <2>1, SaveUserType DEF SecondFactorSave
<1>5. CASE ProfileSave(r)
  BY <1>0, <1>5, SaveUserType, FinishMove DEF ProfileSave
<1>6. CASE RecoverRead(r)
  <2> DEFINE local == [Idle EXCEPT !.step = "save", !.u = user]
  <2>1. Start(r, "recover", local)
    BY <1>6 DEF RecoverRead
  <2>2. local \in Request /\ local.step \in Undirected
    BY IdleType DEF Request, Undirected, Steps
  <2> HIDE DEF local
  <2>3. req' \in [Requests -> Request] /\ Directed'
    BY <2>1, <2>2, StartMove DEF AllKinds
  <2> QED BY <1>6, <2>3 DEF RecoverRead
<1>7. ASSUME Draw(req[r].u.pw), SaveUser([req[r].u EXCEPT !.stamp = stamps + 1])
      PROVE  /\ stamps' \in Stamps \ {0} /\ pwOf' \in [Stamps -> Stamps]
             /\ user' \in UserRow /\ retired' \subseteq Stamps
  <2>1. req[r].u.pw \in Stamps
    BY <1>0 DEF UserRow
  <2>2. [req[r].u EXCEPT !.stamp = stamps + 1] \in UserRow
    BY <1>0, <1>7, <2>1, DrawType DEF UserRow
  <2> QED BY <1>7, <2>1, <2>2, DrawType, SaveUserType
<1>8. CASE RecoverSave(r)
  <2>1. req' \in [Requests -> Request] /\ Directed'
    BY <1>8, GotoMove DEF RecoverSave, Undirected, Steps
  <2> QED BY <1>7, <1>8, <2>1 DEF RecoverSave
<1>9. CASE PurgeTokens(r)
  <2>1. req' \in [Requests -> Request] /\ Directed'
    BY <1>9, GotoMove, FinishMove DEF PurgeTokens, Undirected, Steps
  <2> QED BY <1>9, <2>1, DeleteTokensType DEF PurgeTokens
<1>10. CASE WipeTokens(r)
  <2>1. req' \in [Requests -> Request] /\ Directed'
    BY <1>10, GotoMove DEF WipeTokens, Undirected, Steps
  <2> QED BY <1>10, <2>1, DeleteTokensType DEF WipeTokens
<1>11. CASE WipeDevices(r)
  <2>1. req' \in [Requests -> Request] /\ Directed'
    BY <1>11, GotoMove DEF WipeDevices, Undirected, Steps
  <2> QED BY <1>11, <2>1, DeleteDevicesType DEF WipeDevices
<1>12. CASE SignOutAllSave(r)
  BY <1>7, <1>12, FinishMove DEF SignOutAllSave
<1>13. CASE DeleteDeviceTokens(r)
  <2>1. req' \in [Requests -> Request] /\ Directed'
    BY <1>13, GotoMove DEF DeleteDeviceTokens, Undirected, Steps
  <2> QED BY <1>13, <2>1, DeleteTokensType DEF DeleteDeviceTokens
<1>14. CASE DeleteDeviceRow(r)
  BY <1>14, DeleteDevicesType, FinishMove DEF DeleteDeviceRow, At, Directed
<1> QED
  BY <1>1, <1>2, <1>3, <1>4, <1>5, <1>6, <1>8, <1>9, <1>10, <1>11, <1>12, <1>13, <1>14
  DEF AccountStep

LEMMA TypeAdmin ==
  ASSUME Typed, NEW r \in Requests, AdminStep(r)
  PROVE  Typed'
<1> USE DEF Typed, TypeOK
<1>0. req[r] \in Request /\ req[r].u \in UserRow
  BY DEF Request
<1>1. CASE StatusRead(r)
  <2> DEFINE local(b) == [Idle EXCEPT !.step = "save", !.u = [user EXCEPT !.active = b]]
  <2>1. PICK b \in BOOLEAN : Start(r, "status", local(b))
    BY <1>1 DEF StatusRead
  <2>2. [user EXCEPT !.active = b] \in UserRow
    BY DEF UserRow
  <2>3. local(b) \in Request /\ local(b).step \in Undirected
    BY <2>2, IdleType DEF Request, Undirected, Steps
  <2> HIDE DEF local
  <2>4. req' \in [Requests -> Request] /\ Directed'
    BY <2>1, <2>3, StartMove DEF AllKinds
  <2> QED BY <1>1, <2>4 DEF StatusRead
<1>2. CASE StatusSave(r)
  <2>1. req' \in [Requests -> Request] /\ Directed'
    BY <1>2, GotoMove, FinishMove DEF StatusSave, Undirected, Steps
  <2> QED BY <1>0, <1>2, <2>1, SaveUserType DEF StatusSave
<1>3. CASE DeleteUserRead(r)
  <2> DEFINE local == [Idle EXCEPT !.step = "purge"]
  <2>1. Start(r, "deleteUser", local)
    BY <1>3 DEF DeleteUserRead
  <2>2. local \in Request /\ local.step \in Undirected
    BY IdleType DEF Request, Undirected, Steps
  <2> HIDE DEF local
  <2>3. req' \in [Requests -> Request] /\ Directed'
    BY <2>1, <2>2, StartMove DEF AllKinds
  <2> QED BY <1>3, <2>3 DEF DeleteUserRead
<1>4. CASE DeleteUserRow(r)
  <2>1. retired' \subseteq Stamps /\ device' \in [Devices -> Stamps] /\ user' \in UserRow
    BY <1>4, Bounds, IdleType DEF DeleteUserRow, UserRow
  <2> QED BY <1>4, <2>1, DeleteTokensType, FinishMove DEF DeleteUserRow
<1> QED BY <1>1, <1>2, <1>3, <1>4 DEF AdminStep

\* One step of the specification, by who takes it.
LEMMA TypeStep == Typed /\ [Next]_vars => Typed'
<1> SUFFICES ASSUME Typed, [Next]_vars PROVE Typed'
  OBVIOUS
<1>1. ASSUME NEW r \in Requests, Abort(r) PROVE Typed'
  BY <1>1, FinishMove DEF Abort, Typed, TypeOK
<1>2. ASSUME NEW t \in Tokens, Revoke(t) \/ Expire(t) PROVE Typed'
  BY <1>2, DeleteTokensType DEF Revoke, Expire, Typed, TypeOK, Directed
<1>3. CASE UNCHANGED vars
  BY <1>3 DEF vars, Typed, TypeOK, Directed
<1> QED
  BY <1>1, <1>2, <1>3, TypeLogin, TypeRefresh, TypeAccount, TypeAdmin DEF Next

\* The state of every component has the type it is declared with.
THEOREM TypeCorrect == Spec => []TypeOK
<1>1. Spec => []Typed
  BY TypeInit, TypeStep, PTL DEF Spec
<1>2. Typed => TypeOK
  BY DEF Typed
<1> QED BY <1>1, <1>2, PTL

-----------------------------------------------------------------------------
(* Passwords and stamps.  The ledger is what is known of stamps: n of them  *)
(* have been drawn and of[s] is the password the s-th was drawn for.        *)

\* A stamp that has been drawn for this password, or 0 with no password.
Recorded(s, pw, n, of) == s <= n /\ of[s] = pw

\* The same for a stamp that may not be absent.
Bound(s, pw, n, of) == s # 0 /\ Recorded(s, pw, n, of)

\* A request's copy of the row pairs a stamp with its password.  A refresh past
\* its reading of the account holds a record of the stamp it read.
CopyMatches(q, n, of) ==
  /\ Recorded(q.u.stamp, q.u.pw, n, of)
  /\ q.kind = "login" => q.u.stamp # 0
  /\ q.kind = "refresh" /\ q.tok \notin LegacyTokens =>
       /\ Bound(q.rec.sst, q.rec.pw, n, of)
       /\ q.step \notin {"read", "drop"} => q.rec.sst = q.u.stamp

LedgerStarts  == pwOf[0] = 0
RowMatches    == Recorded(user.stamp, user.pw, stamps, pwOf)
RequestsMatch == \A r \in Requests : CopyMatches(req[r], stamps, pwOf)
TokensMatch   == \A t \in Tokens \ LegacyTokens :
                   rtok[t] # NoToken => Bound(rtok[t].sst, rtok[t].pw, stamps, pwOf)
AccessMatches == \A a \in access : a.tok \notin LegacyTokens => Bound(a.sst, a.pw, stamps, pwOf)
Matched == LedgerStarts /\ RowMatches /\ RequestsMatch /\ TokensMatch /\ AccessMatches

\* The strengthening of SessionKnowsPassword that every step preserves.
IInv == Typed /\ Matched

LEMMA IInvInit == Init => IInv
<1> SUFFICES ASSUME Init PROVE IInv
  OBVIOUS
<1>1. Typed
  BY TypeInit
<1>2. LedgerStarts /\ RowMatches /\ AccessMatches /\ RequestsMatch
  BY Bounds DEF Init, LedgerStarts, RowMatches, AccessMatches, RequestsMatch, CopyMatches,
                Recorded, Idle, NoUser
<1>3. TokensMatch
  BY DEF Init, TokensMatch
<1> QED BY <1>1, <1>2, <1>3 DEF IInv, Matched

\* A stamp is drawn or the ledger of stamps is left alone.
LEMMA LedgerSteps ==
  ASSUME Next
  PROVE  (\E pw : Draw(pw)) \/ UNCHANGED <<stamps, pwOf>>
<1> DEFINE Goal == (\E pw : Draw(pw)) \/ UNCHANGED <<stamps, pwOf>>
<1>1. ASSUME NEW r \in Requests, LoginStep(r) PROVE Goal
  BY <1>1 DEF LoginStep, LoginRead, LoginRecover, LoginUpgrade, LoginReadDevice,
       LoginUpsertDevice, LoginRereadDevice, LoginIssue
<1>2. ASSUME NEW r \in Requests, RefreshStep(r) PROVE Goal
  BY <1>2 DEF RefreshStep, RefreshLookup, RefreshReadUser, RefreshDrop, RefreshBindUser,
       RefreshReadDevice, RefreshBindDevice, RefreshExtend
<1>3. ASSUME NEW r \in Requests, AccountStep(r) PROVE Goal
  BY <1>3 DEF AccountStep, Authorize, ReadAccount, ChangePasswordSave, SecondFactorSave,
       ProfileSave, RecoverRead, RecoverSave, PurgeTokens, WipeTokens, WipeDevices,
       SignOutAllSave, DeleteDeviceTokens, DeleteDeviceRow
<1>4. ASSUME NEW r \in Requests, AdminStep(r) \/ Abort(r) PROVE Goal
  BY <1>4 DEF AdminStep, StatusRead, StatusSave, DeleteUserRead, DeleteUserRow, Abort
<1>5. ASSUME NEW t \in Tokens, Revoke(t) \/ Expire(t) PROVE Goal
  BY <1>5 DEF Revoke, Expire
<1> QED BY <1>1, <1>2, <1>3, <1>4, <1>5 DEF Next

\* What the ledger says of a stamp never changes.
LEMMA LedgerGrows ==
  ASSUME Typed, Next
  PROVE  \A s \in Stamps : \A pw : Recorded(s, pw, stamps, pwOf) => Recorded(s, pw, stamps', pwOf')
<1>1. ASSUME NEW p, Draw(p), NEW s \in Stamps, s <= stamps
      PROVE  s <= stamps' /\ pwOf'[s] = pwOf[s]
  BY <1>1, Bounds DEF Typed, TypeOK, Draw
<1>2. CASE UNCHANGED <<stamps, pwOf>>
  BY <1>2
<1> QED BY <1>1, <1>2, LedgerSteps DEF Recorded

\* The stamp just drawn is recorded with the password it was drawn for.
LEMMA DrawRecords ==
  ASSUME Typed, NEW pw, Draw(pw)
  PROVE  Bound(stamps + 1, pw, stamps', pwOf')
BY Bounds DEF Typed, TypeOK, Draw, Recorded, Bound

LEMMA CopyStays ==
  ASSUME Typed, Next, NEW q \in Request, CopyMatches(q, stamps, pwOf)
  PROVE  CopyMatches(q, stamps', pwOf')
<1>1. q.u.stamp \in Stamps /\ q.rec.sst \in Stamps
  BY DEF Request, UserRow, TokenRow
<1> QED BY <1>1, LedgerGrows DEF CopyMatches, Bound

LEMMA IdleMatches == ASSUME Typed, LedgerStarts PROVE CopyMatches(Idle, stamps, pwOf)
BY Bounds DEF Typed, TypeOK, LedgerStarts, CopyMatches, Recorded, Idle, NoUser

\* What is left to show of a step of request r: what it does to the row, to its
\* own record, to the token table and to the signed tokens.
LEMMA MatchedStep ==
  ASSUME IInv, Typed', Next, NEW r \in Requests,
         user' = user \/ Recorded(user'.stamp, user'.pw, stamps', pwOf'),
         \A q \in Requests \ {r} : req'[q] = req[q],
         \/ req'[r] = Idle
         \/ req'[r] = req[r]
         \/ CopyMatches(req'[r], stamps', pwOf'),
         \A t \in Tokens \ LegacyTokens : rtok'[t] # NoToken =>
            rtok'[t] = rtok[t] \/ Bound(rtok'[t].sst, rtok'[t].pw, stamps', pwOf'),
         \A a \in access' \ access :
            a.tok \notin LegacyTokens => Bound(a.sst, a.pw, stamps', pwOf')
  PROVE  Matched'
<1>0. \A s \in Stamps : \A pw : Recorded(s, pw, stamps, pwOf) => Recorded(s, pw, stamps', pwOf')
  BY LedgerGrows DEF IInv
<1>1. LedgerStarts'
  <2>1. Recorded(0, 0, stamps, pwOf)
    BY Bounds DEF IInv, Matched, LedgerStarts, Recorded, Typed, TypeOK
  <2>2. Recorded(0, 0, stamps', pwOf')
    BY <1>0, <2>1, Bounds
  <2> QED BY <2>2 DEF LedgerStarts, Recorded
<1>2. RowMatches'
  <2>1. user.stamp \in Stamps
    BY DEF IInv, Typed, TypeOK, UserRow
  <2> QED BY <1>0, <2>1 DEF IInv, Matched, RowMatches
<1>3. RequestsMatch'
  <2> SUFFICES ASSUME NEW q \in Requests PROVE CopyMatches(req'[q], stamps', pwOf')
    BY DEF RequestsMatch
  <2>1. \A p \in Request : CopyMatches(p, stamps, pwOf) => CopyMatches(p, stamps', pwOf')
    BY CopyStays DEF IInv
  <2>2. CopyMatches(Idle, stamps, pwOf) /\ Idle \in Request
    BY IdleMatches, IdleType DEF IInv, Matched
  <2>3. req[q] \in Request /\ CopyMatches(req[q], stamps, pwOf)
    BY DEF IInv, Typed, TypeOK, Matched, RequestsMatch
  <2> QED BY <2>1, <2>2, <2>3
<1>4. TokensMatch'
  <2> SUFFICES ASSUME NEW t \in Tokens \ LegacyTokens, rtok'[t] # NoToken
               PROVE  Bound(rtok'[t].sst, rtok'[t].pw, stamps', pwOf')
    BY DEF TokensMatch
  <2>1. CASE rtok'[t] = rtok[t]
    <3>1. rtok[t].sst \in Stamps /\ Bound(rtok[t].sst, rtok[t].pw, stamps, pwOf)
      BY <2>1 DEF IInv, Typed, TypeOK, TokenRow, Matched, TokensMatch
    <3> QED BY <1>0, <2>1, <3>1 DEF Bound
  <2> QED BY <2>1
<1>5. AccessMatches'
  <2> SUFFICES ASSUME NEW a \in access', a.tok \notin LegacyTokens
               PROVE  Bound(a.sst, a.pw, stamps', pwOf')
    BY DEF AccessMatches
  <2>1. CASE a \in access
    <3>1. a.sst \in Stamps /\ Bound(a.sst, a.pw, stamps, pwOf)
      BY <2>1 DEF IInv, Typed, TypeOK, AccessToken, Matched, AccessMatches
    <3> QED BY <1>0, <3>1 DEF Bound
  <2> QED BY <2>1
<1> QED BY <1>1, <1>2, <1>3, <1>4, <1>5 DEF Matched

\* The copies that a step may make its own.
LEMMA CopyFacts ==
  ASSUME IInv, Next, NEW r \in Requests
  PROVE  /\ req \in [Requests -> Request] /\ req[r] \in Request
         /\ user.stamp \in Stamps /\ req[r].u.stamp \in Stamps /\ req[r].rec.sst \in Stamps
         /\ Recorded(user.stamp, user.pw, stamps', pwOf')
         /\ CopyMatches(req[r], stamps', pwOf')
         /\ Recorded(0, 0, stamps', pwOf')
         /\ \A s \in Stamps : \A pw :
              Recorded(s, pw, stamps, pwOf) => Recorded(s, pw, stamps', pwOf')
<1>1. /\ req \in [Requests -> Request] /\ req[r] \in Request
      /\ user.stamp \in Stamps /\ req[r].u.stamp \in Stamps /\ req[r].rec.sst \in Stamps
  BY DEF IInv, Typed, TypeOK, Request, UserRow, TokenRow
<1>2. \A s \in Stamps : \A pw : Recorded(s, pw, stamps, pwOf) => Recorded(s, pw, stamps', pwOf')
  BY LedgerGrows DEF IInv
<1>3. CopyMatches(req[r], stamps', pwOf')
  BY <1>1, CopyStays DEF IInv, Matched, RequestsMatch
<1>4. Recorded(user.stamp, user.pw, stamps, pwOf) /\ Recorded(0, 0, stamps, pwOf)
  BY Bounds DEF IInv, Matched, RowMatches, LedgerStarts, Recorded, Typed, TypeOK
<1> QED BY <1>1, <1>2, <1>3, <1>4, Bounds

LEMMA MatchedLogin ==
  ASSUME IInv, Typed', NEW r \in Requests, LoginStep(r)
  PROVE  Matched'
<1>0. Next
  BY DEF Next
<1>1. ASSUME NEW d \in AnyDevice, LoginRead(r, d) PROVE Matched'
  <2>1. CopyMatches(req'[r], stamps', pwOf')
    BY <1>0, <1>1, CopyFacts DEF LoginRead, Start, CopyMatches, Idle, Exists
  <2> QED BY <1>0, <1>1, <2>1, MatchedStep, CopyFacts DEF LoginRead, Start
<1>2. CASE LoginRecover(r)
  <2>1. Bound(stamps + 1, req[r].u.pw, stamps', pwOf')
    BY <1>2, DrawRecords DEF LoginRecover, IInv
  <2>2. CopyMatches(req'[r], stamps', pwOf')
    BY <1>0, <1>2, <2>1, CopyFacts DEF LoginRecover, At, CopyMatches, Bound, Request, UserRow
  <2>3. Recorded(user'.stamp, user'.pw, stamps', pwOf')
    BY <1>0, <1>2, <2>1, CopyFacts DEF LoginRecover, SaveUser, Bound, Request, UserRow
  <2> QED BY <1>0, <1>2, <2>2, <2>3, MatchedStep, CopyFacts DEF LoginRecover
<1>3. CASE LoginUpgrade(r)
  <2>1. CopyMatches(req'[r], stamps', pwOf')
    BY <1>0, <1>3, CopyFacts DEF LoginUpgrade, At, CopyMatches, Request, UserRow
  <2>2. Recorded(user'.stamp, user'.pw, stamps', pwOf')
    BY <1>0, <1>3, CopyFacts DEF LoginUpgrade, UpgradeApplies, IInv, Typed, TypeOK, UserRow
  <2> QED BY <1>0, <1>3, <2>1, <2>2, MatchedStep, CopyFacts DEF LoginUpgrade
<1>4. CASE LoginReadDevice(r)
  <2>1. CopyMatches(req'[r], stamps', pwOf')
    BY <1>0, <1>4, CopyFacts DEF LoginReadDevice, At, CopyMatches, Request
  <2> QED BY <1>0, <1>4, <2>1, MatchedStep, CopyFacts DEF LoginReadDevice
<1>5. CASE LoginUpsertDevice(r)
  <2>1. req'[r] = Idle \/ CopyMatches(req'[r], stamps', pwOf')
    BY <1>0, <1>5, CopyFacts DEF LoginUpsertDevice, Goto, Finish, At, CopyMatches, Request
  <2> QED BY <1>0, <1>5, <2>1, MatchedStep, CopyFacts DEF LoginUpsertDevice, Goto, Finish
<1>6. CASE LoginRereadDevice(r)
  <2>1. req'[r] = Idle \/ CopyMatches(req'[r], stamps', pwOf')
    BY <1>0, <1>6, CopyFacts DEF LoginRereadDevice, Finish, At, CopyMatches, Request
  <2> QED BY <1>0, <1>6, <2>1, MatchedStep, CopyFacts DEF LoginRereadDevice, Finish
<1>7. CASE LoginIssue(r)
  <2>1. Bound(req[r].u.stamp, req[r].u.pw, stamps', pwOf')
    BY <1>0, <1>7, CopyFacts DEF LoginIssue, At, CopyMatches, Bound
  <2>2. \A t \in Tokens \ LegacyTokens : rtok'[t] # NoToken =>
          rtok'[t] = rtok[t] \/ Bound(rtok'[t].sst, rtok'[t].pw, stamps', pwOf')
    BY <1>7, <2>1 DEF LoginIssue, IInv, Typed, TypeOK
  <2>3. \A a \in access' \ access : Bound(a.sst, a.pw, stamps', pwOf')
    BY <1>7, <2>1 DEF LoginIssue
  <2> QED BY <1>0, <1>7, <2>2, <2>3, MatchedStep, CopyFacts DEF LoginIssue, Finish
<1> QED BY <1>1, <1>2, <1>3, <1>4, <1>5, <1>6, <1>7 DEF LoginStep

LEMMA MatchedRefresh ==
  ASSUME IInv, Typed', NEW r \in Requests, RefreshStep(r)
  PROVE  Matched'
<1>0. Next
  BY DEF Next
<1>1. ASSUME NEW t \in Tokens, RefreshLookup(r, t) PROVE Matched'
  <2>1. t \notin LegacyTokens => Bound(rtok[t].sst, rtok[t].pw, stamps', pwOf')
    <3>1. rtok[t].sst \in Stamps
      BY DEF IInv, Typed, TypeOK, TokenRow
    <3> QED BY <1>0, <1>1, <3>1, CopyFacts DEF RefreshLookup, Bound, IInv, Matched, TokensMatch
  <2>2. CopyMatches(req'[r], stamps', pwOf')
    BY <1>0, <1>1, <2>1, CopyFacts DEF RefreshLookup, Start, CopyMatches, Idle, NoUser
  <2> QED BY <1>0, <1>1, <2>2, MatchedStep, CopyFacts DEF RefreshLookup, Start
<1>2. CASE RefreshReadUser(r)
  <2>1. CopyMatches(req'[r], stamps', pwOf')
    BY <1>0, <1>2, CopyFacts DEF RefreshReadUser, At, CopyMatches, Bound, Request
  <2> QED BY <1>0, <1>2, <2>1, MatchedStep, CopyFacts DEF RefreshReadUser
<1>3. CASE RefreshDrop(r)
  BY <1>0, <1>3, MatchedStep, CopyFacts DEF RefreshDrop, DeleteTokens, Finish
<1>4. CASE RefreshBindUser(r)
  <2>1. CopyMatches(req'[r], stamps', pwOf')
    BY <1>0, <1>4, CopyFacts DEF RefreshBindUser, At, Goto, CopyMatches, Request
  <2>2. \A t \in Tokens \ LegacyTokens : rtok'[t] # NoToken => rtok'[t] = rtok[t]
    BY <1>4 DEF RefreshBindUser, IInv, Typed, TypeOK, Matched, TokensMatch, Bound
  <2> QED BY <1>0, <1>4, <2>1, <2>2, MatchedStep, CopyFacts DEF RefreshBindUser, Goto
<1>5. CASE RefreshReadDevice(r)
  <2>1. CopyMatches(req'[r], stamps', pwOf')
    BY <1>0, <1>5, CopyFacts DEF RefreshReadDevice, At, CopyMatches, Request
  <2> QED BY <1>0, <1>5, <2>1, MatchedStep, CopyFacts DEF RefreshReadDevice
<1>6. CASE RefreshBindDevice(r)
  <2>1. CopyMatches(req'[r], stamps', pwOf')
    BY <1>0, <1>6, CopyFacts DEF RefreshBindDevice, At, Goto, CopyMatches, Request
  <2>2. \A t \in Tokens \ LegacyTokens : rtok'[t] # NoToken =>
          rtok'[t] = rtok[t] \/ Bound(rtok'[t].sst, rtok'[t].pw, stamps', pwOf')
    <3> SUFFICES ASSUME NEW t \in Tokens \ LegacyTokens, rtok'[t] # NoToken, rtok'[t] # rtok[t]
                 PROVE  Bound(rtok'[t].sst, rtok'[t].pw, stamps', pwOf')
      OBVIOUS
    <3>1. /\ rtok[t] # NoToken /\ rtok[t].sst \in Stamps
          /\ rtok'[t].sst = rtok[t].sst /\ rtok'[t].pw = rtok[t].pw
      BY <1>6 DEF RefreshBindDevice, IInv, Typed, TypeOK, TokenRow
    <3> QED BY <1>0, <3>1, CopyFacts DEF Bound, IInv, Matched, TokensMatch
  <2> QED BY <1>0, <1>6, <2>1, <2>2, MatchedStep, CopyFacts DEF RefreshBindDevice, Goto
<1>7. CASE RefreshExtend(r)
  <2>1. req[r].tok \notin LegacyTokens => Bound(req[r].u.stamp, req[r].rec.pw, stamps', pwOf')
    BY <1>0, <1>7, CopyFacts DEF RefreshExtend, At, CopyMatches, Bound
  <2>2. \A a \in access' \ access :
          a.tok \notin LegacyTokens => Bound(a.sst, a.pw, stamps', pwOf')
    BY <1>7, <2>1 DEF RefreshExtend
  <2> QED BY <1>0, <1>7, <2>2, MatchedStep, CopyFacts DEF RefreshExtend, Finish
<1> QED BY <1>1, <1>2, <1>3, <1>4, <1>5, <1>6, <1>7 DEF RefreshStep

LEMMA MatchedAccount ==
  ASSUME IInv, Typed', NEW r \in Requests, AccountStep(r)
  PROVE  Matched'
<1>0. Next
  BY DEF Next
\* The row saved again from the copy, and the copy with a new stamp.
<1>a. ASSUME SaveUser(req[r].u) PROVE Recorded(user'.stamp, user'.pw, stamps', pwOf')
  BY <1>0, <1>a, CopyFacts DEF SaveUser, CopyMatches
<1>b. ASSUME Draw(req[r].u.pw), SaveUser([req[r].u EXCEPT !.stamp = stamps + 1])
      PROVE  Recorded(user'.stamp, user'.pw, stamps', pwOf')
  BY <1>0, <1>b, DrawRecords, CopyFacts DEF SaveUser, Bound, Request, UserRow, IInv
\* A request that moves on with the copy it has.
<1>c. ASSUME NEW step \in Steps, Goto(r, step), req[r].kind # "refresh"
      PROVE  CopyMatches(req'[r], stamps', pwOf') /\ \A q \in Requests \ {r} : req'[q] = req[q]
  BY <1>0, <1>c, CopyFacts DEF Goto, CopyMatches, Request
<1>1. ASSUME NEW kind \in AccountKinds, Authorize(r, kind) PROVE Matched'
  <2>1. CopyMatches(req'[r], stamps', pwOf')
    BY <1>0, <1>1, CopyFacts DEF Authorize, Start, CopyMatches, Idle, NoUser, AccountKinds
  <2> QED BY <1>0, <1>1, <2>1, MatchedStep, CopyFacts DEF Authorize, Start
<1>2. CASE ReadAccount(r)
  <2>1. req'[r] = Idle \/ CopyMatches(req'[r], stamps', pwOf')
    BY <1>0, <1>2, CopyFacts DEF ReadAccount, Finish, CopyMatches, Request, AccountKinds
  <2> QED BY <1>0, <1>2, <2>1, MatchedStep, CopyFacts DEF ReadAccount, Finish
<1>3. CASE ChangePasswordSave(r)
  <2>1. Recorded(user'.stamp, user'.pw, stamps', pwOf')
    BY <1>0, <1>3, DrawRecords, CopyFacts
    DEF ChangePasswordSave, SaveUser, Bound, Request, UserRow, IInv
  <2> QED BY <1>0, <1>3, <1>c, <2>1, MatchedStep DEF ChangePasswordSave, At, Steps
<1>4. CASE SecondFactorSave(r)
  BY <1>0, <1>4, <1>a, <1>c, MatchedStep DEF SecondFactorSave, At, Steps
<1>5. CASE ProfileSave(r)
  BY <1>0, <1>5, <1>a, MatchedStep, CopyFacts DEF ProfileSave, Finish
<1>6. CASE RecoverRead(r)
  <2>1. CopyMatches(req'[r], stamps', pwOf')
    BY <1>0, <1>6, CopyFacts DEF RecoverRead, Start, CopyMatches, Idle
  <2> QED BY <1>0, <1>6, <2>1, MatchedStep, CopyFacts DEF RecoverRead, Start
<1>7. CASE RecoverSave(r)
  BY <1>0, <1>7, <1>b, <1>c, MatchedStep DEF RecoverSave, At, Steps
<1>8. CASE PurgeTokens(r)
  <2>1. (CopyMatches(req'[r], stamps', pwOf') \/ req'[r] = Idle)
        /\ \A q \in Requests \ {r} : req'[q] = req[q]
    BY <1>0, <1>8, <1>c, CopyFacts DEF PurgeTokens, Finish, Steps
  <2> QED BY <1>0, <1>8, <2>1, MatchedStep DEF PurgeTokens, DeleteTokens
<1>9. CASE WipeTokens(r)
  BY <1>0, <1>9, <1>c, MatchedStep DEF WipeTokens, DeleteTokens, Steps
<1>10. CASE WipeDevices(r)
  BY <1>0, <1>10, <1>c, MatchedStep DEF WipeDevices, Steps
<1>11. CASE SignOutAllSave(r)
  BY <1>0, <1>11, <1>b, MatchedStep, CopyFacts DEF SignOutAllSave, Finish
<1>12. CASE DeleteDeviceTokens(r)
  BY <1>0, <1>12, <1>c, MatchedStep DEF DeleteDeviceTokens, DeleteTokens, At, Steps
<1>13. CASE DeleteDeviceRow(r)
  BY <1>0, <1>13, MatchedStep, CopyFacts DEF DeleteDeviceRow, Finish
<1> QED
  BY <1>1, <1>2, <1>3, <1>4, <1>5, <1>6, <1>7, <1>8, <1>9, <1>10, <1>11, <1>12, <1>13
  DEF AccountStep

LEMMA MatchedAdmin ==
  ASSUME IInv, Typed', NEW r \in Requests, AdminStep(r)
  PROVE  Matched'
<1>0. Next
  BY DEF Next
<1>1. CASE StatusRead(r)
  <2>1. CopyMatches(req'[r], stamps', pwOf')
    BY <1>0, <1>1, CopyFacts
    DEF StatusRead, Start, CopyMatches, Idle, IInv, Typed, TypeOK, UserRow
  <2> QED BY <1>0, <1>1, <2>1, MatchedStep, CopyFacts DEF StatusRead, Start
<1>2. CASE StatusSave(r)
  <2>1. Recorded(user'.stamp, user'.pw, stamps', pwOf')
    BY <1>0, <1>2, CopyFacts DEF StatusSave, SaveUser, CopyMatches
  <2>2. CopyMatches(req'[r], stamps', pwOf') \/ req'[r] = Idle
    BY <1>0, <1>2, CopyFacts DEF StatusSave, At, Goto, Finish, CopyMatches, Request
  <2> QED BY <1>0, <1>2, <2>1, <2>2, MatchedStep, CopyFacts DEF StatusSave, Goto, Finish
<1>3. CASE DeleteUserRead(r)
  <2>1. CopyMatches(req'[r], stamps', pwOf')
    BY <1>0, <1>3, CopyFacts DEF DeleteUserRead, Start, CopyMatches, Idle, NoUser
  <2> QED BY <1>0, <1>3, <2>1, MatchedStep, CopyFacts DEF DeleteUserRead, Start
<1>4. CASE DeleteUserRow(r)
  BY <1>0, <1>4, MatchedStep, CopyFacts DEF DeleteUserRow, DeleteTokens, Finish, NoUser
<1> QED BY <1>1, <1>2, <1>3, <1>4 DEF AdminStep

LEMMA MatchedStutter == ASSUME IInv, UNCHANGED vars PROVE Matched'
<1>1. /\ user' = user /\ rtok' = rtok /\ access' = access /\ req' = req
      /\ stamps' = stamps /\ pwOf' = pwOf
  BY DEF vars
<1>2. LedgerStarts' /\ RowMatches'
  BY <1>1 DEF IInv, Matched, LedgerStarts, RowMatches
<1>3. RequestsMatch' /\ TokensMatch' /\ AccessMatches'
  BY <1>1 DEF IInv, Matched, RequestsMatch, TokensMatch, AccessMatches
<1> QED BY <1>2, <1>3 DEF Matched

LEMMA IInvStep == IInv /\ [Next]_vars => IInv'
<1> SUFFICES ASSUME IInv, [Next]_vars PROVE IInv'
  OBVIOUS
<1>0. Typed'
  BY TypeStep DEF IInv
<1>1. CASE Next
  <2>1. ASSUME NEW r \in Requests, Abort(r) PROVE Matched'
    BY <1>0, <1>1, <2>1, MatchedStep, CopyFacts DEF Abort, Finish
  <2>2. ASSUME NEW t \in Tokens, Revoke(t) \/ Expire(t) PROVE Matched'
    \* No request moves and the ledger is left alone.
    BY <2>2 DEF Revoke, Expire, DeleteTokens, IInv, Matched, LedgerStarts, RowMatches,
                RequestsMatch, TokensMatch, AccessMatches
  <2>3. ASSUME NEW r \in Requests, LoginStep(r) \/ RefreshStep(r) \/ AccountStep(r) \/ AdminStep(r)
        PROVE  Matched'
    BY <1>0, <2>3, MatchedLogin, MatchedRefresh, MatchedAccount, MatchedAdmin
  <2>4. Matched'
    BY <1>1, <2>1, <2>2, <2>3 DEF Next
  <2> QED BY <1>0, <2>4 DEF IInv
<1>2. CASE UNCHANGED vars
  BY <1>0, <1>2, MatchedStutter DEF IInv
<1> QED BY <1>1, <1>2

\* A session whose stamp is the account's was opened with its present password:
\* saves from stale copies, crashes between statements and recovery codes included.
THEOREM SessionsKnowPassword == Spec => []SessionKnowsPassword
<1>1. Spec => []IInv
  BY IInvInit, IInvStep, PTL DEF Spec
<1>2. IInv => SessionKnowsPassword
  <2> SUFFICES ASSUME IInv PROVE SessionKnowsPassword
    OBVIOUS
  <2>1. ASSUME NEW t \in Tokens \ LegacyTokens, rtok[t].sst = user.stamp
        PROVE  rtok[t].pw = user.pw
    BY <2>1 DEF IInv, Matched, LedgerStarts, RowMatches, TokensMatch, Bound, Recorded, NoToken
  <2>2. ASSUME NEW a \in access, a.sst = user.stamp, a.tok \notin LegacyTokens
        PROVE  a.pw = user.pw
    BY <2>2 DEF IInv, Matched, RowMatches, AccessMatches, Bound, Recorded
  <2> QED BY <2>1, <2>2 DEF SessionKnowsPassword
<1> QED BY <1>1, <1>2, PTL

\* No step replaces the password and leaves the security stamp.
THEOREM PasswordsMoveStamps == Spec => PasswordMovesStamp
<1>1. Spec => []IInv
  BY IInvInit, IInvStep, PTL DEF Spec
<1>2. IInv /\ IInv' /\ [Next]_vars =>
        [Exists(user) /\ Exists(user') /\ user'.pw # user.pw => user'.stamp # user.stamp]_vars
  <2> SUFFICES ASSUME IInv, IInv', Next, user'.stamp = user.stamp
               PROVE  user'.pw = user.pw
    BY DEF vars
  <2>1. user.stamp \in Stamps /\ Recorded(user.stamp, user.pw, stamps, pwOf)
    BY DEF IInv, Typed, TypeOK, UserRow, Matched, RowMatches
  <2>2. Recorded(user.stamp, user.pw, stamps', pwOf')
    BY <2>1, LedgerGrows DEF IInv
  <2>3. Recorded(user'.stamp, user'.pw, stamps', pwOf')
    BY DEF IInv, Matched, RowMatches
  <2> QED BY <2>2, <2>3 DEF Recorded
<1> QED BY <1>1, <1>2, PTL DEF Spec, PasswordMovesStamp
-----------------------------------------------------------------------------
(* Refresh tokens and the sessions of devices.                             *)

\* What a step does to a row of "refresh_tokens", if anything: it deletes it,
\* inserts the row of a token just drawn, or sets a stamp that was absent.
Deleted(t) == rtok'[t] = NoToken

Drawn(t) ==
  /\ t \notin minted /\ t \in minted'
  /\ \E r \in Requests :
       /\ At(r, "login", "issue")
       /\ rtok'[t] = [dev |-> req[r].dev, dst |-> req[r].dst,
                      sst |-> req[r].u.stamp, pw |-> req[r].u.pw]

Bind(t) ==
  /\ rtok[t] # NoToken
  /\ rtok'[t].dev = rtok[t].dev
  /\ rtok[t].sst # 0 => rtok'[t].sst = rtok[t].sst
  /\ rtok[t].dst # 0 => rtok'[t].dst = rtok[t].dst
  /\ \/ rtok'[t].dst = rtok[t].dst
     \/ \E r \in Requests : /\ At(r, "refresh", "bindDevice")
                            /\ req[r].tok = t /\ rtok'[t].dst = req[r].dst

RowMove(t) == rtok'[t] = rtok[t] \/ Deleted(t) \/ Drawn(t) \/ Bind(t)

LEMMA RowMoves ==
  ASSUME Typed, [Next]_vars
  PROVE  minted \subseteq minted' /\ \A t \in Tokens : RowMove(t)
<1> DEFINE Goal == minted \subseteq minted' /\ \A t \in Tokens : RowMove(t)
<1>0. rtok \in [Tokens -> TokenRow] /\ req \in [Requests -> Request]
  BY DEF Typed, TypeOK
<1>1. ASSUME NEW gone, DeleteTokens(gone), minted' = minted PROVE Goal
  BY <1>1 DEF DeleteTokens, RowMove, Deleted
<1>2. CASE UNCHANGED <<rtok, minted>>
  BY <1>2 DEF RowMove
<1>3. ASSUME NEW r \in Requests, LoginIssue(r) PROVE Goal
  BY <1>0, <1>2, <1>3 DEF LoginIssue, RowMove, Drawn
<1>4. ASSUME NEW r \in Requests, RefreshBindUser(r) PROVE Goal
  <2>1. ASSUME NEW t \in Tokens, rtok'[t] # rtok[t] PROVE Bind(t)
    <3>1. rtok[t] # NoToken /\ rtok[t].sst = 0 /\ rtok' = [rtok EXCEPT ![t].sst = req[r].u.stamp]
      BY <1>0, <1>4, <2>1 DEF RefreshBindUser
    <3>2. rtok'[t].dev = rtok[t].dev /\ rtok'[t].dst = rtok[t].dst
      BY <1>0, <3>1 DEF TokenRow
    <3> QED BY <3>1, <3>2 DEF Bind
  <2> QED BY <1>4, <2>1 DEF RefreshBindUser, RowMove
<1>5. ASSUME NEW r \in Requests, RefreshBindDevice(r) PROVE Goal
  <2>1. ASSUME NEW t \in Tokens, rtok'[t] # rtok[t] PROVE Bind(t)
    <3>1. /\ rtok[t] # NoToken /\ rtok[t].dst = 0 /\ rtok' = [rtok EXCEPT ![t].dst = req[r].dst]
          /\ At(r, "refresh", "bindDevice") /\ req[r].tok = t
      BY <1>0, <1>5, <2>1 DEF RefreshBindDevice
    <3>2. /\ rtok'[t].dev = rtok[t].dev /\ rtok'[t].sst = rtok[t].sst
          /\ rtok'[t].dst = req[r].dst
      BY <1>0, <3>1 DEF TokenRow
    <3> QED BY <3>1, <3>2 DEF Bind
  <2> QED BY <1>5, <2>1 DEF RefreshBindDevice, RowMove
<1>6. ASSUME NEW r \in Requests, LoginStep(r) \/ RefreshStep(r) PROVE Goal
  BY <1>1, <1>2, <1>3, <1>4, <1>5, <1>6
  DEF LoginStep, LoginRead, LoginRecover, LoginUpgrade, LoginReadDevice, LoginUpsertDevice,
      LoginRereadDevice, RefreshStep, RefreshLookup, RefreshReadUser, RefreshDrop,
      RefreshReadDevice, RefreshExtend
<1>7. ASSUME NEW r \in Requests, AccountStep(r) PROVE Goal
  BY <1>1, <1>2, <1>7
  DEF AccountStep, Authorize, ReadAccount, ChangePasswordSave, SecondFactorSave, ProfileSave,
      RecoverRead, RecoverSave, PurgeTokens, WipeTokens, WipeDevices, SignOutAllSave,
      DeleteDeviceTokens, DeleteDeviceRow
<1>8. ASSUME NEW r \in Requests, AdminStep(r) \/ Abort(r) PROVE Goal
  BY <1>1, <1>2, <1>8 DEF AdminStep, StatusRead, StatusSave, DeleteUserRead, DeleteUserRow, Abort
<1>9. ASSUME NEW t \in Tokens, Revoke(t) \/ Expire(t) PROVE Goal
  BY <1>1, <1>9 DEF Revoke, Expire
<1> QED BY <1>2, <1>6, <1>7, <1>8, <1>9 DEF Next, vars

\* No refresh under way brings a deleted refresh token back.
THEOREM DeletedTokensStayDeleted == Spec => DeletedTokenStaysDeleted
<1>1. Typed /\ [Next]_vars =>
        [\A t \in minted : rtok[t] = NoToken => rtok'[t] = NoToken]_vars
  BY RowMoves DEF RowMove, Deleted, Drawn, Bind, Typed, TypeOK
<1> QED BY <1>1, TypeInit, TypeStep, PTL DEF Spec, DeletedTokenStaysDeleted

\* A token that has not been drawn has no row.
Undrawn == \A t \in Tokens \ minted : rtok[t] = NoToken

LEMMA UndrawnInit == Init => Undrawn
BY DEF Init, Undrawn

LEMMA UndrawnStep == Typed /\ Undrawn /\ [Next]_vars => Undrawn'
BY RowMoves DEF Undrawn, RowMove, Deleted, Drawn, Bind

\* Refreshes that race to bind an old token never move a stamp that is set.
THEOREM BoundStampsAreFinal == Spec => BoundStampIsFinal
<1> DEFINE Final == \A t \in Tokens : rtok[t] # NoToken /\ rtok'[t] # NoToken =>
                      /\ rtok[t].sst # 0 => rtok'[t].sst = rtok[t].sst
                      /\ rtok[t].dst # 0 => rtok'[t].dst = rtok[t].dst
<1>1. Typed /\ Undrawn /\ [Next]_vars => [Final]_vars
  BY RowMoves DEF Undrawn, RowMove, Deleted, Drawn, Bind
<1> QED
  BY <1>1, TypeInit, TypeStep, UndrawnInit, UndrawnStep, PTL DEF Spec, BoundStampIsFinal

\* What has been signed anew: the session a login just persisted, or one whose
\* refresh token is still there.
SignedByLogin(a) ==
  \E r \in Requests : /\ At(r, "login", "issue") /\ Exists(user)
                      /\ a.dev = req[r].dev /\ a.dst = req[r].dst
                      /\ a.tok \in Tokens /\ rtok'[a.tok].sst = req[r].u.stamp
SignedByRefresh(a) ==
  \E r \in Requests : /\ At(r, "refresh", "extend")
                      /\ a.dev = req[r].dev /\ a.dst = req[r].dst
                      /\ a.tok = req[r].tok
                      /\ rtok[a.tok] # NoToken /\ rtok'[a.tok] = rtok[a.tok]

LEMMA SignedAnew ==
  ASSUME Typed, [Next]_vars
  PROVE  \A a \in access' \ access : SignedByLogin(a) \/ SignedByRefresh(a)
<1> DEFINE Goal == \A a \in access' \ access : SignedByLogin(a) \/ SignedByRefresh(a)
<1>0. rtok \in [Tokens -> TokenRow]
  BY DEF Typed, TypeOK
<1>1. CASE UNCHANGED access
  BY <1>1
<1>2. ASSUME NEW r \in Requests, LoginIssue(r) PROVE Goal
  BY <1>0, <1>2 DEF LoginIssue, SignedByLogin
<1>3. ASSUME NEW r \in Requests, RefreshExtend(r) PROVE Goal
  BY <1>3 DEF RefreshExtend, SignedByRefresh
<1>4. ASSUME NEW r \in Requests, LoginStep(r) \/ RefreshStep(r) PROVE Goal
  BY <1>1, <1>2, <1>3, <1>4
  DEF LoginStep, LoginRead, LoginRecover, LoginUpgrade, LoginReadDevice, LoginUpsertDevice,
      LoginRereadDevice, RefreshStep, RefreshLookup, RefreshReadUser, RefreshDrop,
      RefreshReadDevice, RefreshBindUser, RefreshBindDevice
<1>5. ASSUME NEW r \in Requests, AccountStep(r) PROVE Goal
  BY <1>1, <1>5
  DEF AccountStep, Authorize, ReadAccount, ChangePasswordSave, SecondFactorSave, ProfileSave,
      RecoverRead, RecoverSave, PurgeTokens, WipeTokens, WipeDevices, SignOutAllSave,
      DeleteDeviceTokens, DeleteDeviceRow
<1>6. ASSUME NEW r \in Requests, AdminStep(r) \/ Abort(r) PROVE Goal
  BY <1>1, <1>6 DEF AdminStep, StatusRead, StatusSave, DeleteUserRead, DeleteUserRow, Abort
<1>7. ASSUME NEW t \in Tokens, Revoke(t) \/ Expire(t) PROVE Goal
  BY <1>1, <1>7 DEF Revoke, Expire
<1> QED BY <1>1, <1>4, <1>5, <1>6, <1>7 DEF Next, vars

\* A refresh that lost to a log-out signs nothing.
THEOREM SignedFromLiveTokens == Spec => SignedFromLiveToken
<1> DEFINE Live == \A a \in access' \ access : rtok'[a.tok] # NoToken
<1>1. IInv /\ [Next]_vars => [Live]_vars
  <2> SUFFICES ASSUME IInv, [Next]_vars, NEW a \in access' \ access PROVE rtok'[a.tok] # NoToken
    OBVIOUS
  <2>1. CASE SignedByRefresh(a)
    BY <2>1 DEF SignedByRefresh
  <2>2. CASE SignedByLogin(a)
    <3>1. PICK r \in Requests : At(r, "login", "issue") /\ rtok'[a.tok].sst = req[r].u.stamp
      BY <2>2 DEF SignedByLogin
    <3>2. req[r].u.stamp # 0
      BY <3>1 DEF At, IInv, Matched, RequestsMatch, CopyMatches
    <3> QED BY <3>1, <3>2 DEF NoToken
  <2> QED BY <2>1, <2>2, SignedAnew DEF IInv
<1> QED BY <1>1, IInvInit, IInvStep, PTL DEF Spec, SignedFromLiveToken

-----------------------------------------------------------------------------
\* A session stamp is absent, its device's present one, or one that a deletion
\* has taken away.
Agreed(d, s)  == s # 0 => d \in Devices /\ s \in retired \cup {device[d]}
AgreesOn(d, s) == s # 0 => d \in Devices /\ s \in retired' \cup {device'[d]}

\* A request that holds a session: a login apart from its candidate, and a
\* refresh, whose token has the device it was issued to.
Holds(q) ==
  /\ q.kind \in {"login", "refresh"} /\ q.step \notin {"upsert", "reread"} => Agreed(q.dev, q.dst)
  /\ q.kind = "refresh" => q.tok \in minted /\ (rtok[q.tok] = NoToken \/ rtok[q.tok].dev = q.dev)

SessionsAgree ==
  /\ \A t \in Tokens : Agreed(rtok[t].dev, rtok[t].dst)
  /\ \A a \in access : Agreed(a.dev, a.dst)
  /\ \A r \in Requests : Holds(req[r])

DeviceInv == Typed /\ Undrawn /\ SessionsAgree

LEMMA AgreeInit == Init => SessionsAgree
<1> SUFFICES ASSUME Init PROVE SessionsAgree
  OBVIOUS
<1>1. \A t \in Tokens : rtok[t].dst = 0
  BY DEF Init, NoToken
<1> QED BY <1>1 DEF Init, SessionsAgree, Agreed, Holds, Idle

\* A device's stamp is only ever set where there was none, or retired.
LEMMA AgreedStays ==
  ASSUME Typed, [Next]_vars
  PROVE  \A d \in AnyDevice, s \in Stamps : Agreed(d, s) => AgreesOn(d, s)
<1> DEFINE Goal == /\ retired \subseteq retired'
                   /\ \A d \in Devices : device[d] = 0 \/ device'[d] = device[d] \/ device[d] \in retired'
<1>0. device \in [Devices -> Stamps]
  BY DEF Typed, TypeOK
<1>1. ASSUME UNCHANGED device, retired \subseteq retired' PROVE Goal
  BY <1>1
<1>2. ASSUME NEW gone \in SUBSET Devices, DeleteDevices(gone) PROVE Goal
  BY <1>0, <1>2 DEF DeleteDevices
<1>3. ASSUME NEW r \in Requests, LoginUpsertDevice(r) PROVE Goal
  BY <1>0, <1>3 DEF LoginUpsertDevice
<1>4. ASSUME NEW r \in Requests, DeleteUserRow(r) PROVE Goal
  BY <1>0, <1>4 DEF DeleteUserRow
<1>5. ASSUME NEW row, SaveUser(row) PROVE retired \subseteq retired'
  BY <1>5 DEF SaveUser
<1>6. ASSUME NEW r \in Requests, LoginStep(r) \/ RefreshStep(r) PROVE Goal
  BY <1>1, <1>3, <1>5, <1>6
  DEF LoginStep, LoginRead, LoginRecover, LoginUpgrade, LoginReadDevice, LoginIssue,
      LoginRereadDevice, RefreshStep, RefreshLookup, RefreshReadUser, RefreshDrop,
      RefreshReadDevice, RefreshBindUser, RefreshBindDevice, RefreshExtend
<1>7. ASSUME NEW r \in Requests, AccountStep(r) PROVE Goal
  <2>1. CASE WipeDevices(r)
    BY <1>2, <2>1 DEF WipeDevices
  <2>2. CASE DeleteDeviceRow(r)
    BY <1>2, <2>2 DEF DeleteDeviceRow, At, Typed, Directed
  <2> QED
    BY <1>1, <1>5, <1>7, <2>1, <2>2
    DEF AccountStep, Authorize, ReadAccount, ChangePasswordSave, SecondFactorSave, ProfileSave,
        RecoverRead, RecoverSave, PurgeTokens, WipeTokens, SignOutAllSave, DeleteDeviceTokens
<1>8. ASSUME NEW r \in Requests, AdminStep(r) \/ Abort(r) PROVE Goal
  BY <1>1, <1>4, <1>5, <1>8 DEF AdminStep, StatusRead, StatusSave, DeleteUserRead, Abort
<1>9. ASSUME NEW t \in Tokens, Revoke(t) \/ Expire(t) PROVE Goal
  BY <1>1, <1>9 DEF Revoke, Expire
<1>10. Goal
  BY <1>1, <1>6, <1>7, <1>8, <1>9 DEF Next, vars
<1> QED BY <1>10 DEF Agreed, AgreesOn

\* How a request comes to hold a session: it begins without one, goes on with
\* the one it has, or reads it from the device's row; its candidate is none.
BeginsWithout(q) == q.kind \notin {"login", "refresh"} \/ (q.kind = "login" /\ q.dst = 0)
BeginsRefresh(q) == /\ q.dst = 0 /\ q.tok \in Tokens /\ rtok[q.tok] # NoToken
                    /\ q.dev = rtok[q.tok].dev /\ rtok' = rtok
GoesOn(p, q) ==
  /\ q.kind = p.kind /\ q.tok = p.tok /\ q.dev = p.dev
  /\ \/ q.dst = p.dst /\ p.step \notin {"upsert", "reread"}
     \/ q.step \in {"upsert", "reread"} /\ p.kind = "login"
     \/ q.dst = device[p.dev] /\ p.dev \in Devices /\ UNCHANGED <<device, retired>>
HoldMove(r) == \/ req'[r] = req[r] \/ BeginsWithout(req'[r])
               \/ BeginsRefresh(req'[r]) \/ GoesOn(req[r], req'[r])

LEMMA HoldMoves ==
  ASSUME Typed, [Next]_vars, NEW r \in Requests
  PROVE  HoldMove(r)
<1>0. req \in [Requests -> Request] /\ req[r] \in Request
  BY DEF Typed, TypeOK
<1>s. ASSUME NEW q \in Requests, NEW x, req' = [req EXCEPT ![q] = x],
             BeginsWithout(x) \/ BeginsRefresh(x) \/ GoesOn(req[q], x)
      PROVE  HoldMove(r)
  BY <1>0, <1>s DEF HoldMove
<1>1. ASSUME NEW q \in Requests, Finish(q) PROVE HoldMove(r)
  <2>1. BeginsWithout(Idle)
    BY DEF BeginsWithout, Idle
  <2> QED BY <1>s, <1>1, <2>1 DEF Finish
<1>2. ASSUME NEW q \in Requests, NEW s \in Steps, Goto(q, s),
             \/ req[q].step \notin {"upsert", "reread"}
             \/ s = "reread" /\ req[q].kind = "login"
      PROVE  HoldMove(r)
  <2> DEFINE x == [req[q] EXCEPT !.step = s]
  <2>1. GoesOn(req[q], x)
    BY <1>0, <1>2 DEF GoesOn, Request
  <2>2. req' = [req EXCEPT ![q] = x]
    BY <1>0, <1>2 DEF Goto
  <2> QED BY <1>s, <2>1, <2>2
<1>3. ASSUME UNCHANGED req PROVE HoldMove(r)
  BY <1>3 DEF HoldMove
<1>4. ASSUME NEW q \in Requests, NEW kind, NEW local \in Request, Start(q, kind, local),
             kind # "refresh", local.dst = 0
      PROVE  HoldMove(r)
  <2> DEFINE x == [local EXCEPT !.kind = kind]
  <2>1. BeginsWithout(x)
    BY <1>4 DEF BeginsWithout, Request
  <2> HIDE DEF x
  <2> QED BY <1>s, <1>4, <2>1 DEF Start, x
<1>5. ASSUME NEW q \in Requests, LoginStep(q) PROVE HoldMove(r)
  <2>1. ASSUME NEW d \in AnyDevice, LoginRead(q, d) PROVE HoldMove(r)
    <3>1. PICK step \in {"upgrade", "recover"} :
            Start(q, "login", [Idle EXCEPT !.step = step, !.u = user, !.dev = d])
      BY <2>1 DEF LoginRead
    <3>2. [Idle EXCEPT !.step = step, !.u = user, !.dev = d] \in Request
      BY IdleType DEF Request, Steps, Typed, TypeOK
    <3> QED BY <1>4, <3>1, <3>2 DEF Idle
  <2>2. CASE LoginRecover(q)
    <3> DEFINE x == [req[q] EXCEPT !.u = [req[q].u EXCEPT !.stamp = stamps + 1], !.step = "purge"]
    <3>1. req' = [req EXCEPT ![q] = x]
      BY <1>0, <2>2 DEF LoginRecover
    <3>2. GoesOn(req[q], x)
      BY <1>0, <2>2 DEF LoginRecover, At, GoesOn, Request
    <3> QED BY <1>s, <3>1, <3>2
  <2>3. CASE LoginUpgrade(q)
    <3>1. PICK l, s : req' = [req EXCEPT ![q] = [req[q] EXCEPT !.u.legacy = l, !.step = s]]
      BY <1>0, <2>3 DEF LoginUpgrade
    <3>2. GoesOn(req[q], [req[q] EXCEPT !.u.legacy = l, !.step = s])
      BY <1>0, <2>3 DEF LoginUpgrade, At, GoesOn, Request
    <3> QED BY <1>s, <3>1, <3>2
  <2>4. CASE LoginReadDevice(q)
    <3>1. PICK c : req' = [req EXCEPT ![q] = [req[q] EXCEPT !.dst = c, !.step = "upsert"]]
      BY <1>0, <2>4 DEF LoginReadDevice
    <3>2. GoesOn(req[q], [req[q] EXCEPT !.dst = c, !.step = "upsert"])
      BY <1>0, <2>4 DEF LoginReadDevice, At, GoesOn, Request
    <3> QED BY <1>s, <3>1, <3>2
  <2>5. CASE LoginUpsertDevice(q)
    BY <1>1, <1>2, <2>5 DEF LoginUpsertDevice, At, Steps
  <2>6. CASE LoginRereadDevice(q)
    <3> DEFINE x == [req[q] EXCEPT !.dst = device[req[q].dev], !.step = "issue"]
    <3>1. GoesOn(req[q], x)
      BY <1>0, <2>6 DEF LoginRereadDevice, At, GoesOn, Request, Typed, Directed
    <3>2. req' = [req EXCEPT ![q] = x] \/ Finish(q)
      BY <1>0, <2>6 DEF LoginRereadDevice
    <3> QED BY <1>1, <1>s, <3>1, <3>2
  <2>7. CASE LoginIssue(q)
    BY <1>1, <2>7 DEF LoginIssue
  <2> QED BY <1>5, <2>1, <2>2, <2>3, <2>4, <2>5, <2>6, <2>7 DEF LoginStep
<1>6. ASSUME NEW q \in Requests, RefreshStep(q) PROVE HoldMove(r)
  <2>1. ASSUME NEW t \in Tokens, RefreshLookup(q, t) PROVE HoldMove(r)
    <3> DEFINE local == [Idle EXCEPT !.step = "read", !.tok = t, !.rec = rtok[t], !.dev = rtok[t].dev]
               x == [local EXCEPT !.kind = "refresh"]
    <3>1. BeginsRefresh(x)
      BY <2>1 DEF RefreshLookup, BeginsRefresh, Idle
    <3>2. req' = [req EXCEPT ![q] = x]
      BY <2>1 DEF RefreshLookup, Start
    <3> QED BY <1>s, <3>1, <3>2
  <2>2. CASE RefreshReadUser(q)
    <3>1. PICK s : req' = [req EXCEPT ![q] = [req[q] EXCEPT !.u = user, !.step = s]]
      BY <1>0, <2>2 DEF RefreshReadUser
    <3>2. GoesOn(req[q], [req[q] EXCEPT !.u = user, !.step = s])
      BY <1>0, <2>2 DEF RefreshReadUser, At, GoesOn, Request
    <3> QED BY <1>s, <3>1, <3>2
  <2>3. CASE RefreshReadDevice(q)
    <3>1. PICK s : req' = [req EXCEPT ![q] = [req[q] EXCEPT !.dst = device[req[q].dev], !.step = s]]
      BY <1>0, <2>3 DEF RefreshReadDevice
    <3>2. GoesOn(req[q], [req[q] EXCEPT !.dst = device[req[q].dev], !.step = s])
      BY <1>0, <2>3 DEF RefreshReadDevice, At, GoesOn, Request, Typed, Directed
    <3> QED BY <1>s, <3>1, <3>2
  <2>4. CASE RefreshBindUser(q) \/ RefreshBindDevice(q)
    BY <1>2, <2>4 DEF RefreshBindUser, RefreshBindDevice, At, Steps
  <2>5. CASE RefreshDrop(q) \/ RefreshExtend(q)
    BY <1>1, <2>5 DEF RefreshDrop, RefreshExtend
  <2> QED BY <1>6, <2>1, <2>2, <2>3, <2>4, <2>5 DEF RefreshStep
<1>7. ASSUME NEW q \in Requests, AccountStep(q) PROVE HoldMove(r)
  <2>1. ASSUME NEW kind \in AccountKinds, Authorize(q, kind) PROVE HoldMove(r)
    <3> DEFINE local(d) == [Idle EXCEPT !.dev = d,
                  !.step = IF kind = "deleteDevice" THEN "deleteTokens" ELSE "read"]
    <3>1. PICK d \in AnyDevice : Start(q, kind, local(d))
      BY <2>1 DEF Authorize
    <3>2. local(d) \in Request /\ local(d).dst = 0
      BY IdleType DEF Request, Steps, AnyDevice, Idle
    <3> HIDE DEF local
    <3> QED BY <1>4, <3>1, <3>2 DEF AccountKinds
  <2>2. CASE ReadAccount(q)
    <3>1. ASSUME NEW s, req' = [req EXCEPT ![q] = [req[q] EXCEPT !.u = user, !.step = s]]
          PROVE  HoldMove(r)
      <4>1. GoesOn(req[q], [req[q] EXCEPT !.u = user, !.step = s])
        BY <1>0, <2>2 DEF ReadAccount, GoesOn, Request
      <4> QED BY <1>s, <3>1, <4>1
    <3> QED BY <1>0, <1>1, <2>2, <3>1 DEF ReadAccount
  <2>3. CASE PurgeTokens(q)
    BY <1>1, <1>2, <2>3 DEF PurgeTokens, Steps
  <2>4. CASE RecoverRead(q)
    <3>1. Start(q, "recover", [Idle EXCEPT !.step = "save", !.u = user])
      BY <2>4 DEF RecoverRead
    <3>2. [Idle EXCEPT !.step = "save", !.u = user] \in Request
      BY IdleType DEF Request, Steps, Typed, TypeOK
    <3> QED BY <1>4, <3>1, <3>2 DEF Idle
  <2>5. CASE ChangePasswordSave(q) \/ SecondFactorSave(q) \/ RecoverSave(q) \/ DeleteDeviceTokens(q)
    BY <1>2, <2>5 DEF ChangePasswordSave, SecondFactorSave, RecoverSave, DeleteDeviceTokens, At, Steps
  <2>6. CASE WipeTokens(q) \/ WipeDevices(q)
    BY <1>2, <2>6 DEF WipeTokens, WipeDevices, Steps
  <2> QED
    BY <1>1, <1>7, <2>1, <2>2, <2>3, <2>4, <2>5, <2>6
    DEF AccountStep, ProfileSave, SignOutAllSave, DeleteDeviceRow
<1>8. ASSUME NEW q \in Requests, AdminStep(q) PROVE HoldMove(r)
  <2>1. CASE StatusRead(q)
    <3>1. PICK b \in BOOLEAN : Start(q, "status", [Idle EXCEPT !.step = "save", !.u = [user EXCEPT !.active = b]])
      BY <2>1 DEF StatusRead
    <3>2. [user EXCEPT !.active = b] \in UserRow
      BY DEF Typed, TypeOK, UserRow
    <3>3. [Idle EXCEPT !.step = "save", !.u = [user EXCEPT !.active = b]] \in Request
      BY <3>2, IdleType DEF Request, Steps
    <3> QED BY <1>4, <3>1, <3>3 DEF Idle
  <2>2. CASE DeleteUserRead(q)
    <3>1. Start(q, "deleteUser", [Idle EXCEPT !.step = "purge"])
      BY <2>2 DEF DeleteUserRead
    <3>2. [Idle EXCEPT !.step = "purge"] \in Request
      BY IdleType DEF Request, Steps
    <3> QED BY <1>4, <3>1, <3>2 DEF Idle
  <2>3. CASE StatusSave(q)
    BY <1>1, <1>2, <2>3 DEF StatusSave, At, Steps
  <2>4. CASE DeleteUserRow(q)
    BY <1>1, <2>4 DEF DeleteUserRow
  <2> QED BY <1>8, <2>1, <2>2, <2>3, <2>4 DEF AdminStep
<1>9. ASSUME NEW t \in Tokens, Revoke(t) \/ Expire(t) PROVE HoldMove(r)
  BY <1>3, <1>9 DEF Revoke, Expire
<1> QED BY <1>1, <1>3, <1>5, <1>6, <1>7, <1>8, <1>9 DEF Next, Abort, vars

LEMMA AgreeStep == DeviceInv /\ [Next]_vars => SessionsAgree'
<1> SUFFICES ASSUME DeviceInv, [Next]_vars PROVE SessionsAgree'
  OBVIOUS
<1>0. /\ rtok \in [Tokens -> TokenRow] /\ req \in [Requests -> Request]
      /\ access \subseteq AccessToken /\ Typed /\ Undrawn /\ SessionsAgree /\ Typed'
  BY TypeStep DEF DeviceInv, Typed, TypeOK
<1>1. \A d \in AnyDevice, s \in Stamps : Agreed(d, s) => AgreesOn(d, s)
  BY <1>0, AgreedStays
<1>2. minted \subseteq minted' /\ \A t \in Tokens : RowMove(t)
  BY <1>0, RowMoves
<1>3. ASSUME NEW r \in Requests
      PROVE  req[r].kind \in {"login", "refresh"} /\ req[r].step \notin {"upsert", "reread"} =>
               AgreesOn(req[r].dev, req[r].dst)
  BY <1>0, <1>1 DEF SessionsAgree, Holds, Request
<1>4. ASSUME NEW t \in Tokens PROVE AgreesOn(rtok'[t].dev, rtok'[t].dst)
  <2>1. Agreed(rtok[t].dev, rtok[t].dst) /\ rtok[t].dev \in AnyDevice /\ rtok[t].dst \in Stamps
    BY <1>0 DEF SessionsAgree, TokenRow
  <2>2. CASE rtok'[t].dev = rtok[t].dev /\ rtok'[t].dst = rtok[t].dst
    BY <1>1, <2>1, <2>2 DEF Agreed, AgreesOn
  <2>3. CASE Deleted(t)
    BY <2>3 DEF Deleted, NoToken, Agreed, AgreesOn
  <2>4. CASE Drawn(t)
    BY <1>3, <2>4 DEF Drawn, At, Agreed, AgreesOn
  <2>5. CASE Bind(t)
    <3>1. ASSUME NEW r \in Requests, At(r, "refresh", "bindDevice"), req[r].tok = t,
                 rtok'[t].dst = req[r].dst
          PROVE  AgreesOn(rtok'[t].dev, rtok'[t].dst)
      <4>1. rtok'[t].dev = req[r].dev
        BY <1>0, <2>5, <3>1 DEF Bind, At, SessionsAgree, Holds
      <4> QED BY <1>3, <3>1, <4>1 DEF At, Agreed, AgreesOn
    <3> QED BY <2>2, <2>5, <3>1 DEF Bind
  <2> QED BY <1>2, <2>2, <2>3, <2>4, <2>5 DEF RowMove
<1>5. ASSUME NEW a \in access' PROVE AgreesOn(a.dev, a.dst)
  <2>1. CASE a \in access
    BY <1>0, <1>1, <2>1 DEF SessionsAgree, AccessToken
  <2>2. CASE SignedByLogin(a) \/ SignedByRefresh(a)
    BY <1>3, <2>2 DEF SignedByLogin, SignedByRefresh, At, Agreed, AgreesOn
  <2> QED BY <1>0, <2>1, <2>2, SignedAnew
<1>6. ASSUME NEW r \in Requests PROVE Holds(req[r])'
  <2> DEFINE q == req'[r]
  <2>0. Holds(req[r]) /\ req[r].kind = "refresh" => req[r].tok \in Tokens
    BY <1>0 DEF SessionsAgree, Typed, Directed
  <2>1. \* The token of a refresh stays the one of its device.
        ASSUME q.kind = "refresh", q.tok = req[r].tok, q.dev = req[r].dev, req[r].kind = "refresh"
        PROVE  q.tok \in minted' /\ (rtok'[q.tok] = NoToken \/ rtok'[q.tok].dev = q.dev)
    <3> DEFINE t == req[r].tok
    <3>1. t \in Tokens /\ t \in minted /\ (rtok[t] = NoToken \/ rtok[t].dev = req[r].dev)
      BY <1>0, <2>1 DEF SessionsAgree, Holds, Typed, Directed
    <3>2. RowMove(t)
      BY <1>2, <3>1
    <3> HIDE DEF t
    <3>3. rtok'[t] = NoToken \/ rtok'[t].dev = req[r].dev
      BY <3>1, <3>2 DEF RowMove, Deleted, Drawn, Bind
    <3> QED BY <1>2, <2>1, <3>1, <3>3 DEF t
  <2>2. CASE q = req[r]
    BY <1>3, <2>1, <2>2 DEF Holds, Agreed, AgreesOn
  <2>3. CASE BeginsWithout(q)
    BY <2>3 DEF BeginsWithout, Holds, Agreed, AgreesOn
  <2>4. CASE BeginsRefresh(q)
    <3>1. q.tok \in minted
      BY <1>0, <2>4 DEF BeginsRefresh, Undrawn
    <3> QED BY <1>2, <2>4, <3>1 DEF BeginsRefresh, Holds, Agreed, AgreesOn
  <2>5. CASE GoesOn(req[r], q)
    <3>1. q.kind = "refresh" => q.tok \in minted' /\ (rtok'[q.tok] = NoToken \/ rtok'[q.tok].dev = q.dev)
      BY <2>1, <2>5 DEF GoesOn
    <3>2. ASSUME q.kind \in {"login", "refresh"}, q.step \notin {"upsert", "reread"}
          PROVE  AgreesOn(q.dev, q.dst)
      <4>1. CASE q.dst = req[r].dst /\ req[r].step \notin {"upsert", "reread"}
        BY <1>3, <2>5, <3>2, <4>1 DEF GoesOn, Agreed, AgreesOn
      <4>2. CASE q.dst = device[req[r].dev] /\ req[r].dev \in Devices /\ UNCHANGED <<device, retired>>
        BY <2>5, <4>2 DEF GoesOn, Agreed, AgreesOn
      <4> QED BY <2>5, <3>2, <4>1, <4>2 DEF GoesOn
    <3> QED BY <3>1, <3>2 DEF Holds, Agreed, AgreesOn
  <2> HIDE DEF q
  <2>6. HoldMove(r)
    BY <1>0, HoldMoves
  <2> QED BY <2>2, <2>3, <2>4, <2>5, <2>6 DEF HoldMove, q
<1> QED BY <1>4, <1>5, <1>6 DEF SessionsAgree, Agreed, AgreesOn

\* Log-ins and refreshes of one device settle on one session: what they hand
\* out is the stamp in the device's row, or one that a removal retired.
THEOREM DeviceSessionsAgree == Spec => []DeviceSessionAgreed
<1>1. Init => DeviceInv
  BY TypeInit, UndrawnInit, AgreeInit DEF DeviceInv
<1>2. DeviceInv /\ [Next]_vars => DeviceInv'
  BY TypeStep, UndrawnStep, AgreeStep DEF DeviceInv
<1>3. DeviceInv => DeviceSessionAgreed
  BY DEF DeviceInv, SessionsAgree, Agreed, AgreesOn, DeviceSessionAgreed
<1> QED BY <1>1, <1>2, <1>3, PTL DEF Spec

-----------------------------------------------------------------------------
(* Sessions implements SessionLife.                                        *)

\* The row of a session opened by a log-in is complete.
Complete(x) == x.sst # 0 /\ (x.dst = 0 <=> x.dev = NoDevice)

\* A log-in has no session before it has looked at the device, and after it
\* one if there is a device.
LoginReady(q) == q.kind = "login" =>
  /\ q.step \in {"recover", "purge", "upgrade"} => q.dst = 0
  /\ q.step = "issue" => (q.dst = 0 <=> q.dev = NoDevice)

\* A refresh of such a session goes on only under the stamps of its record.
RefreshReady(q) == q.kind = "refresh" =>
  /\ q.dev = q.rec.dev
  /\ q.step = "read" => q.dst = 0
  /\ q.step \notin {"purge", "issue", "upgrade", "recover", "upsert", "reread"}
  /\ q.tok \notin LegacyTokens =>
       /\ Complete(q.rec)
       /\ q.step \notin {"bindUser", "bindDevice"}
       /\ q.step \in {"device", "extend"} => q.u.stamp = q.rec.sst
       /\ q.step = "extend" => q.dst = q.rec.dst

\* Its record is the row, as long as there is one.
RecordIsRow(q) ==
  q.kind = "refresh" /\ q.tok \notin LegacyTokens /\ rtok[q.tok] # NoToken => MarkOf(q.rec) = MarkOf(rtok[q.tok])

LifeReady ==
  /\ LegacyTokens \subseteq minted
  /\ \A t \in Tokens \ LegacyTokens : rtok[t] # NoToken => Complete(rtok[t])
  /\ \A r \in Requests : LoginReady(req[r]) /\ RefreshReady(req[r]) /\ RecordIsRow(req[r])

LEMMA ReadyInit == Init => LifeReady
<1> SUFFICES ASSUME Init PROVE LifeReady
  OBVIOUS
<1>1. LoginReady(Idle) /\ RefreshReady(Idle) /\ Idle.kind = "none"
  BY DEF LoginReady, RefreshReady, Idle
<1>2. \A t \in Tokens \ LegacyTokens : rtok[t] = NoToken
  BY DEF Init
<1> QED BY <1>1, <1>2 DEF Init, LifeReady, RecordIsRow

\* How the record of a request moves: it stays ready, and a refresh keeps its
\* token and record, or has just read them from the table.
CallMove(r) ==
  \/ req'[r] = req[r]
  \/ /\ LoginReady(req'[r]) /\ RefreshReady(req'[r])
     /\ req'[r].kind = "refresh" =>
          \/ /\ req[r].kind = "refresh"
             /\ req'[r].tok = req[r].tok /\ req'[r].rec = req[r].rec
          \/ rtok' = rtok /\ req'[r].rec = rtok[req'[r].tok]

LEMMA CallMoves ==
  ASSUME Typed, LifeReady, [Next]_vars, NEW r \in Requests
  PROVE  CallMove(r)
<1>0. req \in [Requests -> Request] /\ req[r] \in Request
  BY DEF Typed, TypeOK
<1>r. \A q \in Requests : LoginReady(req[q]) /\ RefreshReady(req[q]) /\ req[q] \in Request
  BY <1>0 DEF LifeReady
<1>s. ASSUME NEW q \in Requests, NEW x, req' = [req EXCEPT ![q] = x], LoginReady(x),
             x.kind = "refresh" =>
               /\ req[q].kind = "refresh" /\ RefreshReady(x)
               /\ x.tok = req[q].tok /\ x.rec = req[q].rec
      PROVE  CallMove(r)
  BY <1>0, <1>s DEF CallMove, RefreshReady
<1>1. ASSUME NEW q \in Requests, Finish(q) PROVE CallMove(r)
  BY <1>s, <1>1 DEF Finish, LoginReady, Idle
<1>2. ASSUME NEW q \in Requests, NEW s \in Steps, Goto(q, s),
             req[q].kind \notin {"login", "refresh"}
      PROVE  CallMove(r)
  <2> DEFINE x == [req[q] EXCEPT !.step = s]
  <2>1. x.kind = req[q].kind
    BY <1>r DEF Request
  <2>2. req' = [req EXCEPT ![q] = x]
    BY <1>0, <1>2 DEF Goto
  <2> HIDE DEF x
  <2> QED BY <1>s, <1>2, <2>1, <2>2 DEF LoginReady
<1>3. ASSUME UNCHANGED req PROVE CallMove(r)
  BY <1>3 DEF CallMove
<1>4. ASSUME NEW q \in Requests, NEW kind, NEW local \in Request, Start(q, kind, local),
             kind \notin {"login", "refresh"}
      PROVE  CallMove(r)
  <2> DEFINE x == [local EXCEPT !.kind = kind]
  <2>1. x.kind = kind
    BY DEF Request
  <2> HIDE DEF x
  <2> QED BY <1>s, <1>4, <2>1 DEF Start, x, LoginReady
<1>5. ASSUME NEW q \in Requests, LoginStep(q) PROVE CallMove(r)
  <2>1. ASSUME NEW d \in AnyDevice, LoginRead(q, d) PROVE CallMove(r)
    <3>1. PICK step \in {"upgrade", "recover"} :
            Start(q, "login", [Idle EXCEPT !.step = step, !.u = user, !.dev = d])
      BY <2>1 DEF LoginRead
    <3> DEFINE x == [[Idle EXCEPT !.step = step, !.u = user, !.dev = d] EXCEPT !.kind = "login"]
    <3>2. LoginReady(x) /\ x.kind = "login"
      BY DEF LoginReady, Idle
    <3> QED BY <1>s, <3>1, <3>2 DEF Start
  <2>2. CASE LoginRecover(q)
    <3> DEFINE x == [req[q] EXCEPT !.u = [req[q].u EXCEPT !.stamp = stamps + 1], !.step = "purge"]
    <3>1. req' = [req EXCEPT ![q] = x]
      BY <1>0, <2>2 DEF LoginRecover
    <3>2. LoginReady(x) /\ x.kind = "login"
      BY <1>r, <2>2 DEF LoginRecover, At, LoginReady, Request
    <3> QED BY <1>s, <3>1, <3>2
  <2>3. CASE LoginUpgrade(q)
    <3>1. PICK l, s : /\ req' = [req EXCEPT ![q] = [req[q] EXCEPT !.u.legacy = l, !.step = s]]
                      /\ s = IF req[q].dev = NoDevice THEN "issue" ELSE "device"
      BY <1>0, <2>3 DEF LoginUpgrade
    <3> DEFINE x == [req[q] EXCEPT !.u.legacy = l, !.step = s]
    <3>2. /\ x.kind = "login" /\ x.step = s /\ x.dst = req[q].dst /\ x.dev = req[q].dev
          /\ req[q].dst = 0
      BY <1>r, <2>3 DEF LoginUpgrade, At, LoginReady, Request
    <3>3. LoginReady(x)
      BY <3>1, <3>2 DEF LoginReady
    <3> QED BY <1>s, <3>1, <3>2, <3>3
  <2>4. CASE LoginReadDevice(q)
    <3>1. PICK c : req' = [req EXCEPT ![q] = [req[q] EXCEPT !.dst = c, !.step = "upsert"]]
      BY <1>0, <2>4 DEF LoginReadDevice
    <3> DEFINE x == [req[q] EXCEPT !.dst = c, !.step = "upsert"]
    <3>2. LoginReady(x) /\ x.kind = "login"
      BY <1>r, <2>4 DEF LoginReadDevice, At, LoginReady, Request
    <3> QED BY <1>s, <3>1, <3>2
  <2>5. CASE LoginUpsertDevice(q)
    <3> DEFINE x == [req[q] EXCEPT !.step = "reread"]
    <3>1. LoginReady(x) /\ x.kind = "login"
      BY <1>r, <2>5 DEF LoginUpsertDevice, At, LoginReady, Request
    <3>2. req' = [req EXCEPT ![q] = x] \/ Finish(q)
      BY <1>0, <2>5 DEF LoginUpsertDevice, Goto
    <3> QED BY <1>1, <1>s, <3>1, <3>2
  <2>6. CASE LoginRereadDevice(q)
    <3> DEFINE found == device[req[q].dev]
               x == [req[q] EXCEPT !.dst = found, !.step = "issue"]
    <3>1. /\ x.kind = "login" /\ x.dst = found /\ x.dev = req[q].dev /\ x.dev # NoDevice
      BY <1>r, <2>6, ConstantsAssumption
      DEF LoginRereadDevice, At, Request, Typed, Directed
    <3>2. found # 0 => LoginReady(x)
      BY <3>1 DEF LoginReady
    <3>3. (found # 0 /\ req' = [req EXCEPT ![q] = x]) \/ Finish(q)
      BY <1>0, <2>6 DEF LoginRereadDevice
    <3> HIDE DEF x, found
    <3> QED BY <1>1, <1>s, <3>1, <3>2, <3>3
  <2>7. CASE LoginIssue(q)
    BY <1>1, <2>7 DEF LoginIssue
  <2> QED BY <1>5, <2>1, <2>2, <2>3, <2>4, <2>5, <2>6, <2>7 DEF LoginStep
<1>6. ASSUME NEW q \in Requests, RefreshStep(q) PROVE CallMove(r)
  <2>0. ASSUME NEW x, req' = [req EXCEPT ![q] = x], req[q].kind = "refresh", x.kind = "refresh",
               x.tok = req[q].tok, x.rec = req[q].rec, RefreshReady(x)
        PROVE  CallMove(r)
    BY <1>s, <2>0 DEF LoginReady
  <2>1. ASSUME NEW t \in Tokens, RefreshLookup(q, t) PROVE CallMove(r)
    <3> DEFINE x == [[Idle EXCEPT !.step = "read", !.tok = t, !.rec = rtok[t], !.dev = rtok[t].dev]
                       EXCEPT !.kind = "refresh"]
    <3>1. /\ x.kind = "refresh" /\ x.step = "read" /\ x.tok = t /\ x.rec = rtok[t]
          /\ x.dev = rtok[t].dev /\ x.dst = 0
      BY DEF Idle
    <3>2. req' = [req EXCEPT ![q] = x] /\ rtok' = rtok /\ rtok[t] # NoToken
      BY <2>1 DEF RefreshLookup, Start
    <3> HIDE DEF x
    <3>3. LoginReady(x) /\ RefreshReady(x)
      BY <3>1, <3>2 DEF LoginReady, RefreshReady, LifeReady
    <3> QED BY <1>0, <3>1, <3>2, <3>3 DEF CallMove
  <2>2. CASE RefreshReadUser(q)
    <3> DEFINE rec == req[q].rec
               s == IF ~user.active \/ (rec.sst # 0 /\ rec.sst # user.stamp) THEN "drop"
                    ELSE IF rec.sst = 0 THEN "bindUser"
                    ELSE IF req[q].dev = NoDevice THEN "extend" ELSE "device"
               x == [req[q] EXCEPT !.u = user, !.step = s]
    <3>1. req' = [req EXCEPT ![q] = x] /\ req[q].kind = "refresh" /\ req[q].step = "read"
      BY <1>0, <2>2 DEF RefreshReadUser, At
    <3>2. /\ x.kind = "refresh" /\ x.tok = req[q].tok /\ x.rec = rec /\ x.dev = req[q].dev
          /\ x.dst = req[q].dst /\ x.u = user /\ x.step = s
      BY <1>r, <3>1 DEF Request
    <3> HIDE DEF x
    <3>3. RefreshReady(x)
      BY <1>r, <3>1, <3>2 DEF RefreshReady, Complete
    <3> QED BY <2>0, <3>1, <3>2, <3>3
  <2>3. CASE RefreshReadDevice(q)
    <3> DEFINE found == device[req[q].dev]
               bound == req[q].rec.dst
               s == IF found = 0 \/ (bound # 0 /\ found # bound) THEN "drop"
                    ELSE IF bound = 0 THEN "bindDevice" ELSE "extend"
               x == [req[q] EXCEPT !.dst = found, !.step = s]
    <3>1. req' = [req EXCEPT ![q] = x] /\ req[q].kind = "refresh" /\ req[q].step = "device"
      BY <1>0, <2>3 DEF RefreshReadDevice, At
    <3>2. /\ x.kind = "refresh" /\ x.tok = req[q].tok /\ x.rec = req[q].rec /\ x.dev = req[q].dev
          /\ x.dst = found /\ x.u = req[q].u /\ x.step = s
      BY <1>r, <3>1 DEF Request
    <3>3. req[q].dev # NoDevice
      BY <3>1, ConstantsAssumption DEF Typed, Directed
    <3> HIDE DEF x
    <3>4. RefreshReady(x)
      BY <1>r, <3>1, <3>2, <3>3 DEF RefreshReady, Complete
    <3> QED BY <2>0, <3>1, <3>2, <3>4
  <2>4. CASE RefreshBindUser(q) \/ RefreshBindDevice(q)
    <3>1. /\ req[q].kind = "refresh" /\ req[q].step \in {"bindUser", "bindDevice"}
          /\ \E s \in {"extend", "device"} : req' = [req EXCEPT ![q] = [req[q] EXCEPT !.step = s]]
      BY <1>0, <2>4 DEF RefreshBindUser, RefreshBindDevice, At, Goto
    <3>2. PICK s \in {"extend", "device"} : req' = [req EXCEPT ![q] = [req[q] EXCEPT !.step = s]]
      BY <3>1
    <3> DEFINE x == [req[q] EXCEPT !.step = s]
    <3>3. /\ x.kind = "refresh" /\ x.tok = req[q].tok /\ x.rec = req[q].rec /\ x.dev = req[q].dev
          /\ x.step = s
      BY <1>r, <3>1 DEF Request
    <3> HIDE DEF x
    <3>4. RefreshReady(x)
      BY <1>r, <3>1, <3>3 DEF RefreshReady
    <3> QED BY <2>0, <3>1, <3>2, <3>3, <3>4 DEF x
  <2>5. CASE RefreshDrop(q) \/ RefreshExtend(q)
    BY <1>1, <2>5 DEF RefreshDrop, RefreshExtend
  <2> QED BY <1>6, <2>1, <2>2, <2>3, <2>4, <2>5 DEF RefreshStep
<1>7. ASSUME NEW q \in Requests, AccountStep(q) PROVE CallMove(r)
  <2>1. ASSUME NEW kind \in AccountKinds, Authorize(q, kind) PROVE CallMove(r)
    <3> DEFINE local(d) == [Idle EXCEPT !.dev = d,
                  !.step = IF kind = "deleteDevice" THEN "deleteTokens" ELSE "read"]
    <3>1. PICK d \in AnyDevice : Start(q, kind, local(d))
      BY <2>1 DEF Authorize
    <3>2. local(d) \in Request
      BY IdleType DEF Request, Steps, AnyDevice, Idle
    <3> HIDE DEF local
    <3> QED BY <1>4, <3>1, <3>2 DEF AccountKinds
  <2>2. CASE ReadAccount(q)
    <3>1. ASSUME NEW s, req' = [req EXCEPT ![q] = [req[q] EXCEPT !.u = user, !.step = s]]
          PROVE  CallMove(r)
      <4> DEFINE x == [req[q] EXCEPT !.u = user, !.step = s]
      <4>1. x.kind = req[q].kind /\ req[q].kind \notin {"login", "refresh"}
        BY <1>r, <2>2 DEF ReadAccount, AccountKinds, Request
      <4> HIDE DEF x
      <4> QED BY <1>s, <3>1, <4>1 DEF LoginReady, x
    <3> QED BY <1>0, <1>1, <2>2, <3>1 DEF ReadAccount
  <2>3. CASE PurgeTokens(q)
    <3>1. CASE req[q].kind = "login"
      <4> DEFINE x == [req[q] EXCEPT !.step = "upgrade"]
      <4>1. req' = [req EXCEPT ![q] = x] /\ req[q].step = "purge"
        BY <1>0, <2>3, <3>1 DEF PurgeTokens, Goto
      <4>2. LoginReady(x) /\ x.kind = "login"
        BY <1>r, <3>1, <4>1 DEF LoginReady, Request
      <4> QED BY <1>s, <4>1, <4>2
    <3>2. CASE req[q].kind = "deleteUser"
      BY <1>2, <2>3, <3>2 DEF PurgeTokens, Steps
    <3>3. CASE req[q].kind \notin {"login", "deleteUser"}
      BY <1>1, <2>3, <3>3 DEF PurgeTokens
    <3> QED BY <3>1, <3>2, <3>3
  <2>4. CASE RecoverRead(q)
    <3>1. Start(q, "recover", [Idle EXCEPT !.step = "save", !.u = user])
      BY <2>4 DEF RecoverRead
    <3>2. [Idle EXCEPT !.step = "save", !.u = user] \in Request
      BY IdleType DEF Request, Steps, Typed, TypeOK
    <3> QED BY <1>4, <3>1, <3>2
  <2>5. CASE ChangePasswordSave(q) \/ SecondFactorSave(q) \/ RecoverSave(q) \/ DeleteDeviceTokens(q)
    BY <1>2, <2>5 DEF ChangePasswordSave, SecondFactorSave, RecoverSave, DeleteDeviceTokens, At, Steps
  <2>6. CASE WipeTokens(q) \/ WipeDevices(q)
    BY <1>2, <2>6 DEF WipeTokens, WipeDevices, Steps
  <2> QED
    BY <1>1, <1>7, <2>1, <2>2, <2>3, <2>4, <2>5, <2>6
    DEF AccountStep, ProfileSave, SignOutAllSave, DeleteDeviceRow
<1>8. ASSUME NEW q \in Requests, AdminStep(q) PROVE CallMove(r)
  <2>1. CASE StatusRead(q)
    <3>1. PICK b \in BOOLEAN :
            Start(q, "status", [Idle EXCEPT !.step = "save", !.u = [user EXCEPT !.active = b]])
      BY <2>1 DEF StatusRead
    <3>2. [user EXCEPT !.active = b] \in UserRow
      BY DEF Typed, TypeOK, UserRow
    <3>3. [Idle EXCEPT !.step = "save", !.u = [user EXCEPT !.active = b]] \in Request
      BY <3>2, IdleType DEF Request, Steps
    <3> QED BY <1>4, <3>1, <3>3
  <2>2. CASE DeleteUserRead(q)
    <3>1. Start(q, "deleteUser", [Idle EXCEPT !.step = "purge"])
      BY <2>2 DEF DeleteUserRead
    <3>2. [Idle EXCEPT !.step = "purge"] \in Request
      BY IdleType DEF Request, Steps
    <3> QED BY <1>4, <3>1, <3>2
  <2>3. CASE StatusSave(q)
    BY <1>1, <1>2, <2>3 DEF StatusSave, At, Steps
  <2>4. CASE DeleteUserRow(q)
    BY <1>1, <2>4 DEF DeleteUserRow
  <2> QED BY <1>8, <2>1, <2>2, <2>3, <2>4 DEF AdminStep
<1>9. ASSUME NEW t \in Tokens, Revoke(t) \/ Expire(t) PROVE CallMove(r)
  BY <1>3, <1>9 DEF Revoke, Expire
<1> QED BY <1>1, <1>3, <1>5, <1>6, <1>7, <1>8, <1>9 DEF Next, Abort, vars

LifeInv == IInv /\ DeviceInv /\ LifeReady

\* The row of a log-in's session is inserted complete, and keeps its stamps.
LEMMA StampsStay ==
  ASSUME LifeInv, [Next]_vars, NEW t \in Tokens \ LegacyTokens,
         rtok[t] # NoToken, rtok'[t] # NoToken
  PROVE  MarkOf(rtok'[t]) = MarkOf(rtok[t])
<1>1. /\ Complete(rtok[t]) /\ t \in minted
      /\ rtok[t] \in TokenRow /\ RowMove(t)
  BY RowMoves DEF LifeInv, DeviceInv, Undrawn, LifeReady, Typed, TypeOK
<1>2. CASE Bind(t)
  <2>1. \A r \in Requests : At(r, "refresh", "bindDevice") => req[r].tok # t
    BY DEF At, LifeInv, LifeReady, RefreshReady
  <2> QED BY <1>1, <1>2, <2>1 DEF Bind, Complete, MarkOf
<1> QED BY <1>1, <1>2 DEF RowMove, Deleted, Drawn

LEMMA RowsComplete ==
  ASSUME LifeInv, [Next]_vars, NEW t \in Tokens \ LegacyTokens, rtok'[t] # NoToken
  PROVE  Complete(rtok'[t])
<1>1. RowMove(t)
  BY RowMoves DEF LifeInv, DeviceInv
<1>2. CASE rtok[t] # NoToken
  <2>1. Complete(rtok[t]) /\ MarkOf(rtok'[t]) = MarkOf(rtok[t])
    BY <1>2, StampsStay DEF LifeInv, LifeReady
  <2> QED BY <2>1 DEF Complete, MarkOf
<1>3. CASE Drawn(t)
  <2>1. PICK r \in Requests :
          /\ At(r, "login", "issue")
          /\ rtok'[t] = [dev |-> req[r].dev, dst |-> req[r].dst,
                         sst |-> req[r].u.stamp, pw |-> req[r].u.pw]
    BY <1>3 DEF Drawn
  <2>2. req[r].u.stamp # 0 /\ (req[r].dst = 0 <=> req[r].dev = NoDevice)
    BY <2>1 DEF At, LifeInv, LifeReady, LoginReady, IInv, Matched, RequestsMatch, CopyMatches
  <2> QED BY <2>1, <2>2 DEF Complete
<1> QED BY <1>1, <1>2, <1>3 DEF RowMove, Deleted, Bind

LEMMA ReadyStep == LifeInv /\ [Next]_vars => LifeReady'
<1> SUFFICES ASSUME LifeInv, [Next]_vars PROVE LifeReady'
  OBVIOUS
<1>0. /\ Typed /\ LifeReady /\ minted \subseteq minted'
      /\ \A t \in Tokens : RowMove(t)
      /\ \A r \in Requests : CallMove(r)
  BY RowMoves, CallMoves DEF LifeInv, DeviceInv
<1>1. LegacyTokens \subseteq minted'
  BY <1>0 DEF LifeReady
<1>2. ASSUME NEW r \in Requests
      PROVE  LoginReady(req'[r]) /\ RefreshReady(req'[r]) /\ RecordIsRow(req[r])'
  <2> DEFINE q == req'[r]
  <2>1. LoginReady(q) /\ RefreshReady(q)
    BY <1>0 DEF LifeReady, CallMove
  <2>2. ASSUME q.kind = "refresh", q.tok \notin LegacyTokens, rtok'[q.tok] # NoToken
        PROVE  MarkOf(q.rec) = MarkOf(rtok'[q.tok])
    <3>1. CASE req[r].kind = "refresh" /\ q.tok = req[r].tok /\ q.rec = req[r].rec
      <4> DEFINE t == req[r].tok
      <4>1. t \in Tokens \ LegacyTokens /\ t \in minted
        BY <2>2, <3>1 DEF LifeInv, Typed, Directed, DeviceInv, SessionsAgree, Holds
      <4>2. RowMove(t) /\ rtok'[t] # NoToken
        BY <1>0, <2>2, <3>1, <4>1
      <4> HIDE DEF t
      <4>3. rtok[t] # NoToken
        BY <4>1, <4>2 DEF RowMove, Deleted, Drawn, Bind
      <4>4. MarkOf(rtok'[t]) = MarkOf(rtok[t])
        BY <4>1, <4>2, <4>3, StampsStay
      <4> QED BY <2>2, <3>1, <4>3, <4>4 DEF t, LifeInv, LifeReady, RecordIsRow
    <3>2. CASE rtok' = rtok /\ q.rec = rtok[q.tok]
      BY <3>2
    <3> QED BY <1>0, <2>2, <3>1, <3>2 DEF CallMove
  <2> QED BY <2>1, <2>2 DEF RecordIsRow
<1>3. \A t \in Tokens \ LegacyTokens : rtok'[t] # NoToken => Complete(rtok'[t])
  BY RowsComplete
<1> QED BY <1>1, <1>2, <1>3 DEF LifeReady, RecordIsRow, Complete, LoginReady, RefreshReady

LEMMA LifeInvInit == Init => LifeInv
BY IInvInit, TypeInit, UndrawnInit, AgreeInit, ReadyInit DEF LifeInv, DeviceInv

LEMMA LifeInvStep == LifeInv /\ [Next]_vars => LifeInv'
BY IInvStep, TypeStep, UndrawnStep, AgreeStep, ReadyStep DEF LifeInv, DeviceInv

\* What of a step SessionLife sees: nothing, deletions, or one of four
\* statements on a session.
Ending == \E gone : DeleteTokens(gone) /\ UNCHANGED <<access, minted>>
OfSession(r) == LoginIssue(r) \/ RefreshBindUser(r) \/ RefreshBindDevice(r) \/ RefreshExtend(r)

LEMMA LifeMoves ==
  ASSUME [Next]_vars
  PROVE  UNCHANGED <<rtok, access, minted>> \/ Ending \/ \E r \in Requests : OfSession(r)
<1> DEFINE Goal == UNCHANGED <<rtok, access, minted>> \/ Ending \/ \E r \in Requests : OfSession(r)
<1>1. ASSUME NEW gone, DeleteTokens(gone), UNCHANGED <<access, minted>> PROVE Goal
  BY <1>1 DEF Ending
<1>2. CASE UNCHANGED <<rtok, access, minted>>
  BY <1>2
<1>3. ASSUME NEW r \in Requests, LoginStep(r) \/ RefreshStep(r) PROVE Goal
  BY <1>1, <1>2, <1>3
  DEF LoginStep, LoginRead, LoginRecover, LoginUpgrade, LoginReadDevice, LoginUpsertDevice,
      LoginRereadDevice, RefreshStep, RefreshLookup, RefreshReadUser, RefreshDrop,
      RefreshReadDevice, OfSession
<1>4. ASSUME NEW r \in Requests, AccountStep(r) PROVE Goal
  BY <1>1, <1>2, <1>4
  DEF AccountStep, Authorize, ReadAccount, ChangePasswordSave, SecondFactorSave, ProfileSave,
      RecoverRead, RecoverSave, PurgeTokens, WipeTokens, WipeDevices, SignOutAllSave,
      DeleteDeviceTokens, DeleteDeviceRow
<1>5. ASSUME NEW r \in Requests, AdminStep(r) \/ Abort(r) PROVE Goal
  BY <1>1, <1>2, <1>5 DEF AdminStep, StatusRead, StatusSave, DeleteUserRead, DeleteUserRow, Abort
<1>6. ASSUME NEW t \in Tokens, Revoke(t) \/ Expire(t) PROVE Goal
  BY <1>1, <1>6 DEF Revoke, Expire
<1> QED BY <1>2, <1>3, <1>4, <1>5, <1>6 DEF Next, vars

-----------------------------------------------------------------------------
\* The refinement mapping, before and after a step.
PhaseOf(t)     == IF rtok[t] # NoToken THEN "live" ELSE IF t \in minted THEN "ended" ELSE "new"
PhaseOfNext(t) == IF rtok'[t] # NoToken THEN "live" ELSE IF t \in minted' THEN "ended" ELSE "new"
MarkSet        == [dev: AnyDevice, dst: Stamps, sst: Stamps]
SignedOf(as)   == {[id |-> a.tok, mark |-> MarkOf(a)] : a \in as}

LEMMA MarksTyped == ASSUME NEW x \in TokenRow PROVE MarkOf(x) \in MarkSet
BY DEF TokenRow, MarkOf, MarkSet

LEMMA LifeStarts == Init => Life!LifeInit
<1> SUFFICES ASSUME Init PROVE Life!LifeInit
  OBVIOUS
<1>1. PICK old \in AnyDevice :
        rtok = [t \in Tokens |-> IF t \in LegacyTokens
                  THEN [NoToken EXCEPT !.dev = old, !.pw = 1] ELSE NoToken]
  BY DEF Init
<1>2. [NoToken EXCEPT !.dev = old, !.pw = 1] # NoToken
  <2> DEFINE x == [NoToken EXCEPT !.dev = old, !.pw = 1]
  <2>1. x.pw = 1 /\ NoToken.pw = 0
    BY DEF NoToken
  <2> HIDE DEF x
  <2>2. x # NoToken
    BY <2>1
  <2> QED BY <2>2 DEF x
<1>3. \A t \in Tokens : PhaseOf(t) = IF t \in LegacyTokens THEN "live" ELSE "new"
  BY <1>1, <1>2 DEF PhaseOf, Init
<1>4. \A t \in Tokens : MarkOf(rtok[t]) \in MarkSet
  BY TypeInit, MarksTyped DEF Typed, TypeOK
<1>5. \A t \in Tokens \ LegacyTokens : MarkOf(rtok[t]) = MarkOf(NoToken)
  BY <1>1
<1>6. SignedOf(access) = {}
  BY DEF Init, SignedOf
<1> QED BY <1>3, <1>4, <1>5, <1>6 DEF Life!LifeInit, PhaseOf, MarkSet, SignedOf

\* What Sessions does to a session is a step of SessionLife, or none at all.
PhasesStay == \A t \in Tokens : PhaseOfNext(t) = PhaseOf(t)
MarksStay  == \A t \in Tokens : MarkOf(rtok'[t]) = MarkOf(rtok[t])
MarksMove(t) == /\ \A s \in Tokens : MarkOf(rtok'[s]) \in MarkSet
                /\ \A s \in Tokens \ {t} : MarkOf(rtok'[s]) = MarkOf(rtok[s])

LEMMA EndingStep ==
  ASSUME LifeInv, NEW gone, DeleteTokens(gone), UNCHANGED <<access, minted>>
  PROVE  Life!LifeNext
<1>1. PICK ids \in SUBSET Tokens : ids = {t \in Tokens : t \in gone /\ rtok[t] # NoToken}
  OBVIOUS
<1>2. \A t \in ids : PhaseOf(t) = "live"
  BY <1>1 DEF PhaseOf
<1>3. ASSUME NEW t \in Tokens
      PROVE  /\ PhaseOfNext(t) = IF t \in ids THEN "ended" ELSE PhaseOf(t)
             /\ MarkOf(rtok'[t]) = IF t \in ids THEN MarkOf(NoToken) ELSE MarkOf(rtok[t])
  <2>1. rtok'[t] = IF t \in gone THEN NoToken ELSE rtok[t]
    BY DEF DeleteTokens
  <2>2. rtok[t] # NoToken => t \in minted
    BY DEF LifeInv, DeviceInv, Undrawn
  <2> QED BY <1>1, <2>1, <2>2 DEF PhaseOf, PhaseOfNext
<1>4. Life!End(ids)
  BY <1>2, <1>3, <1>1 DEF Life!End, PhaseOf, PhaseOfNext
<1> QED BY <1>1, <1>4 DEF Life!LifeNext

LEMMA OpenStep ==
  ASSUME LifeInv, LifeInv', NEW r \in Requests, LoginIssue(r), ~UNCHANGED <<rtok, access, minted>>
  PROVE  Life!LifeNext
<1> DEFINE row == [dev |-> req[r].dev, dst |-> req[r].dst,
                   sst |-> req[r].u.stamp, pw |-> req[r].u.pw]
           a(t) == [dev |-> row.dev, dst |-> row.dst, sst |-> row.sst, pw |-> row.pw, tok |-> t]
<1>1. PICK t \in Tokens \ minted :
        /\ minted' = minted \cup {t}
        /\ rtok' = [rtok EXCEPT ![t] = row]
        /\ access' = access \cup {a(t)}
  BY DEF LoginIssue
<1>2. row.sst # 0
  BY DEF LoginIssue, At, LifeInv, IInv, Matched, RequestsMatch, CopyMatches
<1>3. rtok \in [Tokens -> TokenRow] /\ rtok' \in [Tokens -> TokenRow]
  BY DEF LifeInv, DeviceInv, Typed, TypeOK
<1>4. row # NoToken /\ MarkOf(a(t)) = MarkOf(row) /\ a(t).tok = t
  BY <1>2 DEF NoToken, MarkOf
<1> HIDE DEF row, a
<1>5. rtok[t] = NoToken /\ rtok'[t] = row /\ \A s \in Tokens \ {t} : rtok'[s] = rtok[s]
  BY <1>1, <1>3 DEF LifeInv, DeviceInv, Undrawn
<1>6. /\ PhaseOf(t) = "new" /\ PhaseOfNext(t) = "live"
      /\ \A s \in Tokens \ {t} : PhaseOfNext(s) = PhaseOf(s)
  BY <1>1, <1>4, <1>5 DEF PhaseOf, PhaseOfNext
<1>7. MarksMove(t)
  BY <1>3, <1>5, MarksTyped DEF MarksMove
<1>8. SignedOf(access') = SignedOf(access) \cup {[id |-> t, mark |-> MarkOf(rtok'[t])]}
  BY <1>1, <1>4, <1>5 DEF SignedOf
<1>9. Life!Open(t)
  BY <1>6, <1>7, <1>8
  DEF Life!Open, Life!OthersKeep, PhaseOf, PhaseOfNext, MarksMove, MarkSet, SignedOf
<1> QED BY <1>1, <1>9 DEF Life!LifeNext

LEMMA FillStep ==
  ASSUME LifeInv, LifeInv', [Next]_vars, NEW r \in Requests,
         RefreshBindUser(r) \/ RefreshBindDevice(r), ~UNCHANGED <<rtok, access, minted>>
  PROVE  Life!LifeNext
<1> DEFINE t == req[r].tok
<1>1. /\ t \in LegacyTokens /\ t \in Tokens
      /\ access' = access /\ minted' = minted
  BY DEF RefreshBindUser, RefreshBindDevice, At, LifeInv, LifeReady, RefreshReady, Typed, Directed, DeviceInv
<1>2. rtok \in [Tokens -> TokenRow] /\ rtok' \in [Tokens -> TokenRow]
  BY DEF LifeInv, DeviceInv, Typed, TypeOK
<1>3. /\ rtok[t] # NoToken /\ rtok' # rtok
      /\ \/ rtok[t].sst = 0 /\ rtok' = [rtok EXCEPT ![t].sst = req[r].u.stamp]
         \/ rtok[t].dst = 0 /\ rtok' = [rtok EXCEPT ![t].dst = req[r].dst]
  BY <1>1, <1>2 DEF RefreshBindUser, RefreshBindDevice
<1> HIDE DEF t
<1>4. \A s \in Tokens \ {t} : rtok'[s] = rtok[s]
  BY <1>2, <1>3
<1>5. /\ rtok'[t].dev = rtok[t].dev
      /\ rtok[t].dst # 0 => rtok'[t].dst = rtok[t].dst
      /\ rtok[t].sst # 0 => rtok'[t].sst = rtok[t].sst
      /\ rtok'[t].dst # rtok[t].dst => rtok[t].dst = 0
      /\ rtok'[t].sst # rtok[t].sst => rtok[t].sst = 0
      /\ rtok'[t].pw = rtok[t].pw
  BY <1>1, <1>2, <1>3 DEF TokenRow
<1>6. rtok'[t] # NoToken
  BY <1>1, <1>2, <1>3, <1>5 DEF NoToken, TokenRow
<1>7. PhasesStay /\ PhaseOf(t) = "live"
  BY <1>1, <1>3, <1>4, <1>6 DEF PhasesStay, PhaseOf, PhaseOfNext
<1>8. MarksMove(t)
  BY <1>2, <1>4, MarksTyped DEF MarksMove
<1>9. /\ MarkOf(rtok'[t]).dev = MarkOf(rtok[t]).dev
      /\ MarkOf(rtok[t]).dst # 0 => MarkOf(rtok'[t]).dst = MarkOf(rtok[t]).dst
      /\ MarkOf(rtok[t]).sst # 0 => MarkOf(rtok'[t]).sst = MarkOf(rtok[t]).sst
  BY <1>5 DEF MarkOf
<1>10. Life!Fill(t)
  BY <1>1, <1>7, <1>8, <1>9
  DEF Life!Fill, Life!OthersKeep, PhasesStay, PhaseOf, PhaseOfNext, MarksMove, MarkSet
<1> QED BY <1>1, <1>10 DEF Life!LifeNext

LEMMA SignStep ==
  ASSUME LifeInv, NEW r \in Requests, RefreshExtend(r), ~UNCHANGED <<rtok, access, minted>>
  PROVE  Life!LifeNext
<1>0. PICK t \in Tokens : t = req[r].tok
  BY DEF RefreshExtend, At, LifeInv, DeviceInv, Typed, Directed
<1> DEFINE q == req[r]
           a == [dev |-> q.dev, dst |-> q.dst, sst |-> q.u.stamp, pw |-> q.rec.pw, tok |-> t]
           s == [id |-> t, mark |-> MarkOf(a)]
<1>1. /\ rtok[t] # NoToken /\ access' = access \cup {a}
      /\ rtok' = rtok /\ minted' = minted
      /\ q.kind = "refresh" /\ q.step = "extend"
  BY <1>0 DEF RefreshExtend, At
<1>2. IF t \in LegacyTokens THEN MarkOf(a).dev = MarkOf(rtok[t]).dev ELSE MarkOf(a) = MarkOf(rtok[t])
  <2>1. rtok[t].dev = q.dev
    BY <1>0, <1>1 DEF LifeInv, DeviceInv, SessionsAgree, Holds
  <2>2. CASE t \in LegacyTokens
    BY <2>1, <2>2 DEF MarkOf
  <2>3. CASE t \notin LegacyTokens
    <3>1. q.dev = q.rec.dev /\ q.dst = q.rec.dst /\ q.u.stamp = q.rec.sst
      BY <1>0, <1>1, <2>3 DEF LifeInv, LifeReady, RefreshReady
    <3>2. MarkOf(q.rec) = MarkOf(rtok[t])
      BY <1>0, <1>1, <2>3 DEF LifeInv, LifeReady, RecordIsRow
    <3> QED BY <2>3, <3>1, <3>2 DEF MarkOf
  <2> QED BY <2>2, <2>3
<1>3. a.tok = t /\ s.id = t /\ s.mark = MarkOf(a)
  OBVIOUS
<1> HIDE DEF q, a
<1>4. SignedOf(access') = SignedOf(access) \cup {s}
  BY <1>1, <1>3 DEF SignedOf
<1> HIDE DEF s
<1>5. PhaseOf(t) = "live" /\ PhasesStay /\ MarksStay
  BY <1>1 DEF PhaseOf, PhaseOfNext, PhasesStay, MarksStay
<1>6. s \in SignedOf(access')
  BY <1>4
<1>7. Life!Sign(t)
  BY <1>1, <1>2, <1>3, <1>4, <1>5, <1>6
  DEF Life!Sign, PhaseOf, PhaseOfNext, PhasesStay, MarksStay, SignedOf
<1> QED BY <1>7 DEF Life!LifeNext

LEMMA LifeSteps == LifeInv /\ LifeInv' /\ [Next]_vars =>
  [Life!LifeNext]_<<[t \in Tokens |-> IF rtok[t] # NoToken THEN "live"
                                      ELSE IF t \in minted THEN "ended" ELSE "new"],
                    [t \in Tokens |-> MarkOf(rtok[t])],
                    {[id |-> a.tok, mark |-> MarkOf(a)] : a \in access}>>
<1> SUFFICES ASSUME LifeInv, LifeInv', [Next]_vars, ~UNCHANGED <<rtok, access, minted>>
             PROVE  Life!LifeNext
  OBVIOUS
<1>1. CASE Ending
  BY <1>1, EndingStep DEF Ending
<1>2. ASSUME NEW r \in Requests, OfSession(r) PROVE Life!LifeNext
  BY <1>2, OpenStep, FillStep, SignStep DEF OfSession
<1> QED BY <1>1, <1>2, LifeMoves

\* Every behaviour of the requests is one of SessionLife: whatever a refresh
\* has read, and when, it signs with the stamps the log-in stored and only
\* while the session lives.
THEOREM SessionsKeepTheirStamps == Spec => SessionKeepsItsStamps
<1>1. Spec => []LifeInv
  BY LifeInvInit, LifeInvStep, PTL DEF Spec
<1> QED BY <1>1, LifeStarts, LifeSteps, PTL DEF Spec, SessionKeepsItsStamps, Life!LifeSpec

\* What a session has signed bears the stamps of its row as long as there is
\* one, and each the stamps of the other for ever.
SignedAlike ==
  /\ \A a \in access : a.tok \notin LegacyTokens =>
       /\ a.tok \in minted
       /\ rtok[a.tok] # NoToken => MarkOf(a) = MarkOf(rtok[a.tok])
  /\ \A a, b \in access : a.tok = b.tok /\ a.tok \notin LegacyTokens => MarkOf(a) = MarkOf(b)

LEMMA AlikeStep == LifeInv /\ SignedAlike /\ [Next]_vars => SignedAlike'
<1> SUFFICES ASSUME LifeInv, SignedAlike, [Next]_vars PROVE SignedAlike'
  OBVIOUS
<1>0. /\ access \subseteq AccessToken /\ rtok \in [Tokens -> TokenRow]
      /\ minted \subseteq minted' /\ \A t \in Tokens : RowMove(t)
  BY RowMoves DEF LifeInv, DeviceInv, Typed, TypeOK
\* What was signed before keeps to the row, and the row to its stamps.
<1>1. ASSUME NEW a \in access, a.tok \notin LegacyTokens
      PROVE  a.tok \in minted' /\ (rtok'[a.tok] # NoToken => MarkOf(a) = MarkOf(rtok'[a.tok]))
  <2>1. a.tok \in Tokens /\ a.tok \in minted /\ RowMove(a.tok)
    BY <1>0, <1>1 DEF AccessToken, SignedAlike
  <2>2. rtok'[a.tok] # NoToken => rtok[a.tok] # NoToken
    BY <2>1 DEF RowMove, Deleted, Drawn, Bind
  <2> QED BY <1>0, <1>1, <2>1, <2>2, StampsStay DEF SignedAlike
<1>2. CASE access' = access
  BY <1>1, <1>2 DEF SignedAlike
\* What is signed anew is the first of its session, or keeps to the row too.
<1>3. ASSUME NEW n, access' = access \cup {n},
             n.tok \notin LegacyTokens =>
               /\ n.tok \in minted' /\ rtok'[n.tok] # NoToken
               /\ MarkOf(n) = MarkOf(rtok'[n.tok])
      PROVE  SignedAlike'
  BY <1>1, <1>3 DEF SignedAlike
<1>4. ASSUME NEW r \in Requests, OfSession(r), access' # access PROVE SignedAlike'
  <2>1. CASE LoginIssue(r)
    <3> DEFINE row == [dev |-> req[r].dev, dst |-> req[r].dst,
                       sst |-> req[r].u.stamp, pw |-> req[r].u.pw]
               a(t) == [dev |-> row.dev, dst |-> row.dst, sst |-> row.sst, pw |-> row.pw, tok |-> t]
    <3>1. PICK t \in Tokens \ minted :
            /\ minted' = minted \cup {t}
            /\ rtok' = [rtok EXCEPT ![t] = row]
            /\ access' = access \cup {a(t)}
      BY <1>4, <2>1 DEF LoginIssue
    <3>2. row.sst # 0
      BY <2>1 DEF LoginIssue, At, LifeInv, IInv, Matched, RequestsMatch, CopyMatches
    <3>3. row # NoToken /\ MarkOf(a(t)) = MarkOf(row) /\ a(t).tok = t
      BY <3>2 DEF NoToken, MarkOf
    <3> HIDE DEF row, a
    <3>4. rtok'[t] = row /\ t \in minted'
      BY <1>0, <3>1
    <3> QED BY <1>3, <3>1, <3>3, <3>4
  <2>2. CASE RefreshExtend(r)
    <3> DEFINE q == req[r]
               a == [dev |-> q.dev, dst |-> q.dst, sst |-> q.u.stamp, pw |-> q.rec.pw, tok |-> q.tok]
    <3>1. /\ rtok[q.tok] # NoToken /\ access' = access \cup {a}
          /\ rtok' = rtok /\ minted' = minted
          /\ q.kind = "refresh" /\ q.step = "extend" /\ q.tok \in minted
      BY <1>4, <2>2 DEF RefreshExtend, At, LifeInv, DeviceInv, SessionsAgree, Holds
    <3>2. ASSUME q.tok \notin LegacyTokens PROVE MarkOf(a) = MarkOf(rtok[q.tok])
      <4>1. q.dev = q.rec.dev /\ q.dst = q.rec.dst /\ q.u.stamp = q.rec.sst
        BY <3>1, <3>2 DEF LifeInv, LifeReady, RefreshReady
      <4>2. MarkOf(q.rec) = MarkOf(rtok[q.tok])
        BY <3>1, <3>2 DEF LifeInv, LifeReady, RecordIsRow
      <4> QED BY <4>1, <4>2 DEF MarkOf
    <3>3. a.tok = q.tok
      OBVIOUS
    <3> HIDE DEF q, a
    <3> QED BY <1>3, <3>1, <3>2, <3>3
  <2> QED BY <1>4, <2>1, <2>2 DEF OfSession, RefreshBindUser, RefreshBindDevice
<1> QED BY <1>2, <1>4, LifeMoves DEF Ending

\* All access tokens of a session a log-in opened bear the same device and the
\* same stamps, those of other workers and of refreshes under way included: to
\* retire one of the stamps is to refuse every one of them.
THEOREM OneMarkPerSession ==
  Spec => [](\A a, b \in access : a.tok = b.tok /\ a.tok \notin LegacyTokens =>
               a.dev = b.dev /\ a.dst = b.dst /\ a.sst = b.sst)
<1>1. Init => SignedAlike
  BY DEF Init, SignedAlike
<1>2. SignedAlike => \A a, b \in access : a.tok = b.tok /\ a.tok \notin LegacyTokens =>
                       a.dev = b.dev /\ a.dst = b.dst /\ a.sst = b.sst
  BY DEF SignedAlike, MarkOf
<1> QED BY <1>1, <1>2, LifeInvInit, LifeInvStep, AlikeStep, PTL DEF Spec
=============================================================================
