------------------------------ MODULE Sessions ------------------------------
(***************************************************************************)
(* The sessions of one account: its row in "users", its rows in "devices"  *)
(* and "refresh_tokens", the access tokens signed for it, and the requests *)
(* that read and write them concurrently.                                  *)
(*                                                                         *)
(* A request runs on any worker; every await on the database lets others   *)
(* run, so a request is a sequence of steps, one per SQL statement, over a *)
(* private copy of what it has read.  A statement is atomic; nothing spans *)
(* two of them.                                                            *)
(*                                                                         *)
(* Security stamps and device session stamps are fresh UUIDs: here numbers *)
(* drawn from one counter, with 0 for "none".  A password is named by the  *)
(* stamp drawn when it was chosen, so two passwords never share a name.    *)
(***************************************************************************)
EXTENDS Naturals

CONSTANTS
  Requests,      \* slots for requests in flight at the same time
  Devices,       \* device identifiers the clients present
  NoDevice,      \* a client that presents no device identifier
  Tokens,        \* refresh-token values that may be drawn
  LegacyTokens,  \* rows written before the stamp columns existed
  Kinds,         \* the kinds of request the clients and the admin send
  MaxStamp       \* bound on the stamps drawn

AllKinds == {"login", "refresh", "password", "secondFactor", "recover",
             "profile", "signOutAll", "deleteDevice", "status", "deleteUser"}

\* Kinds that reach their handler through verifyAccessTokenWithUser.
AccountKinds == {"password", "secondFactor", "profile", "signOutAll", "deleteDevice"}

ASSUME ConstantsAssumption ==
  /\ NoDevice \notin Devices
  /\ LegacyTokens \subseteq Tokens
  /\ Kinds \subseteq AllKinds
  /\ MaxStamp \in Nat \ {0, 1}

VARIABLES
  user,     \* the row of "users", NoUser once deleted
  device,   \* the session stamp in each row of "devices", 0 without a row
  rtok,     \* the rows of "refresh_tokens", NoToken without a row
  access,   \* the access tokens signed so far: nothing recalls a JWT
  req,      \* what each request has read and its next statement
  stamps,   \* the number of stamps drawn so far
  minted,   \* the refresh tokens drawn so far
  pwOf,     \* history: the password in force when a stamp was drawn
  retired   \* history: stamps that a later write or a deletion replaced

vars == <<user, device, rtok, access, req, stamps, minted, pwOf, retired>>

Stamps   == 0..MaxStamp
AnyDevice == Devices \cup {NoDevice}

\* stamp: security_stamp; pw, legacy: the password behind master_password_hash
\* and whether the hash has the old format; active: status = 'active'.
UserRow  == [stamp: Stamps, pw: Stamps, legacy: BOOLEAN, active: BOOLEAN]
NoUser   == [stamp |-> 0, pw |-> 0, legacy |-> FALSE, active |-> FALSE]

\* dst, sst: device_session_stamp and security_stamp, 0 for NULL.
\* pw is history: the password of the login the row comes from.
TokenRow == [dev: AnyDevice, dst: Stamps, sst: Stamps, pw: Stamps]
NoToken  == [dev |-> NoDevice, dst |-> 0, sst |-> 0, pw |-> 0]

\* The claims did, dstamp and sstamp; pw and tok are history: the password and
\* the refresh token of the session it belongs to.
AccessToken == [dev: AnyDevice, dst: Stamps, sst: Stamps, pw: Stamps, tok: Tokens]

Steps == {"idle", "read", "recover", "purge", "upgrade", "device", "upsert", "reread",
          "issue", "bindUser", "bindDevice", "drop", "extend", "save", "wipe",
          "wipeTokens", "wipeDevices", "deleteTokens", "deleteRow", "dropUser"}

Request == [kind: AllKinds \cup {"none"}, step: Steps, u: UserRow, rec: TokenRow,
            tok: Tokens \cup {NoDevice}, dev: AnyDevice, dst: Stamps]
Idle == [kind |-> "none", step |-> "idle", u |-> NoUser, rec |-> NoToken,
         tok |-> NoDevice, dev |-> NoDevice, dst |-> 0]

-----------------------------------------------------------------------------
(* What the statements do.                                                 *)

Exists(row) == row.stamp # 0

\* One draw of generateUUID, with the password that is in force from then on.
Draw(pw) == /\ stamps < MaxStamp
            /\ stamps' = stamps + 1
            /\ pwOf' = [pwOf EXCEPT ![stamps + 1] = pw]

\* saveUser is INSERT .. ON CONFLICT DO UPDATE of every column: it overwrites
\* whatever the row holds by now, and inserts it again after a deletion.
SaveUser(row) == /\ user' = row
                 /\ retired' = retired \cup ({user.stamp} \ {0, row.stamp})

DeleteTokens(gone) == rtok' = [t \in Tokens |-> IF t \in gone THEN NoToken ELSE rtok[t]]

DeleteDevices(gone) ==
  /\ device'  = [d \in Devices |-> IF d \in gone THEN 0 ELSE device[d]]
  /\ retired' = retired \cup ({device[d] : d \in gone} \ {0})

At(r, kind, step) == req[r].kind = kind /\ req[r].step = step
Goto(r, step)     == req' = [req EXCEPT ![r].step = step]
Finish(r)         == req' = [req EXCEPT ![r] = Idle]

\* A free slot takes a request of this kind.
Start(r, kind, local) ==
  /\ kind \in Kinds
  /\ req[r] = Idle
  /\ req' = [req EXCEPT ![r] = [local EXCEPT !.kind = kind]]

\* The token's claims agree with the rows (the reads that miss the cache).
Verifies(a) == /\ Exists(user)
               /\ user.active
               /\ a.sst = user.stamp
               /\ a.dev # NoDevice => a.dst # 0 /\ device[a.dev] = a.dst

-----------------------------------------------------------------------------
Init ==
  /\ user = [stamp |-> 1, pw |-> 1, legacy |-> TRUE, active |-> TRUE]
  /\ \E old \in AnyDevice :  \* the client the legacy rows belong to
       /\ device = [d \in Devices |-> IF d = old THEN 2 ELSE 0]
       /\ rtok = [t \in Tokens |-> IF t \in LegacyTokens
                    THEN [NoToken EXCEPT !.dev = old, !.pw = 1] ELSE NoToken]
  /\ access = {}
  /\ req = [r \in Requests |-> Idle]
  /\ stamps = 2
  /\ minted = LegacyTokens
  /\ pwOf = [s \in Stamps |-> IF s = 1 THEN 1 ELSE 0]
  /\ retired = {}

-----------------------------------------------------------------------------
(* POST /identity/connect/token, grant_type=password.                      *)

\* The row is read once, the password and any second factor are checked
\* against this copy, and everything below works on the copy.
LoginRead(r, d) ==
  /\ Exists(user) /\ user.active
  /\ \E step \in {"upgrade", "recover"} :
        /\ step = "recover" => step \in Kinds
        /\ Start(r, "login", [Idle EXCEPT !.step = step, !.u = user, !.dev = d])
  /\ UNCHANGED <<user, device, rtok, access, stamps, minted, pwOf, retired>>

\* A recovery code replaces the second factor and the stamp.
LoginRecover(r) ==
  /\ At(r, "login", "recover")
  /\ Draw(req[r].u.pw)
  /\ LET row == [req[r].u EXCEPT !.stamp = stamps + 1] IN
       /\ SaveUser(row)
       /\ req' = [req EXCEPT ![r].u = row, ![r].step = "purge"]
  /\ UNCHANGED <<device, rtok, access, minted>>

\* Mutant of UpgradeApplies: UPDATE .. WHERE id = ? alone.
UpgradeUnconditional(u) == u.legacy

\* The conditional UPDATE that moves an old verifier to the new format.
UpgradeApplies(u) == /\ u.legacy
                     /\ user.active
                     /\ user.pw = u.pw /\ user.legacy = u.legacy
                     /\ user.stamp = u.stamp

LoginUpgrade(r) ==
  /\ At(r, "login", "upgrade")
  /\ LET u    == req[r].u
         done == UpgradeApplies(u) IN
       /\ user' = IF done THEN [user EXCEPT !.pw = u.pw, !.legacy = FALSE] ELSE user
       /\ req' = [req EXCEPT ![r].u.legacy = IF done THEN FALSE ELSE @,
                             ![r].step = IF req[r].dev = NoDevice THEN "issue" ELSE "device"]
  /\ UNCHANGED <<device, rtok, access, stamps, minted, pwOf, retired>>

\* resolveDeviceSession: the device's stamp, or a new one, as a candidate.
LoginReadDevice(r) ==
  /\ At(r, "login", "device")
  /\ LET d == req[r].dev IN
       \/ /\ device[d] # 0
          /\ req' = [req EXCEPT ![r].dst = device[d], ![r].step = "upsert"]
          /\ UNCHANGED <<stamps, pwOf>>
       \/ /\ device[d] = 0
          /\ Draw(0)
          /\ req' = [req EXCEPT ![r].dst = stamps + 1, ![r].step = "upsert"]
  /\ UNCHANGED <<user, device, rtok, access, minted, retired>>

\* upsertDevice keeps the stamp of a row that has one.  Without the user's row
\* the foreign key rejects the insert and the request fails.
LoginUpsertDevice(r) ==
  /\ At(r, "login", "upsert")
  /\ IF Exists(user)
       THEN /\ device' = [device EXCEPT ![req[r].dev] = IF @ = 0 THEN req[r].dst ELSE @]
            /\ Goto(r, "reread")
       ELSE Finish(r) /\ UNCHANGED device
  /\ UNCHANGED <<user, rtok, access, stamps, minted, pwOf, retired>>

\* Mutant of LoginRereadDevice: the candidate is used without reading back.
LoginKeepsCandidate(r) ==
  /\ At(r, "login", "reread")
  /\ Goto(r, "issue")
  /\ UNCHANGED <<user, device, rtok, access, stamps, minted, pwOf, retired>>

\* The session is the one that was persisted, not the candidate.
LoginRereadDevice(r) ==
  /\ At(r, "login", "reread")
  /\ LET found == device[req[r].dev] IN
       IF found = 0
         THEN Finish(r)
         ELSE req' = [req EXCEPT ![r].dst = found, ![r].step = "issue"]
  /\ UNCHANGED <<user, device, rtok, access, stamps, minted, pwOf, retired>>

\* Mutant of LoginIssue: the stamp is read again, the password check is not redone.
LoginIssueFreshStamp(r) ==
  /\ At(r, "login", "issue")
  /\ Finish(r)
  /\ \E t \in Tokens \ minted :
       /\ minted' = minted \cup {t}
       /\ rtok' = [rtok EXCEPT ![t] = [dev |-> req[r].dev, dst |-> req[r].dst,
                                      sst |-> user.stamp, pw |-> req[r].u.pw]]
  /\ UNCHANGED <<user, device, access, stamps, pwOf, retired>>

\* generateAccessToken and generateRefreshToken, from the copy read first.
LoginIssue(r) ==
  /\ At(r, "login", "issue")
  /\ Finish(r)
  /\ IF Exists(user)
       THEN \E t \in Tokens \ minted :
              LET row == [dev |-> req[r].dev, dst |-> req[r].dst,
                          sst |-> req[r].u.stamp, pw |-> req[r].u.pw] IN
                /\ minted' = minted \cup {t}
                /\ rtok' = [rtok EXCEPT ![t] = row]
                /\ access' = access \cup {[dev |-> row.dev, dst |-> row.dst, sst |-> row.sst,
                                           pw |-> row.pw, tok |-> t]}
       ELSE UNCHANGED <<rtok, access, minted>>
  /\ UNCHANGED <<user, device, stamps, pwOf, retired>>

-----------------------------------------------------------------------------
(* grant_type=refresh_token: refreshAccessTokenDetailed.                   *)

RefreshLookup(r, t) ==
  /\ rtok[t] # NoToken
  /\ Start(r, "refresh", [Idle EXCEPT !.step = "read", !.tok = t, !.rec = rtok[t],
                                      !.dev = rtok[t].dev])
  /\ UNCHANGED <<user, device, rtok, access, stamps, minted, pwOf, retired>>

\* No stamp in the record: the token takes the account's present stamp.
RefreshReadUser(r) ==
  /\ At(r, "refresh", "read")
  /\ LET rec  == req[r].rec
         next == IF ~user.active \/ (rec.sst # 0 /\ rec.sst # user.stamp) THEN "drop"
                 ELSE IF rec.sst = 0 THEN "bindUser"
                 ELSE IF req[r].dev = NoDevice THEN "extend" ELSE "device" IN
       req' = [req EXCEPT ![r].u = user, ![r].step = next]
  /\ UNCHANGED <<user, device, rtok, access, stamps, minted, pwOf, retired>>

RefreshDrop(r) ==
  /\ At(r, "refresh", "drop")
  /\ DeleteTokens({req[r].tok})
  /\ Finish(r)
  /\ UNCHANGED <<user, device, access, stamps, minted, pwOf, retired>>

\* Mutant of RefreshBindUser: UPDATE .. WHERE token = ? alone.
RefreshBindAlways(r) ==
  /\ At(r, "refresh", "bindUser")
  /\ LET t == req[r].tok IN
       rtok' = IF rtok[t] # NoToken THEN [rtok EXCEPT ![t].sst = req[r].u.stamp] ELSE rtok
  /\ Goto(r, IF req[r].dev = NoDevice THEN "extend" ELSE "device")
  /\ UNCHANGED <<user, device, access, stamps, minted, pwOf, retired>>

\* UPDATE .. WHERE token = ? AND the stamp is still NULL.
RefreshBindUser(r) ==
  /\ At(r, "refresh", "bindUser")
  /\ LET t == req[r].tok IN
       rtok' = IF rtok[t] # NoToken /\ rtok[t].sst = 0
                 THEN [rtok EXCEPT ![t].sst = req[r].u.stamp] ELSE rtok
  /\ Goto(r, IF req[r].dev = NoDevice THEN "extend" ELSE "device")
  /\ UNCHANGED <<user, device, access, stamps, minted, pwOf, retired>>

\* Mutant of RefreshReadDevice: any session of the device will do.
RefreshAnySession(r) ==
  /\ At(r, "refresh", "device")
  /\ LET found == device[req[r].dev]
         next  == IF found = 0 THEN "drop"
                  ELSE IF req[r].rec.dst = 0 THEN "bindDevice" ELSE "extend" IN
       req' = [req EXCEPT ![r].dst = found, ![r].step = next]
  /\ UNCHANGED <<user, device, rtok, access, stamps, minted, pwOf, retired>>

RefreshReadDevice(r) ==
  /\ At(r, "refresh", "device")
  /\ LET found == device[req[r].dev]
         bound == req[r].rec.dst
         next  == IF found = 0 \/ (bound # 0 /\ found # bound) THEN "drop"
                  ELSE IF bound = 0 THEN "bindDevice" ELSE "extend" IN
       req' = [req EXCEPT ![r].dst = found, ![r].step = next]
  /\ UNCHANGED <<user, device, rtok, access, stamps, minted, pwOf, retired>>

RefreshBindDevice(r) ==
  /\ At(r, "refresh", "bindDevice")
  /\ LET t == req[r].tok IN
       rtok' = IF rtok[t] # NoToken /\ rtok[t].dst = 0
                 THEN [rtok EXCEPT ![t].dst = req[r].dst] ELSE rtok
  /\ Goto(r, "extend")
  /\ UNCHANGED <<user, device, access, stamps, minted, pwOf, retired>>

\* Mutants of RefreshExtend: the record is saved again, as a login saves it; the
\* result of the UPDATE is not looked at.
RefreshSavesRecord(r) ==
  /\ At(r, "refresh", "extend")
  /\ Finish(r)
  /\ rtok' = [rtok EXCEPT ![req[r].tok] = req[r].rec]
  /\ UNCHANGED <<user, device, access, stamps, minted, pwOf, retired>>

RefreshIgnoresResult(r) ==
  /\ At(r, "refresh", "extend")
  /\ Finish(r)
  /\ access' = access \cup {[dev |-> req[r].dev, dst |-> req[r].dst, sst |-> req[r].u.stamp,
                             pw |-> req[r].rec.pw, tok |-> req[r].tok]}
  /\ UNCHANGED <<user, device, rtok, stamps, minted, pwOf, retired>>

\* extendRefreshTokenExpiry updates the row if it is still there; only then is
\* an access token signed, from the user and device read above.
RefreshExtend(r) ==
  /\ At(r, "refresh", "extend")
  /\ Finish(r)
  /\ access' = IF rtok[req[r].tok] # NoToken
                 THEN access \cup {[dev |-> req[r].dev, dst |-> req[r].dst,
                                    sst |-> req[r].u.stamp, pw |-> req[r].rec.pw,
                                    tok |-> req[r].tok]}
                 ELSE access
  /\ UNCHANGED <<user, device, rtok, stamps, minted, pwOf, retired>>

\* POST /identity/connect/revocation.
Revoke(t) ==
  /\ rtok[t] # NoToken
  /\ DeleteTokens({t})
  /\ UNCHANGED <<user, device, access, req, stamps, minted, pwOf, retired>>

\* A lookup after expires_at, or the periodic cleanup, deletes the row.
Expire(t) ==
  /\ rtok[t] # NoToken
  /\ DeleteTokens({t})
  /\ UNCHANGED <<user, device, access, req, stamps, minted, pwOf, retired>>

-----------------------------------------------------------------------------
(* Requests of the signed-in account.                                      *)

\* verifyAccessTokenWithUser.  The handler runs later and reads for itself,
\* so a verification served from a cached row is one done earlier.
Authorize(r, kind) ==
  /\ kind \in AccountKinds
  /\ \E a \in access : Verifies(a)
  /\ \E d \in AnyDevice :
       /\ (kind = "deleteDevice") = (d # NoDevice)
       /\ Start(r, kind, [Idle EXCEPT !.dev = d,
                 !.step = IF kind = "deleteDevice" THEN "deleteTokens" ELSE "read"])
  /\ UNCHANGED <<user, device, rtok, access, stamps, minted, pwOf, retired>>

\* getUserById, and the checks of the current password against this copy.
ReadAccount(r) ==
  /\ req[r].kind \in AccountKinds /\ req[r].step = "read"
  /\ IF Exists(user)
       THEN req' = [req EXCEPT ![r].u = user,
                      ![r].step = IF req[r].kind = "signOutAll" THEN "wipe" ELSE "save"]
       ELSE Finish(r)
  /\ UNCHANGED <<user, device, rtok, access, stamps, minted, pwOf, retired>>

\* handleChangePassword.
ChangePasswordSave(r) ==
  /\ At(r, "password", "save")
  /\ Draw(stamps + 1)
  /\ SaveUser([req[r].u EXCEPT !.stamp = stamps + 1, !.pw = stamps + 1, !.legacy = FALSE])
  /\ Goto(r, "purge")
  /\ UNCHANGED <<device, rtok, access, minted>>

\* Turning a second factor on or off: the whole row again, the same stamp.
SecondFactorSave(r) ==
  /\ At(r, "secondFactor", "save")
  /\ SaveUser(req[r].u)
  /\ Goto(r, "purge")
  /\ UNCHANGED <<device, rtok, access, stamps, minted, pwOf>>

\* handleUpdateProfile and handleSetKeys: the whole row again, nothing else.
ProfileSave(r) ==
  /\ At(r, "profile", "save")
  /\ SaveUser(req[r].u)
  /\ Finish(r)
  /\ UNCHANGED <<device, rtok, access, stamps, minted, pwOf>>

\* handleRecoverTwoFactor checks password and recovery code itself.
RecoverRead(r) ==
  /\ Exists(user) /\ user.active
  /\ Start(r, "recover", [Idle EXCEPT !.step = "save", !.u = user])
  /\ UNCHANGED <<user, device, rtok, access, stamps, minted, pwOf, retired>>

RecoverSave(r) ==
  /\ At(r, "recover", "save")
  /\ Draw(req[r].u.pw)
  /\ SaveUser([req[r].u EXCEPT !.stamp = stamps + 1])
  /\ Goto(r, "purge")
  /\ UNCHANGED <<device, rtok, access, minted>>

\* deleteRefreshTokensByUserId.
PurgeTokens(r) ==
  /\ req[r].step = "purge"
  /\ DeleteTokens(Tokens)
  /\ CASE req[r].kind = "login"      -> Goto(r, "upgrade")
       [] req[r].kind = "deleteUser" -> Goto(r, "dropUser")
       [] OTHER                      -> Finish(r)
  /\ UNCHANGED <<user, device, access, stamps, minted, pwOf, retired>>

\* handleDeleteAllDevices: both deletions run at once, in either order ...
WipeTokens(r) ==
  /\ req[r].kind = "signOutAll" /\ req[r].step \in {"wipe", "wipeTokens"}
  /\ DeleteTokens(Tokens)
  /\ Goto(r, IF req[r].step = "wipe" THEN "wipeDevices" ELSE "save")
  /\ UNCHANGED <<user, device, access, stamps, minted, pwOf, retired>>

WipeDevices(r) ==
  /\ req[r].kind = "signOutAll" /\ req[r].step \in {"wipe", "wipeDevices"}
  /\ DeleteDevices(Devices)
  /\ Goto(r, IF req[r].step = "wipe" THEN "wipeTokens" ELSE "save")
  /\ UNCHANGED <<user, rtok, access, stamps, minted, pwOf>>

\* ... and only then is the stamp replaced.
SignOutAllSave(r) ==
  /\ At(r, "signOutAll", "save")
  /\ Draw(req[r].u.pw)
  /\ SaveUser([req[r].u EXCEPT !.stamp = stamps + 1])
  /\ Finish(r)
  /\ UNCHANGED <<device, rtok, access, minted>>

\* handleDeleteDevice and handleDeactivateDevice: the tokens, then the device.
DeleteDeviceTokens(r) ==
  /\ At(r, "deleteDevice", "deleteTokens")
  /\ DeleteTokens({t \in Tokens : rtok[t] # NoToken /\ rtok[t].dev = req[r].dev})
  /\ Goto(r, "deleteRow")
  /\ UNCHANGED <<user, device, access, stamps, minted, pwOf, retired>>

DeleteDeviceRow(r) ==
  /\ At(r, "deleteDevice", "deleteRow")
  /\ DeleteDevices({req[r].dev})
  /\ Finish(r)
  /\ UNCHANGED <<user, rtok, access, stamps, minted, pwOf>>

-----------------------------------------------------------------------------
(* Requests of an administrator, signed in to another account.             *)

StatusRead(r) ==
  /\ Exists(user)
  /\ \E b \in BOOLEAN :
       Start(r, "status", [Idle EXCEPT !.step = "save", !.u = [user EXCEPT !.active = b]])
  /\ UNCHANGED <<user, device, rtok, access, stamps, minted, pwOf, retired>>

StatusSave(r) ==
  /\ At(r, "status", "save")
  /\ SaveUser(req[r].u)
  /\ IF req[r].u.active THEN Finish(r) ELSE Goto(r, "purge")
  /\ UNCHANGED <<device, rtok, access, stamps, minted, pwOf>>

DeleteUserRead(r) ==
  /\ Exists(user)
  /\ Start(r, "deleteUser", [Idle EXCEPT !.step = "purge"])
  /\ UNCHANGED <<user, device, rtok, access, stamps, minted, pwOf, retired>>

\* DELETE FROM users; its devices and tokens go with it (ON DELETE CASCADE).
DeleteUserRow(r) ==
  /\ At(r, "deleteUser", "dropUser")
  /\ user' = NoUser
  /\ device' = [d \in Devices |-> 0]
  /\ retired' = retired \cup (({user.stamp} \cup {device[d] : d \in Devices}) \ {0})
  /\ DeleteTokens(Tokens)
  /\ Finish(r)
  /\ UNCHANGED <<access, stamps, minted, pwOf>>

-----------------------------------------------------------------------------
\* A worker is evicted or a statement fails: the rest never runs.
Abort(r) ==
  /\ req[r] # Idle
  /\ Finish(r)
  /\ UNCHANGED <<user, device, rtok, access, stamps, minted, pwOf, retired>>

LoginStep(r) ==
  \/ \E d \in AnyDevice : LoginRead(r, d)
  \/ LoginRecover(r) \/ LoginUpgrade(r) \/ LoginReadDevice(r)
  \/ LoginUpsertDevice(r) \/ LoginRereadDevice(r) \/ LoginIssue(r)

RefreshStep(r) ==
  \/ \E t \in Tokens : RefreshLookup(r, t)
  \/ RefreshReadUser(r) \/ RefreshDrop(r) \/ RefreshBindUser(r)
  \/ RefreshReadDevice(r) \/ RefreshBindDevice(r) \/ RefreshExtend(r)

AccountStep(r) ==
  \/ \E kind \in AccountKinds : Authorize(r, kind)
  \/ ReadAccount(r) \/ ChangePasswordSave(r) \/ SecondFactorSave(r) \/ ProfileSave(r)
  \/ RecoverRead(r) \/ RecoverSave(r) \/ PurgeTokens(r)
  \/ WipeTokens(r) \/ WipeDevices(r) \/ SignOutAllSave(r)
  \/ DeleteDeviceTokens(r) \/ DeleteDeviceRow(r)

AdminStep(r) ==
  StatusRead(r) \/ StatusSave(r) \/ DeleteUserRead(r) \/ DeleteUserRow(r)

Next ==
  \/ \E r \in Requests : LoginStep(r) \/ RefreshStep(r) \/ AccountStep(r) \/ AdminStep(r) \/ Abort(r)
  \/ \E t \in Tokens : Revoke(t) \/ Expire(t)

Spec == Init /\ [][Next]_vars

-----------------------------------------------------------------------------
TypeOK ==
  /\ user \in UserRow
  /\ device \in [Devices -> Stamps]
  /\ rtok \in [Tokens -> TokenRow]
  /\ access \subseteq AccessToken
  /\ req \in [Requests -> Request]
  /\ stamps \in Stamps \ {0}
  /\ minted \subseteq Tokens
  /\ pwOf \in [Stamps -> Stamps]
  /\ retired \subseteq Stamps

\* A session, at rest in refresh_tokens or signed into an access token, whose
\* stamp is the account's present one was opened with the account's present
\* password: however stale the row a request saves, a password and its stamp
\* travel together.  Rows older than the stamp columns carry no such promise.
SessionKnowsPassword ==
  /\ \A t \in Tokens \ LegacyTokens :
       rtok[t].sst = user.stamp => rtok[t].pw = user.pw
  /\ \A a \in access :
       a.sst = user.stamp /\ a.tok \notin LegacyTokens => a.pw = user.pw

\* Two logins from one device settle on one session: a stamp handed out in a
\* token is the device's present one unless a deletion has taken it away.
DeviceSessionAgreed ==
  /\ \A t \in Tokens : rtok[t].dst # 0 => rtok[t].dst \in retired \cup {device[rtok[t].dev]}
  /\ \A a \in access : a.dst # 0 => a.dst \in retired \cup {device[a.dev]}

\* Whatever order saves and verifier upgrades come in, the password never
\* changes under an unchanged security stamp: no session outlives its password.
PasswordMovesStamp ==
  [][Exists(user) /\ Exists(user') /\ user'.pw # user.pw => user'.stamp # user.stamp]_vars

\* A refresh token once deleted (log-out, purge, expiry) is never in the table
\* again, whatever refresh of it was under way.
DeletedTokenStaysDeleted ==
  [][\A t \in minted : rtok[t] = NoToken => rtok'[t] = NoToken]_vars

\* An access token is signed only while the refresh token of its session is in
\* the table: a refresh that lost to a log-out signs nothing.
SignedFromLiveToken ==
  [][\A a \in access' \ access : rtok'[a.tok] # NoToken]_vars

\* The stamps of a row, once set, stay: refreshes that race to bind an old
\* token never move it to a later password or a later device session.
BoundStampIsFinal ==
  [][\A t \in Tokens : rtok[t] # NoToken /\ rtok'[t] # NoToken =>
       /\ rtok[t].sst # 0 => rtok'[t].sst = rtok[t].sst
       /\ rtok[t].dst # 0 => rtok'[t].dst = rtok[t].dst]_vars

\* The stamps of a session, in its row as in an access token.
MarkOf(x) == [dev |-> x.dev, dst |-> x.dst, sst |-> x.sst]

Life == INSTANCE SessionLife WITH
  Ids      <- Tokens,
  Old      <- LegacyTokens,
  Marks    <- [dev: AnyDevice, dst: Stamps, sst: Stamps],
  Unmarked <- MarkOf(NoToken),
  phase    <- [t \in Tokens |-> IF rtok[t] # NoToken THEN "live"
                                ELSE IF t \in minted THEN "ended" ELSE "new"],
  marks    <- [t \in Tokens |-> MarkOf(rtok[t])],
  signed   <- {[id |-> a.tok, mark |-> MarkOf(a)] : a \in access}

\* A session keeps its stamps for life: a refresh that read the account or the
\* device at any moment signs with the very stamps the log-in stored, never
\* with those of a later password or a later session of its device, and
\* nothing once the session has ended.
SessionKeepsItsStamps == Life!LifeSpec

\* "security stamp - invalidates token when user changes password": a stamp
\* that a password change replaced is not the account's stamp again.
RetiredStampStaysRetired == user.stamp \notin retired

\* "device identifier - invalidates per-device sessions": the session stamp of
\* a deleted device is not a device's stamp again.
RemovedDeviceStaysRemoved == \A d \in Devices : device[d] \notin retired
=============================================================================
