# FlexVault: TLA+ models, model checks and proofs

FlexVault is a self-hosted, Bitwarden-compatible password server. The same code
runs as a Cloudflare Worker (D1, R2 or KV, Durable Objects) and as a Node.js
process (SQLite, a directory of files, in-process replacements for the rest).
There is no transaction around a request. A handler awaits the database many
times, other requests run at every `await`, and a request may stop between two
of them. What the server promises about sessions, one-time links, limits and
approvals therefore rests on which statement is conditional, on what a handler
re-reads, and on the order of its writes. These modules model that.

Paths such as `handlers/identity.ts` are relative to the repository's `src/`.

## 1. The system

| Component | State it keeps | Operations | Talks to |
|---|---|---|---|
| Accounts and sessions | `users` (password hash, security stamp, role, status), `devices` (session stamp), `refresh_tokens` (stamps it was issued for) | log-in, refresh, revoke, password and second-factor changes, recovery, device removal, sign-out, ban, deletion | caches, throttle, auth requests, notifications |
| Access-token caches | per process: user by id, device by user and device, each with a time to live | `verifyAccessTokenWithUser`: lookup, fill, re-read, invalidate | account and device rows |
| Log-in throttle | `login_attempts_ip`: attempts, `locked_until` | check, count a failure, lock, clear, clean up | log-in handler |
| Request budgets | an edge-cache counter and a row per window | consume | every router |
| Auth requests | `auth_requests`: device, type, answer, used mark, creation time | create, list, answer, use in a log-in, prune | log-in, notifications |
| Sends | `sends`: access count, limits, dates; an object in the store | create, edit, upload, access, delete | download links |
| Download links | nothing per link but a signature; `used_attachment_download_tokens` | issue, verify, consume, clean up | Sends, attachments |
| Vault items | `ciphers`, `folders` | create, full and partial update, bulk moves, import | revisions, attachments |
| Sync and revisions | `user_revisions`, a response cache keyed by revision | sync, update the revision | every vault write |
| Attachments and objects | `attachments`, objects in R2, KV or files | create, upload, delete, download | vault items, links |
| Registration and invites | `users`, `invites` | first user, invite reservation, its reversal | administration |
| Passkeys and second factors | challenges, passkeys, TOTP replay rows, Yubico settings | challenge, consume, register, bootstrap | log-in |
| Backups | settings and runtime records, lease of the transfer runner | configure, run, upload, verify, prune, restore | all tables, objects |
| Notifications | sockets and one-time connection tokens of a hub | connect, broadcast, expire | every write that clients see |
| Self-hosted platform | SQLite file, object directory, an in-process hub | adapters with the Workers interface | everything above |
| Administration and audit | audit log | ban, delete, invites, log | sessions, registration |
| Web vault | the vault in memory and in IndexedDB, each with a revision stamp | load, patch, stamp, invalidate | sync, revisions, notifications |
| Routing, domain rules | none, or single rows written whole | dispatch, formatting | the rest |

### Where it is hard

* **Interleaving.** `saveUser`, `saveCipher` and `saveSend` write every column
  from a copy the handler read earlier. The refresh path, the device log-in and
  the answer to an auth request use conditional updates instead. The two styles
  meet on the same rows.
* **Partial failure.** Password change, sign-out and account deletion are two or
  three statements in a fixed order. A use of an auth request is three.
* **Caches.** A verified user or device may be cached for a while in every
  process. Only the process that makes a change invalidates its own entries.
* **Time.** A signed link expires in whole seconds, its record in milliseconds.
  Locks and auth requests expire between a check and its use.
* **Limits.** The access count of a Send is checked on a copy and incremented by
  a conditional statement. The log-in counter is incremented after the check.

### What makes each component correct

* *Sessions*: a session only ever belongs to the password it was opened with; a
  new password takes a new stamp; what was revoked stays revoked; two log-ins of
  one device agree on its session.
* *Caches*: a replaced stamp is refused after a bounded time, a current one is
  never refused.
* *Throttle*: the failures a lock lets through are bounded and every lock ends.
* *Auth requests*: an answer is final, is given to the newest request of what
  the approver saw, and serves a bounded number of log-ins.
* *Sends*: accesses stay within the limit up to what concurrent edits give back,
  and a deleted Send leaves no object behind.
* *Download links*: a link is used once.
* *Vault*: no accepted full update loses another one, a sync shows one revision.
* *Attachments*: a deletion leaves no object behind, wherever it stops, and an
  upload does not replace what another has stored.
* *Registration*: one active administrator, an invite used once or given back.
* *One-time resources*: a challenge or a code is accepted once, the Yubico
  credentials are created once; the last second factor is not removed by mistake.
* *Backups*: one job at a time; no slot without a backup; what is on record as
  stored is stored; a restore is all or nothing.
* *Web vault*: a copy that is taken for current lacks no change.
* *Notifications*: a connection token opens one socket.

`PROJECT.json` lists the places in the code where each of these could go wrong
(`hazards`), with the properties that cover them.

## 2. Conventions

* One action is one SQL statement or one object-store call, with the plain code
  around it. A statement is atomic; nothing spans two of them. `db.batch` is one
  action.
* A request is a slot with its next step and the copies it holds. Between two
  steps anything else may happen. Where a request may stop half-way, an action
  `Abort` or `Crash` frees the slot at any step and undoes nothing.
* Random identifiers and stamps are numbers from a counter, so that no two
  are equal and age can be compared. Passwords are named by the stamp drawn with
  them. Nothing of the cryptography is modelled beyond "only the server signs".
* Variables that the code does not have are history variables: `pwOf`, `minted`,
  `retired`, `guesses`, `grants`, `late`, `firsts`, `stale`, `gone`, `sessions`,
  `changes` of `Vault`, `unsettled`, `dates`, `collided`, `saved`, `twins`;
  `accepted` (and the flag `stale` of a request) of `Passkeys`, `passes` of
  `TotpReplays`, `created` of `YubicoBootstrap`, `bought` and `excused` of
  `Registration`, `lateFiles` and `stores` of `Attachments`, `stalled`, `mixed`
  (and `begun`, `quiet`, `failure` of a job) of `BackupJobs`, `covered` (and `began`
  of a load) of `VaultCache`; and the counters of crashes, failures and edits. No
  guard reads one, except those that enforce a bound, and `covered`, which ends a
  behaviour about which nothing more is claimed.
* Some definitions are commented `Mutant of ...`: they are the same operation
  with a plausible mistake. No specification uses them. Each property
  of a passing run has one that, put in place of the original, violates it.
* Every module has a type invariant (`TypeOK`, `PasskeyTypeOK`, ...). All are
  proved; the runs check those of `Sends`, `AuthRequests` and `BackupJobs`
  as well.
* Proofs of one component are in `<Module>Proofs`; three modules of proofs serve
  several: `CacheProofs` (`AuthCache`, `VaultCache`), `OneTimeProofs`
  (`DownloadLinks`, `Passkeys`, `TotpReplays`, `YubicoBootstrap`) and
  `StoredFileProofs` (`Sends`, `Attachments`, `BackupJobs`).
* The modules `MC...` give instances. Some hold several components that share
  no variable: one of them is chosen in the initial state and the others stand
  still (`HostSpec`). Their state spaces add up instead of multiplying, and a
  component is checked exactly as it would be alone. Where deadlock is checked, a
  hosted component whose bounds are used up may stutter (`HostStops`).

## 3. The modules

### Sessions (`Sessions.tla`)

One account, its devices, its refresh tokens and the access tokens signed for
it. The row of `users` is a record of the stamp, the password it was drawn for,
whether the verifier is of the legacy kind, and the status.

| Actions | Code |
|---|---|
| `LoginRead`, `LoginRecover`, `LoginUpgrade`, `LoginReadDevice`, `LoginUpsertDevice`, `LoginRereadDevice`, `LoginIssue`, `PurgeTokens` | the password grant of `handleToken`, `persistAndResolveDeviceSession`, `upgradePasswordVerifier`, `generateRefreshToken` |
| `RefreshLookup`, `RefreshReadUser`, `RefreshDrop`, `RefreshBindUser`, `RefreshReadDevice`, `RefreshBindDevice`, `RefreshExtend` | `refreshAccessTokenDetailed` with its conditional binds and its conditional extension |
| `Revoke`, `Expire` | log-out; clean-up of expired tokens |
| `Authorize`, `ReadAccount`, `ChangePasswordSave`, `SecondFactorSave`, `ProfileSave`, `RecoverRead`, `RecoverSave` | `verifyAccessTokenWithUser`, then the handlers that read the account, change it and save the whole row |
| `WipeTokens`, `WipeDevices`, `SignOutAllSave`, `DeleteDeviceTokens`, `DeleteDeviceRow` | removal of all devices or of one |
| `StatusRead`, `StatusSave`, `DeleteUserRead`, `DeleteUserRow` | ban and deletion by an administrator |
| `Abort` | a request that stops between two statements |

A save writes the copy (`SaveUser`), exactly as `saveUser` does, so the model has
the lost updates of the code. What it shows is which promises survive them:

* `SessionKnowsPassword`, `PasswordMovesStamp`: password and stamp are always
  written together, so even a stale save keeps them matched.
* `DeviceSessionAgreed`: two log-ins of a new device settle on one stamp.
* `DeletedTokenStaysDeleted`, `SignedFromLiveToken`, `BoundStampIsFinal`: what
  the conditional statements of the refresh path are for.
* `SessionKeepsItsStamps`: `Sessions` implements `SessionLife`.
* `RetiredStampStaysRetired`, `RemovedDeviceStaysRemoved`: what the comments in
  `types/index.ts` say of the two stamps. The runs show that they do not hold
  (section 6).

### The life of a session (`SessionLife.tla`)

The abstract specification of a refresh token: its session is opened once
(`Open`), signs access tokens while it lives (`Sign`), all with the stamps it was
opened with, and has ended for good after `End`. The session of a row from before
the stamp columns has its stamps filled in, each once (`Fill`), and promises
only its device of what it signs: two refreshes of such a row on both sides of a
change sign with different stamps, one of which is not the one stored.

`Sessions` maps a token to `live` while it has a row, to `ended` when it was drawn
and has none, and what requests hold to nothing. A log-in's `LoginIssue` is
`Open`, `RefreshExtend` is `Sign`, the binds are `Fill`, every deletion is `End`,
and all else is a stutter: also each read of a refresh, although what it reads
may be changed before it signs.

### Access-token caches (`AuthCache.tla`)

`Sessions` verifies a token against the rows. `AuthCache` says by how much the
caches of a process delay that: `Lookup`, `Read`, `Put`, `Match`, `Mismatch`
(read again once, then refuse), `Answer`; `Change` with or without an
invalidation to come, `Invalidate`, `Tick`. A row is the version of its stamp.
The model is of one process, because another process is visible in the database
only: it changes a row and invalidates nothing here.

* `RevocationIsBounded`: a replaced stamp is accepted for at most `MaxDelay ==
  Latency + (Ttl - 1) + Latency`. The bound is tight: with one tick less the run
  fails. The first `Latency` is a row read before the change and put into the
  cache after it and after its invalidation.
* `RefusedOnlyIfReplaced`: a stale cache never refuses a current token.

### Log-in throttle (`LoginThrottle.tla`)

The row of one key and the attempts that pass it: `Check`, `DropExpired` (the
unconditional DELETE of an expired lock), `Count`, `Look`, `Lock`, `Clear`,
`Challenge` (an attempt that neither fails nor succeeds), `Cleanup`, `Crash`,
`Tick`. The retention of `Cleanup` is not timed: it may remove
a row whenever its lock does not run and no attempt has just written it.

* `GuessesBounded`: a row absorbs fewer failures than the threshold plus the
  attempts in flight plus the attempts that stopped half-way.
* `LockEnds`: a lock ends, under `WF(Tick)`.

### Auth requests (`AuthRequests.tla`)

The rows of one user. `Create`, `Insert` (the date is taken one step before the
row is stored), `ListPending`, `ReadRow`, `List`, `Respond`, `Validate`, `Mark`,
`Issue`, `Crash`, `Tick`. Every list prunes what has expired. A wrong access code
is a failed log-in and belongs to the throttle.

* `SessionsBounded`: an approved request serves at most the log-ins that were
  validated together. The log-in does not look at the result of its mark.
* `AnswerIsFinal`: of two approvers one decides.
* `NewestIsAnswered`: an answer never goes to a request that a newer one, still
  open and on the approver's list, had replaced.

### Sends (`Sends.tla`)

One file Send: the row and the object. `AccessRead`, `Increment` for visitors;
`UpdateRead`, `UpdateSave`, `UploadRead`, `UploadCheck`, `UploadPut`, `DeleteRead`,
`DeleteBlob`, `DeleteRow` for owners; `Expire` (the dates pass) and `Crash`. An
edit saves the copy it read, the access count included, and inserts the row when
it is gone.

* `LostAccessesBounded`: one save gives back at most one full limit.
* `GrantsAreAllowed`: no access is granted against a stored row that does not
  allow it, however stale the copy the password was checked on.
* `OrphansAreLate`: a deleted Send leaves an object only behind an upload that
  outlasted the deletion.
* `GrantsWithinLimit`: the limit itself, which a stale edit breaks (section 6).

### Download links (`DownloadLinks.tla`)

Signed links to one object, used by downloads in parallel: `Issue`, `Verify` (in
whole seconds), `ReadRow`, `CleanUp` and `Consume` (in milliseconds, here half
seconds), `Fetch`, `DeleteBlob`, `Tick`. It serves attachments and file Sends;
their links differ in the claims only.

* `UsedOnceWhileValid`: until its expiry a link passes as unused once.
* `UsedOnce`: ever, which the last second breaks (section 6).

### Vault (`Vault.tla`)

One cipher, the revision date of its user and the cached answers of `/api/sync`.
What a cipher contains is the number of the change that stored it. Trash,
archive, favourite and folder are contents: no statement but those of the bulk
handlers looks at them, and a refusal because of them is an `Abort`.

| Actions | Code |
|---|---|
| `ReadRow`, `Update` | `handleUpdateCipher` with `updateCipherIfUnchanged`; kind `repair` preserves the date |
| `ReadRow`, `Save` | partial update, archive, trash, restore, `updateCipherRevisionDate` of an upload: `saveCipher`, an upsert |
| `BulkStart`, `Bulk`, `Remove` | the bulk statements, folder deletion, permanent deletion |
| `StoreOther` | a statement on another row: a folder, a Send, the attachments, the next chunk of an import |
| `Revise` | `updateRevisionDate`, always in a statement of its own and last |
| `SyncRevision`, `SyncInsert`, `SyncLookup`, `SyncRows`, `SyncPut`, `Evict` | `handleSync`, `getRevisionDate`, the response cache |
| `Abort`, `SyncStop`, `Tick` | refusal or a request that stops; the clock |

A date is computed between two awaits. It may be any millisecond between the
answer to the former statement and the sending of the latter, so a later
statement may bear an earlier date.

* `UpdateReplacesWhatItRead`: an accepted full update replaces the row its
  handler read, not merely a row with that id: also not one that was deleted and
  inserted again.
* `CachedSyncIsCurrent`: a sync from the cache misses only changes whose request
  has not moved the revision yet (or stopped before it did).

Both hold while no millisecond is used twice (`twins`, `collided`). This is the
limit of the design: the dates are the version numbers. A `repair` is such a
second use on purpose. `SyncRows` reads all tables in one action though the
code sends five queries: each of them lies between the look into the cache and
the `put`, so the argument holds for each table at its own moment.

### Passkeys (`Passkeys.tla`)

The passkeys of one account and the WebAuthn challenges. A handler is a path of
statements: `Path` gives for each scope the order in which it selects and claims
the challenge, reads, counts or saves a passkey. The two kinds of log-in differ
here: the one without a password claims the challenge first, the second factor reads
the passkey first.

| Actions | Code |
|---|---|
| `AskOptions`, `Sweep`, `InsertChallenge` | the options handlers, `saveAccountPasskeyChallenge` |
| `Present`, `SelectChallenge`, `Claim`, `ReadCredential`, `Touch` | log-in, second factor, new keys: `consumeAccountPasskeyChallenge`, the counter and the sealed keys |
| `CountCredentials`, `Absent`, `SaveCredential` | registration of a passkey |
| `RemoveLoginPasskey`, `ListFactors`, `RemoveFactor` | deletion of one |
| `ListForRecovery`, `DropFactor` | a log-in with the recovery code, or the second factor turned off |
| `Abandon`, `ChallengeTick` | a refusal or a request that stops; the clock |

* `ChallengesSpentOnce`: consuming challenges implements `OneTimeTokens`.
* `RemovedKeyRefused`: a request that began after a passkey was removed does not
  succeed with it.
* `PasskeysBounded`: the limit is exceeded by the requests in flight less one at most.
* `LastFactorKept`: the last second factor goes by a recovery, or when two
  removals overlapped, and in no other way.

### Authenticator codes (`TotpReplays.tla`)

A code is the number of its 30-second step. `MatchCode` accepts what lies within
the window of the clock, `ConsumeCounter` inserts the marker, `PurgeMarkers` deletes
old ones with a clock that may be old itself, `DropLogin` stops, `ClockTick`.

* `CodesPassOnce`: consuming codes implements `OneTimeTokens`, although markers are
  deleted. This needs `2 * CodeWindow + MaxLatency <= MarkerTicks`: with the
  constants of the code (window 1, ten steps) a request may take four minutes.

### One-time tokens (`OneTimeTokens.tla`)

The abstract specification of the two: a token is open until it is used or
lapses, and never opens again. `Passkeys` maps the challenges that are not issued or
unused in the table to `open`, `TotpReplays` the counters that nobody
has used and that a request can still hold.

### Yubico bootstrap (`YubicoBootstrap.tla`)

The first use of a YubiKey requests credentials for the server under a claim that
expires: `FindNone`, `ExpireClaim`, `InsertClaim`, `Recheck`, `AskYubico`,
`CheckAgain`, `StoreCredentials`, `ReleaseClaim`, `Stop`, `AdminStores`, `ClaimTick`.

* `BootstrapsOnce`: of all requests that store credentials before their own claim
  runs out there is one at most. A request that outlives its claim may store
  others over them, for the call to Yubico has no timeout.

### Registration (`Registration.tla`)

Accounts and invites. `CountUsers` decides between the first account
(`CreateFirst`) and one by invite (`MarkInvite`, `CreateUser` or `CreateFails`,
then `AssignInvite` or `RevertInvite`). The administrator: `CreateInvite`,
`DeleteInvites`, `ReadTarget` with `SaveTarget` or `DeleteTarget`. `ExpireInvite`,
`StopSignup`. An insertion that fails may have been done: the handler cannot tell.

* `OneActiveAdmin`: as long as there are accounts there is one administrator, and
  he is active.
* `InviteMakesOne`, `NoInviteLost`: an invite makes one account, and is not used
  up by a registration that was refused or failed.

### Attachments (`Attachments.tla`)

The attachments of one cipher: rows, objects, and the row of the cipher, which
every change of an attachment saves for its new date.

| Actions | Code |
|---|---|
| `Create`, `InsertRow`; `Begin`, `SaveMetadata` | `handleCreateAttachment`, `handleUpdateAttachmentMetadata` |
| `Head`, `Put` | `processAttachmentUpload` |
| `DeleteObject`, `DeleteAttachment` | `handleDeleteAttachment` |
| `Touched`, `SaveCipher` | `updateCipherRevisionDate`, an upsert |
| `Purge`, `ListAttachments`, `DeleteListedObject`, `DeleteListedRows`, `DeleteCipher` | permanent deletion of the cipher |
| `StopChange` | a call that fails, a request that stops |

* `AttachmentOrphansAreLate`: an object without a row was stored by an upload
  during or after a deletion. A deletion that stops leaves rows without objects,
  which can be deleted again, and never the reverse.
* `UploadsNotRepeated`: an object is stored again only by uploads that were in
  flight at the time.

### Backups (`BackupJobs.tla`)

The durable object that runs backups under a lease, and what a run does.

| Actions | Code |
|---|---|
| `RunScheduled`, `RunManual`, `RestoreRemote` | `acquireJob`, then the job |
| `Scan`, `Pick` | `runScheduledBackups`: rounds until nothing is due |
| `ReadRecord`, `WriteAttempt`, `Upload`, `Verify`, `VerifyFails`, `Prune`, `PruneFails`, `ReadForSuccess`, `WriteSuccess`, `FailRun`, `WriteFailure` | `executeConfiguredBackup`, `updateBackupDestinationRuntime` |
| `RestoreEnds`, `KeepAlive` | the import as a whole; a touch during a long call |
| `ReadSettings`, `SaveSettings` | `handleUpdateAdminBackupSettings`, outside of the lease |
| `Restart`, `BackupTick` | the platform moves or restarts the object; the clock |

Every step of a job ends with `touchJob`, which is skipped when the heartbeat, in
memory and shared by all jobs, is recent.

* `OverlapNeedsStall`: two jobs run at once only after one of them let
  `StallTicks == LeaseTicks - HeartbeatTicks + 1` pass without a touch: less than
  a whole lease, for a touch that is skipped may have come a heartbeat after the
  last renewal.
* `OnlyOwnLeaseEnds`: a job that lost its lease neither renews nor ends another's.
* `RecordedIsStored`: a success on record has an archive, of the size that was
  sent, at least as new. The size is what the code compares; whether the
  contents are right it looks at only when the destination reports no size. Two
  things outside of the model take the archive away and leave the record: an
  administrator who deletes it by hand (`handleDeleteAdminRemoteBackup`,
  `handlers/backup.ts:1094`, which takes no lease), and a restore that replaces
  the settings with those of the archive (`RestoreEnds` leaves the record alone).
* `NoSlotLost`: a scheduled job that ends without a failure has served every slot
  of its time, for it looks back at what came up while a run kept it busy.
  `DueNow` sees a slot only until its window ends or the local day does
  (`SameDay`, `Midnights`); `SlotBetween` looks past both.

### Copies in the web vault (`VaultCache.tla`)

The client's snapshot in memory and in IndexedDB, each with a stamp, and the data
shown. A snapshot is the set of changes it contains.

| Actions | Code |
|---|---|
| `StartLoad`, `ReadDisk`, `AskRevision`, `MatchRevision`, `ReadAgain`, `Sync`, `Arrive`, `FallBack` | `loadVaultCoreSyncSnapshot` |
| `InvalidateCopies` | `invalidateVaultCoreSyncSnapshot` |
| `PatchItem` | a notification of one item |
| `MakeOwnChange`, `PatchOwnChange`, `SavePatch`, `AskRestamp`, `Restamp`, `LoseOwn` | an item saved here: `patchVaultCoreSnapshot`, `saveVaultCoreSyncSnapshot`, `refreshVaultCoreRevisionStamp` |
| `OthersChange`, `Reopen` | another client; the tab closed and opened |

* `FreshIsComplete`: a copy with the account's revision lacks nothing, unless a
  patch put a stamp on data that lacked a change (`covered`, section 6).
* `LoadsCatchUp`: a load that does not fall back shows every change made before it
  began, however its copies came about.

### How they fit together

The modules share no variable yet: each has the rows that only it writes.
`AuthCache` refines the atomic verification of `Sessions`; a failed log-in of
`Sessions` or `AuthRequests` is a `Count` of `LoginThrottle`; a granted access of
`Sends` precedes an `Issue` of `DownloadLinks`; a `Recover` of `Sessions` drops the
factors of `Passkeys`; an account that `Registration` inserts, bans or deletes is the
one account of `Sessions`; the touch of the cipher in `Attachments` is a `Save` of
`Vault`; the revisions that `VaultCache` asks for are those `Vault` moves.
`Passkeys` and `TotpReplays` instantiate `OneTimeTokens`, `Sessions` instantiates
`SessionLife`. Compositions of
modules that share variables are in the plan.

## 4. The runs

Symmetry is used on slots and identifiers that no definition tells apart, and in
no run with a liveness property.

| Run | Instance | Distinct states | Shows |
|---|---|---|---|
| `sessions_account` | 2 requests, no device, 2 tokens of which one legacy, 3 stamps; log-in, refresh, password, recovery, second factor, profile, ban | 699 k | password and stamp stay matched whatever save overwrites another; binds of legacy tokens are final |
| `sessions_device` | 2 requests, 1 device, 2 tokens of which one legacy, 4 stamps; log-in, refresh, removal of one device or all, deletion | 867 k | device log-ins agree; a deleted token stays deleted; refreshes sign from live tokens, with the stamps of the log-in |
| `sessions_stale_write` | log-in, password, profile | violation | a profile update revives a retired stamp |
| `sessions_removed_device` | 1 device; log-in, removal | violation | a log-in revives a removed device session |
| `throttle` | `LoginThrottle`: 3 attempts, threshold 3, lock of 2 ticks, 2 stop half-way. `TotpReplays`: 2 log-ins, window 1, markers of 3 steps, latency 1, 5 steps. `YubicoBootstrap`: 3 requests, claims of 1 tick, 3 claims | 115 k | bound on failures; a lock ends; a code passes once; one bootstrap |
| `sends` | `Sends`: 2 visitors, 2 owner requests, limit 2, 2 edits, 1 stops. `Attachments`: 2 files, 2 requests, 1 permanent deletion. `BackupJobs`: 2 jobs in flight or one after another, 2 destinations with a slot each, retention 1, lease 2, heartbeat 1, window 2, one of them cut by a midnight, 2 uploads per run, 3 archives, clock 2 | 2.8 M | bounded loss, grants allowed by the row, orphans explained; uploads not repeated; leases, slots and records of backups |
| `sends_stale_edit` | 2 visitors, 1 owner request | violation | an access beyond the limit |
| `links_valid` | `DownloadLinks`: 2 links, 2 downloads, life of 2 s, 3.5 s of clock. `Passkeys`: 2 requests, 2 challenges, 3 passkeys, every scope but `UpdateKeySet` (the statements of `Authentication`, the last one twice), limit 1, challenges of 1 tick | 625 k | one use while valid; challenges spent once; limits and removals of passkeys |
| `links_reused` | `DownloadLinks` as above | violation | a second use in the last second |
| `auth_cache` | `AuthCache`: 2 verifications, TTL 1, latency 1, 2 versions of each row. `VaultCache`: 2 loads, 3 revisions | 3.8 M | revocation bounded; no false refusal; copies of the web vault complete |
| `vault` | 2 writers, 1 sync, 2 changes, 2 milliseconds, all kinds | 1.9 M | accepted updates replace what they read; the sync cache is current |
| `auth_requests` | `AuthRequests`: 2 requests of 1 device, 2 creators, 2 approvers, 2 log-ins, expiry 2, clock 3. `Registration`: 4 accounts, 2 e-mails, 1 invite, 2 registrations, 1 administrator's request, 1 failed insertion | 348 k | final answers, newest first, bounded service; one administrator, invites used once or given back |

**Why the bounds are enough.** Every race in these components is between two
requests and a third change (an administrator, a clean-up, a clock): two slots
of each kind that may be reused give all pairs and, one after another, longer
chains. In `sessions_device`
four stamps allow the initial one, the device's, and two changes; in
`sessions_account` three allow that a stamp is retired, replaced and
written back. A threshold of three with three slots
separates "reached" from "exceeded" and lets a failure arrive after the lock. A
life of two seconds with half-second ticks has a clock before, at, within the
second after and beyond the expiry. A cache entry lives one tick and a
verification may take one: then a read, a fill, a hit and an answer can each
fall on either side of a change. Two milliseconds and two changes of the vault
let a row be saved twice under different dates or the same, or deleted under a copy,
and let a revision move while a sync is under way; a row deleted and inserted again
between the read and the update of a third needs three writers, and is covered by
`VaultProofs!UpdatesReplaceWhatTheyRead` alone, not by the run. A limit of
one passkey with two requests separates "reached" from "exceeded", and three
passkeys leave one when two are removed. A second lease, slot, destination and
archive are what each property of the backups compares with the first, and a
midnight within a window ends one slot's time early. Three
revisions in the web vault are one before the tab was opened, one of another client
and one of its own. The theorems of section 5 lift the bound for
what they cover.

**Deadlock** is checked in `throttle`, `auth_cache`, `auth_requests` and `vault`, where some
request can always start or time can always pass, for the component that gives the
run its name; the others of a run use up a bound on claims, ids, revisions or the
clock and may then stop (`HostStops`). The runs of `Sessions`, `Sends`
and `DownloadLinks` set `CHECK_DEADLOCK FALSE`: a deleted account or Send ends the
model, and so do the bounds on stamps, tokens, edits and the clock. No request
waits for another in these components. The two locks there are, the lease of the
backups and the claim of the bootstrap, refuse whom they do not admit, and expire.

**Fairness** is assumed of one action, `Tick` of `LoginThrottle`: time passes. No
request is assumed to finish, for the client may go away and the platform may
stop the worker; all other properties are safety.

## 5. The proofs

All theorems hold for every value of the constants that meets the named
assumption of the module. Each rests on an inductive invariant in the module of
proofs, on one lemma for the initial states and on one for a step with one
case per action.

| Theorem | States | Argument |
|---|---|---|
| `SessionsProofs!TypeCorrect` | types | with `Directed`: a request at a device step has a device |
| `SessionsProofs!SessionsKnowPassword` | `SessionKnowsPassword` | a ledger `pwOf` records for which password a stamp was drawn. Account row, copies of requests, refresh tokens and access tokens all agree with it (`Matched`). The ledger only grows, and a save writes a pair that agrees, however old. Two pairs with one stamp then have one password |
| `SessionsProofs!PasswordsMoveStamps` | `PasswordMovesStamp` | from `Matched`: a step that keeps the stamp keeps what the ledger says of it |
| `SessionsProofs!DeletedTokensStayDeleted` | `DeletedTokenStaysDeleted` | only an issue inserts, with an identifier never drawn before; binds and the extension name a row that is there |
| `SessionsProofs!BoundStampsAreFinal` | `BoundStampIsFinal` | both binds are conditional on an empty stamp, an extension keeps both stamps |
| `SessionsProofs!SignedFromLiveTokens` | `SignedFromLiveToken` | a log-in inserts the row with the token it signs; a refresh signs in the step of its conditional extension, and only if that found the row |
| `SessionsProofs!DeviceSessionsAgree` | `DeviceSessionAgreed` | `DeviceInv`: a stamp read from a device's row is that row's or retired, for a row with a stamp keeps it until it is deleted; a candidate of a log-in is never handed out before the row was read again |
| `SessionsProofs!SessionsKeepTheirStamps` | `SessionKeepsItsStamps` | the refinement, from `LifeReady`: the row of a log-in's session is complete, so no refresh binds it; a refresh that read such a row goes on only if the account and the device it read have the stamps of its record (`RefreshReady`), and the record has the stamps of the row as long as there is one (`RecordIsRow`) |
| `SessionsProofs!OneMarkPerSession` | all access tokens of a log-in's session bear the same stamps | `SignedAlike`: while there is a row they bear its stamps; without one nothing is signed any more. In no run: a consequence of `SessionKeepsItsStamps` |
| `LoginThrottleProofs!ThrottleTypeCorrect` | types | |
| `LoginThrottleProofs!FailuresAreBounded` | `GuessesBounded` | counts by cardinality: without a lock, failures are below the threshold plus the attempts that have counted and not locked yet plus the crashes; with one, also plus the attempts that were admitted before it |
| `StoredFileProofs!SendTypeCorrect` | types | |
| `StoredFileProofs!AccessesAreBounded` | `LostAccessesBounded` | grants are at most the stored count plus one limit for each save |
| `StoredFileProofs!GrantsComeFromLiveRows` | `GrantsAreAllowed` | the increment is the only step that grants, and its conditions are those of the check |
| `StoredFileProofs!SendOrphansAreLate` | `OrphansAreLate` | an object that is not late has its row, and no deletion about to take the row away (`Referred`); a save writes back a row that was there (`CopiesExist`) |
| `StoredFileProofs!AttachmentsTyped`, `AttachmentOrphans` | types, `AttachmentOrphansAreLate` | an object that is not late has its row, and no deletion is about to take the row before the object (`Kept`); requests do the steps of their kind (`Roles`) |
| `StoredFileProofs!UploadsAreFew` | `UploadsNotRepeated` | by cardinality: times stored plus uploads that have looked and not stored yet are at most the slots, for who looks later finds the object (`Budget`) |
| `StoredFileProofs!BackupsTyped` | `BackupTypeOK` | with `JobOK`: a job at a step of a run has a destination, and its archive is not newer than the last |
| `StoredFileProofs!LeasesEndByTime` | `OnlyOwnLeaseEnds` | renewal and release ask for the holder; a start asks for a lease that has run out |
| `StoredFileProofs!OverlapsNeedStalls` | `OverlapNeedsStall` | a job that has not stalled and is the holder has at least as much lease left as it may stay quiet, the touches that the heartbeat swallows included (`LeaseKept`); so a start finds nobody in flight |
| `StoredFileProofs!RecordsAreStored` | `RecordedIsStored` | `RecordsKept`: a job in flight is alone; what the record, and every copy of it that is still to be written back, names as stored is whole and kept by an archive that no job is about to delete or send again (`StoredAt`, `Tentative`); archives are numbered upwards, so a clean-up that keeps the newest keeps one as new |
| `StoredFileProofs!NoSlotIsLost` | `NoSlotLost` | every slot since the job began is covered by its destination's record (`Served`), or its destination is in the queue, in the run under way, or not looked at since the slot came (`Covered`) |
| `OneTimeProofs!LinksTypeCorrect` | types | |
| `OneTimeProofs!LinkUsedOnce` | `UsedOnceWhileValid` | until its expiry a used link is on record, so a second `Consume` sees it |
| `OneTimeProofs!PasskeysTyped`, `ChallengesAreOneTime` | types, `ChallengesSpentOnce` | the refinement: initial states map to initial states; `Claim` of an unused challenge maps to `Use`, a sweep to `Lapse`, everything else to a stutter |
| `OneTimeProofs!RemovedKeysStayRefused` | `RemovedKeyRefused` | a request that began after the removal still has the reading of the passkey ahead of it, and a passkey that is gone does not come back (`CallsOK`) |
| `OneTimeProofs!LastFactorIsKept` | `LastFactorKept` | a removal holds a list of at least two keys, each of which is in use or gone; if it removes the last one, another key of the list is gone |
| `OneTimeProofs!PasskeysStayBounded` | `PasskeysBounded` | by cardinality: keys in use plus requests that have counted and not inserted yet are at most the limit less one plus the slots (`RoomLeft`) |
| `OneTimeProofs!TotpTyped`, `CodesAreOneTime` | types, `CodesPassOnce` | the refinement, from: a counter that passed keeps its marker as long as a request can hold it (`PassedMarked`), for a request is not older than the latency (`LoginInTime`) |
| `OneTimeProofs!YubicoTyped`, `BootstrapOnce` | types, `BootstrapsOnce` | a request whose claim has not run out finds it in the row (`OwnClaim`), no two requests have one claim (`OwnersDiffer`), and while one with a live claim is about to store nobody has stored within a claim before (`StoreFirst`) |
| `CacheProofs!CacheTypeCorrect` | types | with `TokensAreSigned`: a token carries stamps that were current |
| `CacheProofs!RevocationsReachTheCache` | `RevocationIsBounded` | ages add up: a value is at most `Latency` old when it fills an entry, the entry ages by its life, a reader by its own latency (`EntriesAreRecent`, `ValuesAreRecent`) |
| `CacheProofs!CurrentTokensAreAccepted` | `RefusedOnlyIfReplaced` | the second reading is not older than the token, and the database is not older than that |
| `CacheProofs!VaultCacheTyped` | types | |
| `CacheProofs!FreshCopiesAreComplete` | `FreshIsComplete` | every copy, and every answer on its way, contains the changes up to its stamp (`Complete`); an own change in the making is one of the revision's (`OwnIsChange`) |
| `CacheProofs!LoadsAreCurrent` | `LoadsCatchUp` | the stamp a load has asked for is not older than its beginning |
| `AuthRequestsProofs!RequestsTypeCorrect` | types | with: a used request was approved |
| `AuthRequestsProofs!AnswersAreFinal` | `AnswerIsFinal` | the conditional update and the pruning are the only writes |
| `AuthRequestsProofs!ServedOnceTogether` | `SessionsBounded` | tokens issued plus log-ins validated and not finished are at most the slots; once a token is issued the request is spent and none validates anew (`ServedAreSpent`, `Counted`) |
| `AuthRequestsProofs!NewestAreAnswered` | `NewestIsAnswered` | of what an approver's list showed nothing overtakes the listed request (`ListedIsNewest`): when it is listed, a newer one would be pending too, since the older has not expired; afterwards a row keeps device, type and date, goes for good and is not opened again (`DrawnStays`) |
| `RegistrationProofs!RegistrationTyped` | types, unique e-mails | |
| `RegistrationProofs!AdminIsOneAndActive` | `OneActiveAdmin` | no request is about to ban or delete the administrator's row, for only he acts and he may not target himself; copies bear the role of their row, and an id in the hands of a registration has no row (`Governs`, `Copied`, `Unborn`) |
| `RegistrationProofs!InvitesMakeOne`, `InvitesAreGivenBack` | `InviteMakesOne`, `NoInviteLost` | an invite is reserved by one registration at a time, and what has made an account is used up for good (`HeldOnce`, `GivenToItsOwn`, `UsedIsHeld`) |
| `VaultProofs!VaultTypeCorrect` | types | |
| `VaultProofs!CachedSyncsAreCurrent` | `CachedSyncIsCurrent` | keys in the cache and in the hands of readers are dates computed before (`KeysAreDates`), so a new date meets none of them; under the present date what is cached or about to be cached misses only unsettled changes (`Current`) |
| `VaultProofs!UpdatesReplaceWhatTheyRead` | `UpdateReplacesWhatItRead` | a copy bears a date that was saved, and is the row if the row bears that date (`Traceable`): a row stored under a new date bears the date of no copy |

The strengthenings are needed because no property above is inductive: each
speaks of what is stored, while the next step depends on the copies that
requests hold.

Action properties about one statement (`GrantsAreAllowed`, `BoundStampIsFinal`)
need types only; the others need the invariant named.

TLC found each inductive invariant to hold on the instance of the component's run,
or on one of the same kind, before it was proved. Every property of a passing run
is stated by a theorem but one: `LockEnds` is a liveness property and only
model-checked, since liveness under fairness is out of the proof system's reach (as
are `ENABLED` and induction over data). The statements of the four runs that
expect a violation are refuted, not proved.

The theorems assume what the `...Assumption` of each module says: what is called
by different names differs, bounds are numbers, and the slots that a cardinality
counts are finite. `PasskeysAssumption` asks for at least one request slot: an account may start
with as many passkeys as the limit allows, which is less than the limit plus the
slots only if there is a slot. `TotpAssumption` asks that a marker outlives the
window and the longest request, `BackupAssumption` that the heartbeat is not longer
than the lease; both hold of the constants in the code.

## 6. Where code and documents differ

| Run | The documents say | The code does |
|---|---|---|
| `sessions_stale_write` | a password change invalidates tokens through the security stamp (`types/index.ts:479`) | `saveUser` writes the copy a concurrent update had read: the old password and stamp come back, and the tokens with them (`services/storage-user-repo.ts:71`) |
| `sessions_removed_device` | the device stamp invalidates the sessions of a device (`types/index.ts:480`) | a log-in that read the device before its removal inserts it again with the removed stamp (`handlers/identity.ts:61`) |
| `sends_stale_edit` | the increment of the access count is atomic and respects the limit (`services/storage.ts:708`) | a concurrent edit saves the count it read before (`services/storage-send-repo.ts:62`) |
| `links_reused` | a download token is consumed once (`services/storage.ts:963`) | the signature is valid for a part of a second longer than the record of the use, which the clean-up may delete first (`services/storage-attachment-token-repo.ts:27`) |

Seen while modelling and documented nowhere, so not stated as properties: the
link of the last permitted access to a file Send is refused, because the download
checks the raised count again (`handlers/sends-public.ts:294`); the lock of a
throttled key may land on a fresh row with one failure, or be deleted by an
attempt that had seen its predecessor expire (`services/ratelimit.ts:123`); a
refresh token of a row from before the stamp columns can be bound to a password
it was not opened with (`services/auth.ts:263`), and a second refresh of that row,
which had read the account before the change, signs with the other stamp; `saveCipher` inserts a cipher
again that was permanently deleted after its handler had read it
(`handlers/ciphers.ts:1149`); an update that preserves the date is not noticed
by a competing conditional update (`handlers/ciphers.ts:1081`); a
ban deletes the refresh tokens but leaves the stamp, so an access token signed before
it verifies again when the ban is lifted in time (`handlers/admin.ts:372`); a change of the
account moves no revision, so a cached sync shows the former profile until its
30 seconds are over (`handlers/sync.ts:67`).

In the components added since: `saveUser` of an administrator's request inserts an
account again that was deleted after it was read (`handlers/admin.ts:372`);
`updateCipherRevisionDate` does the same with a cipher
(`services/storage-attachment-repo.ts:213`); the branch for an upload whose size
differs is never taken, for such an upload is refused before
(`handlers/attachments.ts:148`). A save of the backup settings writes back the
runtime record it has read, and a success recorded in between is lost, so that
its slot is due again (`handlers/backup.ts:907`); a scheduled destination that fails is
tried again at once and as long as its window and the local day last
(`durable/backup-transfer-runner.ts:218`). In the web vault, the
stamp after an own change hides another client's change that is not shown yet,
until the next one or its notification (`webapp/src/App.tsx:1513`, the `covered`
of `VaultCache`); a load in flight overwrites the patch of an own change; and a
refresh joins a load that began before the change it is to show
(`webapp/src/lib/api/vault-sync.ts:80`).

## 7. Not modelled

* Notifications: the hub delivers on a best-effort basis and promises nothing;
  its one-time connection tokens are planned. Request budgets: the counter in the
  edge cache loses increments by design; the strict one is planned.
* The statements of a restore (one action of `BackupJobs`), contents of
  archives and settings, attachments beside an archive. Hence neither the settings
  that a restore brings, nor the deletion of an archive by hand
  (`handlers/backup.ts:1094`): `RecordedIsStored` and `RecordsAreStored` hold as
  long as neither happens.
* The contents of ciphers, folder ownership, and the account and passkeys in a
  sync, which move no revision.
* Creation of a Send, text Sends (the same row without an object), the access
  token of the second access protocol, quotas.
* Log-in by API key, passkey or client credentials: other checks in front of the
  same steps.
* Cryptography, WebAuthn and OTP arithmetic, archive formats, the WebDAV and S3
  clients, routing, formatting, domain rules, the audit log: stateless, or a
  single row written whole.
* The browser client except for its copies of the vault. It makes up two thirds of
  the repository's lines: word lists, translations, views, importers of foreign
  formats, client-side cryptography. None of this has state that interacts with
  what is modelled but through the requests the server modules take from any client.
* The adapters of the self-hosted platform. The modules assume of them what they
  provide: a statement or batch is atomic, a put replaces an object.

## 8. Plan

In order; what matters most first.

1. `FileSends`: `Sends` and `DownloadLinks` composed, with the raised count that the
   download checks again.
2. `SessionLife` extended by what a revoked session's access tokens still do, and
   until when, refined by `Sessions` with `AuthCache`.
3. Proofs: the refinement of item 2, once it is checked; the properties of the
   modules still to be written.
4. `Budgets` and `Notifications`: the strict budget beside its clean-up, connection
   tokens beside the alarm of the hub.
5. The statements of a restore, with a failure between any two.
