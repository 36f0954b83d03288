----------------------------- MODULE AuthCache -----------------------------
(***************************************************************************)
(* verifyAccessTokenWithUser over the caches that AuthService keeps in a   *)
(* process.                                                                *)
(*                                                                         *)
(* An access token carries the security stamp of its user and, when the    *)
(* log-in named a device, the session stamp of the device.  The process    *)
(* caches both rows for a fixed time; a value that does not match the      *)
(* token is read again from the database.  Sessions.tla verifies tokens    *)
(* against the rows; this module says by how much the caches delay that.   *)
(*                                                                         *)
(* The model is of one process.  Another process shows in the database     *)
(* only: it changes a row and never invalidates a cache here.  A row is    *)
(* the version of its stamp, every change draws a new one; a row that is   *)
(* gone, or a user that is not active, is a version too.                   *)
(***************************************************************************)
EXTENDS Integers

CONSTANTS
  Requests,    \* slots for verifications in flight
  Ttl,         \* AUTH_CONTEXT_CACHE_TTL_MS, in ticks
  Latency,     \* bound on how long a verification takes, in ticks
  MaxVersion   \* bound on the versions of each row

ASSUME CacheAssumption == /\ Ttl \in Nat \ {0}
                          /\ Latency \in Nat
                          /\ MaxVersion \in Nat \ {0}

VARIABLES
  db,      \* the version of each row in the database
  cache,   \* the entry for each row
  stale,   \* rows changed by this process, their cache yet to be invalidated
  req,     \* the verifications
  gone     \* history: for how long a version has been replaced

vars == <<db, cache, stale, req, gone>>

Rows     == {"user", "device"}
Versions == 1..MaxVersion
None     == 0   \* no version: an empty cache, or a token without a device

\* left: ticks until expiresAt.
Entry   == [version: Versions \cup {None}, left: 0..Ttl]
NoEntry == [version |-> None, left |-> 0]

\* The longest a replaced version may still be accepted: a read taken before
\* the change fills the cache Latency later, another verification finds the
\* entry in the last tick of its life and takes Latency to finish.
MaxDelay == Latency + (Ttl - 1) + Latency

\* row: the one being checked; fresh: the cached value did not match.
Steps   == {"idle", "lookup", "read", "put", "compare", "accepted"}
Request == [token: [Rows -> Versions \cup {None}], row: Rows, step: Steps,
            fresh: BOOLEAN, value: Versions \cup {None}, age: 0..Latency]
Idle    == [token |-> [p \in Rows |-> None], row |-> "user", step |-> "idle",
            fresh |-> FALSE, value |-> None, age |-> 0]

At(r, step) == req[r].step = step
Finish(r)   == req' = [req EXCEPT ![r] = Idle]

-----------------------------------------------------------------------------
Init == /\ db = [p \in Rows |-> 1]
        /\ cache = [p \in Rows |-> NoEntry]
        /\ stale = {}
        /\ req = [r \in Requests |-> Idle]
        /\ gone = [p \in Rows |-> [v \in Versions |-> 0]]

\* A client presents a token that was signed from the rows at some time.
Present(r) ==
  /\ At(r, "idle")
  /\ \E u \in 1..db["user"], d \in None..db["device"] :
        req' = [req EXCEPT ![r] = [Idle EXCEPT !.step = "lookup",
                  !.token = [p \in Rows |-> IF p = "user" THEN u ELSE d]]]
  /\ UNCHANGED <<db, cache, stale, gone>>

\* Mutant of Hit: expiresAt is not looked at.
HitForever(e) == e # NoEntry

Hit(e) == e.left > 0

\* readCachedUser, readCachedDevice: an expired entry is removed.
Lookup(r) ==
  /\ At(r, "lookup")
  /\ LET p == req[r].row
     IN  IF Hit(cache[p])
           THEN /\ req' = [req EXCEPT ![r].step = "compare", ![r].value = cache[p].version]
                /\ UNCHANGED cache
           ELSE /\ req' = [req EXCEPT ![r].step = "read"]
                /\ cache' = [cache EXCEPT ![p] = NoEntry]
  /\ UNCHANGED <<db, stale, gone>>

\* The database answers with the row of this moment ...
Read(r) == /\ At(r, "read")
           /\ req' = [req EXCEPT ![r].step = "put", ![r].value = db[req[r].row]]
           /\ UNCHANGED <<db, cache, stale, gone>>

\* ... and after the await the entry is written, whatever happened between.
Put(r) ==
  /\ At(r, "put")
  /\ cache' = [cache EXCEPT ![req[r].row] = [version |-> req[r].value, left |-> Ttl]]
  /\ req' = [req EXCEPT ![r].step = "compare"]
  /\ UNCHANGED <<db, stale, gone>>

\* The row matches: on to the device if the token names one, then accepted.
Match(r) ==
  /\ At(r, "compare")
  /\ req[r].value = req[r].token[req[r].row]
  /\ IF req[r].row = "user" /\ req[r].token["device"] # None
       THEN req' = [req EXCEPT ![r].row = "device", ![r].step = "lookup",
                               ![r].fresh = FALSE, ![r].value = None]
       ELSE req' = [req EXCEPT ![r].step = "accepted"]
  /\ UNCHANGED <<db, cache, stale, gone>>

\* Mutant of Mismatch: the token is refused without reading the row again.
MismatchRefuses(r) ==
  /\ At(r, "compare")
  /\ req[r].value # req[r].token[req[r].row]
  /\ Finish(r)
  /\ UNCHANGED <<db, cache, stale, gone>>

\* It does not: getFreshUser and getFreshDevice read it once more, then 401.
Mismatch(r) ==
  /\ At(r, "compare")
  /\ req[r].value # req[r].token[req[r].row]
  /\ IF req[r].fresh
       THEN Finish(r)
       ELSE req' = [req EXCEPT ![r].step = "read", ![r].fresh = TRUE, ![r].value = None]
  /\ UNCHANGED <<db, cache, stale, gone>>

\* The handler behind the verification runs and answers.
Answer(r) == At(r, "accepted") /\ Finish(r) /\ UNCHANGED <<db, cache, stale, gone>>

\* A row changes; a handler of this process will invalidate its cache.
Change(p, here) == /\ db[p] < MaxVersion
                   /\ db' = [db EXCEPT ![p] = @ + 1]
                   /\ stale' = IF here THEN stale \cup {p} ELSE stale
                   /\ UNCHANGED <<cache, req, gone>>

\* invalidateDeviceCache; invalidateUserCache drops the devices too.
Invalidate(p) ==
  /\ p \in stale
  /\ stale' = stale \ {p}
  /\ cache' = [q \in Rows |-> IF p \in {"user", q} THEN NoEntry ELSE cache[q]]
  /\ UNCHANGED <<db, req, gone>>

\* Time passes; no verification lasts longer than Latency.
Older(p, v) == IF v < db[p] /\ gone[p][v] <= MaxDelay THEN gone[p][v] + 1 ELSE gone[p][v]
Tick ==
  /\ \A r \in Requests : req[r].step = "idle" \/ req[r].age < Latency
  /\ req' = [r \in Requests |-> IF req[r].step = "idle" THEN req[r]
                                ELSE [req[r] EXCEPT !.age = @ + 1]]
  /\ cache' = [p \in Rows |-> [cache[p] EXCEPT !.left = IF @ = 0 THEN 0 ELSE @ - 1]]
  /\ gone' = [p \in Rows |-> [v \in Versions |-> Older(p, v)]]
  /\ UNCHANGED <<db, stale>>

Next == \/ \E r \in Requests : \/ Present(r) \/ Lookup(r) \/ Read(r) \/ Put(r)
                               \/ Match(r) \/ Mismatch(r) \/ Answer(r)
        \/ \E p \in Rows : \/ Invalidate(p)
                           \/ \E here \in BOOLEAN : Change(p, here)
        \/ Tick

Spec == Init /\ [][Next]_vars

-----------------------------------------------------------------------------
\* Rows, entries and verifications have their types; no entry holds a version
\* that the database has not had.
TypeOK == /\ db \in [Rows -> Versions]
          /\ cache \in [Rows -> Entry]
          /\ \A p \in Rows : cache[p].version <= db[p]
          /\ stale \subseteq Rows
          /\ req \in [Requests -> Request]
          /\ gone \in [Rows -> [Versions -> Nat]]

\* A token is accepted only while the stamps it carries are current or were
\* replaced at most MaxDelay ago, whichever process replaced them and however
\* reads, fills, invalidations and expiries of the caches fall.
RevocationIsBounded ==
  [][\A r \in Requests : req'[r].step = "accepted" /\ req[r].step # "accepted"
        => \A p \in Rows : LET v == req[r].token[p]
                           IN  v # None => gone[p][v] <= MaxDelay]_vars

\* A stale cache never costs a session: a token is refused only when a stamp
\* it carries is no longer the current one.
RefusedOnlyIfReplaced ==
  [][\A r \in Requests : req[r].step = "compare" /\ req'[r].step = "idle"
        => \E p \in Rows : req[r].token[p] \notin {None, db[p]}]_vars
=============================================================================
