------------------------------- MODULE Vault -------------------------------
(***************************************************************************)
(* The vault of one user: a cipher, the revision date that every change of *)
(* the vault moves, and the answers to /api/sync cached under it.          *)
(*                                                                         *)
(* A handler reads the row, changes its copy and saves it with saveCipher  *)
(* (an upsert) or updateCipherIfUnchanged (an UPDATE conditional on the    *)
(* date it read); bulk handlers change the row in place.  Then it moves    *)
(* the revision in a statement of its own.  A sync reads the revision      *)
(* first and the tables afterwards.                                        *)
(*                                                                         *)
(* Dates are milliseconds of the clock.  A date is computed some time      *)
(* between two statements of its request, so it lies between the time of   *)
(* the former and of the latter.  Changes are numbered as they are stored; *)
(* the number of the last one stands for the content.                      *)
(***************************************************************************)
EXTENDS Naturals

CONSTANTS
  Writers,     \* slots for requests that change the vault
  Readers,     \* slots for /api/sync
  Kinds,       \* the kinds of request
  NoDate,      \* user_revisions has no row yet
  Empty,       \* no answer cached
  MaxTime,     \* bound on the clock
  MaxChanges   \* bound on the changes stored

\* repair: an update that preserves the revision date; save: favourite and
\* folder, archive, trash, restore; bulk: the same for many, bulk and folder
\* deletion; other: another cipher, a folder, a Send, the domain settings.
AllKinds == {"update", "repair", "save", "delete", "bulk", "other"}

ASSUME VaultAssumption == /\ Kinds \subseteq AllKinds
                          /\ NoDate \notin Nat /\ Empty \notin Nat
                          /\ MaxTime \in Nat /\ MaxChanges \in Nat

VARIABLES
  now,
  row,        \* the cipher
  rev,        \* revision_date
  cache,      \* for each revision the changes its cached answer has seen
  req,        \* the writers
  sync,       \* the readers
  changes,    \* history: changes stored so far
  unsettled,  \* history: those whose request has not moved the revision
  dates,      \* history: revision dates computed
  collided,   \* history: one of them was computed twice
  saved,      \* history: dates saved in the row
  twins       \* history: one of them was saved twice

vars == <<now, row, rev, cache, req, sync, changes, unsettled, dates, collided, saved, twins>>

Time    == 0..MaxTime
Numbers == 0..MaxChanges

Row   == [exists: BOOLEAN, version: Numbers, updated: Nat]
NoRow == [exists |-> FALSE, version |-> 0, updated |-> 0]

\* at: when the last statement was answered; mine: the changes stored so far.
Request == [kind: AllKinds, step: {"idle", "write", "revise"}, copy: Row,
            at: Time, mine: SUBSET Numbers]
Idle    == [kind |-> "update", step |-> "idle", copy |-> NoRow, at |-> 0, mine |-> {}]

Reader  == [step: {"idle", "insert", "lookup", "rows", "put"}, key: Time, seen: Numbers]
Waiting == [step |-> "idle", key |-> 0, seen |-> 0]

At(w, step) == req[w].step = step
Finish(w)   == req' = [req EXCEPT ![w] = Idle]

\* The statement has stored these changes; next is the revision.
Sent(w, stored) ==
  req' = [req EXCEPT ![w] = [Idle EXCEPT !.step = "revise", !.at = now,
                                         !.mine = req[w].mine \cup stored]]

Later(a, b) == IF a < b THEN b ELSE a

-----------------------------------------------------------------------------
\* The cipher has been created; its request moved the revision or had stopped.
Init == /\ now = 0
        /\ row = [NoRow EXCEPT !.exists = TRUE]
        /\ rev \in {NoDate, 0}
        /\ cache = [k \in Time |-> Empty]
        /\ req = [w \in Writers |-> Idle]
        /\ sync = [s \in Readers |-> Waiting]
        /\ changes = 0
        /\ unsettled = {}
        /\ dates = {rev} \ {NoDate}
        /\ collided = FALSE
        /\ saved = {0}
        /\ twins = FALSE

(* Changes of the cipher.                                                  *)

\* A change of what a sync shows is stored.
Change == /\ changes < MaxChanges
          /\ changes' = changes + 1
          /\ unsettled' = unsettled \cup {changes + 1}

\* The row now holds this copy; then the request moves the revision.
Store(w, copy) ==
  /\ Change
  /\ row' = [copy EXCEPT !.exists = TRUE, !.version = changes + 1]
  /\ saved' = saved \cup {copy.updated}
  /\ twins' = (twins \/ copy.updated \in saved)
  /\ Sent(w, {changes + 1})

\* getCipherForUser.  A request that finds no row is answered 404; one whose
\* own date is older than the row's is refused as well (isStaleCipherUpdate).
ReadRow(w, kind) ==
  /\ At(w, "idle")
  /\ kind \in Kinds \ {"bulk", "other"}
  /\ row.exists
  /\ req' = [req EXCEPT ![w] = [Idle EXCEPT !.kind = kind, !.step = "write",
                                            !.copy = row, !.at = now]]
  /\ UNCHANGED <<now, row, rev, cache, sync, changes, unsettled, dates, collided, saved, twins>>

\* Mutant of Unchanged: the date the handler read is not compared.
StillThere(copy) == row.exists

\* The condition of updateCipherIfUnchanged.
Unchanged(copy) == row.exists /\ row.updated = copy.updated

\* An update moves the date of the row even within one millisecond.
UpdateDates(r) == IF r.kind = "repair" THEN {r.copy.updated}
                  ELSE {Later(t, r.copy.updated + 1) : t \in r.at..now}

Update(w) ==
  LET r == req[w]
  IN  /\ At(w, "write")
      /\ r.kind \in {"update", "repair"}
      /\ \/ /\ Unchanged(r.copy)
            /\ \E d \in UpdateDates(r) : Store(w, [r.copy EXCEPT !.updated = d])
         \/ /\ ~Unchanged(r.copy)  \* 400
            /\ Finish(w)
            /\ UNCHANGED <<row, changes, unsettled, saved, twins>>
      /\ UNCHANGED <<now, rev, cache, sync, dates, collided>>

\* saveCipher: the copy as it was read, but for the change; inserted again
\* when the row has gone.
Save(w) ==
  LET r == req[w]
  IN  /\ At(w, "write")
      /\ r.kind = "save"
      /\ \E d \in r.at..now : Store(w, [r.copy EXCEPT !.updated = d])
      /\ UNCHANGED <<now, rev, cache, sync, dates, collided>>

\* A bulk statement takes its date before it is sent and reads no row.
BulkStart(w) ==
  /\ At(w, "idle")
  /\ "bulk" \in Kinds
  /\ req' = [req EXCEPT ![w] = [Idle EXCEPT !.kind = "bulk", !.step = "write", !.at = now]]
  /\ UNCHANGED <<now, row, rev, cache, sync, changes, unsettled, dates, collided, saved, twins>>

Bulk(w) ==
  /\ At(w, "write")
  /\ req[w].kind = "bulk"
  /\ \/ /\ row.exists
        /\ Store(w, [row EXCEPT !.updated = req[w].at])
     \/ /\ Sent(w, {})  \* no row of this id, or not in this folder or state
        /\ UNCHANGED <<row, changes, unsettled, saved, twins>>
  /\ UNCHANGED <<now, rev, cache, sync, dates, collided>>

\* deleteCipher, bulkDeleteCiphers: by id, and a row that is gone is no error.
Remove(w) ==
  /\ At(w, "write")
  /\ req[w].kind \in {"delete", "bulk"}
  /\ IF row.exists
       THEN /\ Change
            /\ row' = NoRow
            /\ Sent(w, {changes + 1})
       ELSE /\ Sent(w, {})
            /\ UNCHANGED <<row, changes, unsettled>>
  /\ UNCHANGED <<now, rev, cache, sync, dates, collided, saved, twins>>

\* A statement that changes other rows: the only one of its request, or one
\* more, such as the attachments of a cipher, the next chunk, the folder itself.
StoreOther(w) ==
  /\ Change
  /\ \/ /\ At(w, "idle") /\ "other" \in Kinds
        /\ Sent(w, {changes + 1})
     \/ /\ At(w, "revise")
        /\ Sent(w, {changes + 1})
     \/ /\ At(w, "write") /\ req[w].kind \in {"delete", "bulk"}
        /\ req' = [req EXCEPT ![w].mine = @ \cup {changes + 1}]
  /\ UNCHANGED <<now, row, rev, cache, sync, dates, collided, saved, twins>>

(* The revision.                                                           *)

\* This revision date is computed.
Compute(d) == /\ dates' = dates \cup {d}
              /\ collided' = (collided \/ d \in dates)

\* updateRevisionDate.
Revise(w) ==
  /\ At(w, "revise")
  /\ \E d \in req[w].at..now : rev' = d /\ Compute(d)
  /\ unsettled' = unsettled \ req[w].mine
  /\ Finish(w)
  /\ UNCHANGED <<now, row, cache, sync, changes, saved, twins>>

\* A request is refused, or stops, between two statements.
Abort(w) ==
  /\ ~At(w, "idle")
  /\ Finish(w)
  /\ UNCHANGED <<now, row, rev, cache, sync, changes, unsettled, dates, collided, saved, twins>>

(* GET /api/sync.                                                          *)

Step(s, step, key, seen) ==
  sync' = [sync EXCEPT ![s] = [step |-> step, key |-> key, seen |-> seen]]

\* getRevisionDate; with no row it computes a date and inserts it.
SyncRevision(s) ==
  /\ sync[s].step = "idle"
  /\ IF rev = NoDate THEN Step(s, "insert", now, 0) ELSE Step(s, "lookup", rev, 0)
  /\ UNCHANGED <<now, row, rev, cache, req, changes, unsettled, dates, collided, saved, twins>>

\* ON CONFLICT DO NOTHING, and the date computed is the answer all the same.
SyncInsert(s) ==
  /\ sync[s].step = "insert"
  /\ \E d \in sync[s].key..now :
       /\ rev' = IF rev = NoDate THEN d ELSE rev
       /\ Compute(d)
       /\ Step(s, "lookup", d, 0)
  /\ UNCHANGED <<now, row, cache, req, changes, unsettled, saved, twins>>

\* A hit is the answer.
SyncLookup(s) ==
  /\ sync[s].step = "lookup"
  /\ sync' = [sync EXCEPT ![s] = IF cache[@.key] # Empty THEN Waiting
                                 ELSE [@ EXCEPT !.step = "rows"]]
  /\ UNCHANGED <<now, row, rev, cache, req, changes, unsettled, dates, collided, saved, twins>>

SyncRows(s) ==
  /\ sync[s].step = "rows"
  /\ Step(s, "put", sync[s].key, changes)
  /\ UNCHANGED <<now, row, rev, cache, req, changes, unsettled, dates, collided, saved, twins>>

\* Mutant of SyncPut: cached under the revision of the moment.
SyncPutUnderPresent(s) ==
  /\ sync[s].step = "put"
  /\ cache' = [cache EXCEPT ![rev] = sync[s].seen]
  /\ sync' = [sync EXCEPT ![s] = Waiting]
  /\ UNCHANGED <<now, row, rev, req, changes, unsettled, dates, collided, saved, twins>>

SyncPut(s) ==
  /\ sync[s].step = "put"
  /\ cache' = [cache EXCEPT ![sync[s].key] = sync[s].seen]
  /\ sync' = [sync EXCEPT ![s] = Waiting]
  /\ UNCHANGED <<now, row, rev, req, changes, unsettled, dates, collided, saved, twins>>

\* The request stops, or asked for the revision only.
SyncStop(s) ==
  /\ sync[s].step # "idle"
  /\ sync' = [sync EXCEPT ![s] = Waiting]
  /\ UNCHANGED <<now, row, rev, cache, req, changes, unsettled, dates, collided, saved, twins>>

\* max-age has passed, or the cache is that of another process.
Evict(k) ==
  /\ cache[k] # Empty
  /\ cache' = [cache EXCEPT ![k] = Empty]
  /\ UNCHANGED <<now, row, rev, req, sync, changes, unsettled, dates, collided, saved, twins>>

Tick ==
  /\ now < MaxTime
  /\ now' = now + 1
  /\ UNCHANGED <<row, rev, cache, req, sync, changes, unsettled, dates, collided, saved, twins>>

Next == \/ \E w \in Writers : \/ \E kind \in Kinds : ReadRow(w, kind)
                              \/ Update(w) \/ Save(w) \/ BulkStart(w) \/ Bulk(w)
                              \/ Remove(w) \/ StoreOther(w) \/ Revise(w) \/ Abort(w)
        \/ \E s \in Readers : \/ SyncRevision(s) \/ SyncInsert(s) \/ SyncLookup(s)
                              \/ SyncRows(s) \/ SyncPut(s) \/ SyncStop(s)
        \/ \E k \in Time : Evict(k)
        \/ Tick

Spec == Init /\ [][Next]_vars

-----------------------------------------------------------------------------
\* Rows, requests, readers and history have their types; no revision is dated
\* in the future, whatever date the row of the change bears.
TypeOK == /\ now \in Time
          /\ row \in Row
          /\ rev \in dates \cup {NoDate}
          /\ cache \in [Time -> Numbers \cup {Empty}]
          /\ req \in [Writers -> Request]
          /\ \A w \in Writers : req[w].at <= now
          /\ sync \in [Readers -> Reader]
          /\ changes \in Numbers
          /\ unsettled \subseteq Numbers
          /\ dates \subseteq 0..now
          /\ collided \in BOOLEAN /\ twins \in BOOLEAN
          /\ saved \subseteq Nat

\* While no millisecond is computed twice as a revision, a sync answered from
\* the cache misses nothing but changes whose request has not moved the
\* revision: the revision is read first and moved last.
CachedSyncIsCurrent ==
  rev # NoDate /\ ~collided /\ cache[rev] # Empty =>
     \A c \in Numbers : cache[rev] < c /\ c <= changes => c \in unsettled

\* While no date is saved twice in the row, a full update that is accepted
\* replaces exactly the row it has read, whatever saves, bulk statements,
\* deletions and re-insertions came in between.
UpdateReplacesWhatItRead ==
  [][~twins => \A w \in Writers :
        /\ req[w].step = "write" /\ req[w].kind \in {"update", "repair"}
        /\ req'[w].step = "revise"
        => row = req[w].copy]_vars
=============================================================================
