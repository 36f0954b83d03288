---------------------------- MODULE VaultProofs ----------------------------
(* What a sync from the cache and a conditional update can rely on.        *)
EXTENDS Vault, TLAPS

\* Keys in use are revisions computed before, so that a new date is none.
KeysAreDates ==
  /\ \A s \in Readers : sync[s].step \in {"lookup", "rows", "put"} => sync[s].key \in dates
  /\ \A k \in Time : cache[k] # Empty => k \in dates

\* Content numbered n may be shown under this key: if it is the revision, what
\* n misses is unsettled.
Fresh(key, n) == rev = key => \A c \in Numbers : n < c /\ c <= changes => c \in unsettled

\* What is cached may be shown, and so may what a reader is about to cache.
Current == ~collided => /\ \A s \in Readers : sync[s].step = "put" => Fresh(sync[s].key, sync[s].seen)
                        /\ \A k \in Time : cache[k] # Empty => Fresh(k, cache[k])

\* The copy of an update bears a date that was saved, and is the row if the row
\* bears it.
Copied(w) == At(w, "write") /\ req[w].kind \in {"update", "repair"}
Traceable == ~twins => /\ row.exists => row.updated \in saved
                       /\ \A w \in Writers : Copied(w) =>
                            /\ req[w].copy.updated \in saved
                            /\ row.exists /\ row.updated = req[w].copy.updated =>
                                 row = req[w].copy

IInv == TypeOK /\ KeysAreDates /\ Current /\ Traceable

-----------------------------------------------------------------------------
LEMMA Constants ==
  /\ Idle \in Request /\ Idle.step = "idle" /\ Idle.at = 0 /\ NoRow \in Row
  /\ ~NoRow.exists /\ NoRow.updated = 0 /\ Waiting \in Reader /\ Waiting.step = "idle"
  /\ 0 \in Time /\ 0 \in Numbers /\ Time \subseteq Nat /\ Numbers \subseteq Nat
  /\ NoDate \notin Nat /\ Empty \notin Nat
BY VaultAssumption
DEF Idle, NoRow, Waiting, Request, Row, Reader, Time, Numbers, AllKinds

LEMMA TypeInit == Init => TypeOK
<1> SUFFICES ASSUME Init PROVE TypeOK
  OBVIOUS
<1>1. row \in Row
  BY Constants DEF Init, Row, NoRow
<1>2. /\ cache \in [Time -> Numbers \cup {Empty}] /\ rev \in dates \cup {NoDate}
      /\ changes \in Numbers /\ unsettled \subseteq Numbers /\ saved \subseteq Nat
      /\ collided \in BOOLEAN /\ twins \in BOOLEAN
  BY Constants DEF Init
<1>3. now \in Time /\ now = 0 /\ dates \subseteq 0..now
  BY Constants DEF Init
<1>4. /\ req \in [Writers -> Request] /\ sync \in [Readers -> Reader]
      /\ \A w \in Writers : req[w].at <= now
  BY <1>3, Constants DEF Init
<1> QED BY <1>1, <1>2, <1>3, <1>4 DEF TypeOK

\* The steps of a writer leave its request well formed.
LEMMA SentType ==
  ASSUME TypeOK, NEW w \in Writers, NEW stored \in SUBSET Numbers, Sent(w, stored)
  PROVE  /\ req' \in [Writers -> Request]
         /\ \A v \in Writers : req'[v].at <= now
<1> DEFINE r == [Idle EXCEPT !.step = "revise", !.at = now,
                          !.mine = req[w].mine \cup stored]
<1>1. r \in Request /\ r.at = now
  BY Constants DEF Idle, Request, TypeOK
<1>2. req' = [req EXCEPT ![w] = r]
  BY DEF Sent
<1> HIDE DEF r
<1>3. now <= now
  BY Constants DEF TypeOK
<1> QED BY <1>1, <1>2, <1>3 DEF TypeOK

LEMMA FinishType ==
  ASSUME TypeOK, NEW w \in Writers, Finish(w)
  PROVE  /\ req' \in [Writers -> Request]
         /\ \A v \in Writers : req'[v].at <= now
<1>1. 0 <= now
  BY Constants DEF TypeOK, Time
<1> QED BY <1>1, Constants DEF TypeOK, Finish

LEMMA ChangeType ==
  ASSUME TypeOK, Change
  PROVE  /\ changes + 1 \in Numbers /\ changes' = changes + 1
         /\ changes' \in Numbers /\ unsettled' \subseteq Numbers
BY VaultAssumption DEF TypeOK, Change, Numbers

LEMMA StoreType ==
  ASSUME TypeOK, NEW w \in Writers, NEW copy \in Row, Store(w, copy)
  PROVE  /\ row' \in Row /\ changes' \in Numbers /\ unsettled' \subseteq Numbers
         /\ saved' \subseteq Nat /\ twins' \in BOOLEAN
         /\ req' \in [Writers -> Request] /\ \A v \in Writers : req'[v].at <= now
<1>1. Change /\ Sent(w, {changes + 1})
  BY DEF Store
<1>2. row' \in Row /\ saved' \subseteq Nat /\ twins' \in BOOLEAN
  BY <1>1, ChangeType DEF Store, Row, TypeOK
<1> QED BY <1>1, <1>2, ChangeType, SentType

LEMMA StepType ==
  ASSUME TypeOK, NEW s \in Readers, NEW step \in {"idle", "insert", "lookup", "rows", "put"},
         NEW key \in Time, NEW seen \in Numbers, Step(s, step, key, seen)
  PROVE  sync' \in [Readers -> Reader]
BY DEF TypeOK, Step, Reader

LEMMA TypeStep == TypeOK /\ [Next]_vars => TypeOK'
<1> SUFFICES ASSUME TypeOK, [Next]_vars PROVE TypeOK'
  OBVIOUS
<1>1. ASSUME NEW w \in Writers, NEW kind \in Kinds, ReadRow(w, kind) PROVE TypeOK'
  <2> DEFINE r == [Idle EXCEPT !.kind = kind, !.step = "write", !.copy = row, !.at = now]
  <2>1. r \in Request /\ r.at = now /\ now <= now
    <3>1. now \in Nat /\ now \in Time /\ row \in Row /\ kind \in AllKinds
      BY Constants, VaultAssumption DEF TypeOK
    <3>2. r.at = now
      BY DEF Idle
    <3>3. r \in Request
      BY <3>1, Constants DEF Request, Idle
    <3>4. now <= now
      BY <3>1
    <3> QED BY <3>2, <3>3, <3>4
  <2>2. req' = [req EXCEPT ![w] = r]
    BY <1>1 DEF ReadRow
  <2> HIDE DEF r
  <2> QED BY <1>1, <2>1, <2>2 DEF ReadRow, TypeOK
<1>2. ASSUME NEW w \in Writers, Update(w) PROVE TypeOK'
  <2>1. req[w].copy \in Row /\ req[w].at \in Nat
    BY Constants DEF TypeOK, Request
  <2>2. CASE Finish(w) /\ UNCHANGED <<row, changes, unsettled, saved, twins>>
    BY <1>2, <2>2, FinishType DEF Update, TypeOK
  <2>3. ASSUME NEW d \in UpdateDates(req[w]), Store(w, [req[w].copy EXCEPT !.updated = d])
        PROVE  TypeOK'
    <3>1. d \in Nat
      BY <2>1 DEF UpdateDates, Later, Row
    <3>2. [req[w].copy EXCEPT !.updated = d] \in Row
      BY <2>1, <3>1 DEF Row
    <3> QED BY <1>2, <2>3, <3>2, StoreType DEF Update, TypeOK
  <2> QED BY <1>2, <2>2, <2>3 DEF Update
<1>3. ASSUME NEW w \in Writers, Save(w) PROVE TypeOK'
  <2>1. req[w].copy \in Row /\ req[w].at \in Nat
    BY Constants DEF TypeOK, Request
  <2>2. PICK d \in req[w].at..now : Store(w, [req[w].copy EXCEPT !.updated = d])
    BY <1>3 DEF Save
  <2>3. [req[w].copy EXCEPT !.updated = d] \in Row
    BY <2>1 DEF Row
  <2> QED BY <1>3, <2>2, <2>3, StoreType DEF Save, TypeOK
<1>4. ASSUME NEW w \in Writers, BulkStart(w) PROVE TypeOK'
  <2> DEFINE r == [Idle EXCEPT !.kind = "bulk", !.step = "write", !.at = now]
  <2>1. r \in Request /\ r.at = now /\ now <= now
    <3>1. now \in Nat /\ now \in Time /\ "bulk" \in AllKinds
      BY Constants DEF TypeOK, AllKinds
    <3>2. r.at = now
      BY DEF Idle
    <3>3. r \in Request
      BY <3>1, Constants DEF Request, Idle
    <3>4. now <= now
      BY <3>1
    <3> QED BY <3>2, <3>3, <3>4
  <2>2. req' = [req EXCEPT ![w] = r]
    BY <1>4 DEF BulkStart
  <2> HIDE DEF r
  <2> QED BY <1>4, <2>1, <2>2 DEF BulkStart, TypeOK
<1>5. ASSUME NEW w \in Writers, Bulk(w) PROVE TypeOK'
  <2>1. req[w].at \in Nat
    BY Constants DEF TypeOK, Request
  <2>2. [row EXCEPT !.updated = req[w].at] \in Row
    BY <2>1 DEF TypeOK, Row
  <2>3. CASE Store(w, [row EXCEPT !.updated = req[w].at])
    BY <1>5, <2>2, <2>3, StoreType DEF Bulk, TypeOK
  <2>4. CASE Sent(w, {}) /\ UNCHANGED <<row, changes, unsettled, saved, twins>>
    BY <1>5, <2>4, SentType DEF Bulk, TypeOK
  <2> QED BY <1>5, <2>3, <2>4 DEF Bulk
<1>6. ASSUME NEW w \in Writers, Remove(w) PROVE TypeOK'
  <2>1. CASE row.exists
    BY <1>6, <2>1, ChangeType, SentType, Constants DEF Remove, TypeOK
  <2>2. CASE ~row.exists
    BY <1>6, <2>2, SentType, Constants DEF Remove, TypeOK
  <2> QED BY <2>1, <2>2
<1>7. ASSUME NEW w \in Writers, StoreOther(w) PROVE TypeOK'
  <2>1. CASE Sent(w, {changes + 1})
    BY <1>7, <2>1, ChangeType, SentType DEF StoreOther, TypeOK
  <2>2. CASE req' = [req EXCEPT ![w].mine = @ \cup {changes + 1}]
    <3>1. changes + 1 \in Numbers
      BY <1>7, ChangeType DEF StoreOther
    <3>2. req' \in [Writers -> Request] /\ \A v \in Writers : req'[v].at = req[v].at
      BY <2>2, <3>1 DEF TypeOK, Request
    <3> QED BY <1>7, <3>2, ChangeType DEF StoreOther, TypeOK
  <2> QED BY <1>7, <2>1, <2>2 DEF StoreOther
<1>8. ASSUME NEW w \in Writers, Revise(w) PROVE TypeOK'
  <2>1. PICK d \in req[w].at..now : rev' = d /\ Compute(d)
    BY <1>8 DEF Revise
  <2>2. d \in 0..now
    BY <2>1, Constants DEF TypeOK, Request, Time
  <2>3. dates' \subseteq 0..now /\ rev' \in dates' /\ collided' \in BOOLEAN
    BY <2>1, <2>2 DEF Compute, TypeOK
  <2> QED BY <1>8, <2>3, FinishType DEF Revise, TypeOK
<1>9. ASSUME NEW w \in Writers, Abort(w) PROVE TypeOK'
  BY <1>9, FinishType DEF Abort, TypeOK
<1>10. ASSUME NEW s \in Readers, SyncRevision(s) PROVE TypeOK'
  <2>1. rev # NoDate => rev \in Time
    BY VaultAssumption DEF TypeOK, Time
  <2>2. sync' \in [Readers -> Reader]
    BY <1>10, <2>1, StepType, Constants DEF SyncRevision, TypeOK
  <2> QED BY <1>10, <2>2 DEF SyncRevision, TypeOK
<1>11. ASSUME NEW s \in Readers, SyncInsert(s) PROVE TypeOK'
  <2>1. PICK d \in sync[s].key..now : /\ rev' = IF rev = NoDate THEN d ELSE rev
                                      /\ Compute(d) /\ Step(s, "lookup", d, 0)
    BY <1>11 DEF SyncInsert
  <2>2. d \in 0..now /\ d \in Time
    BY <2>1, Constants, VaultAssumption DEF TypeOK, Reader, Time
  <2>3. dates' \subseteq 0..now /\ rev' \in dates' \cup {NoDate} /\ collided' \in BOOLEAN
    BY <2>1, <2>2 DEF Compute, TypeOK
  <2>4. sync' \in [Readers -> Reader]
    BY <2>1, <2>2, StepType, Constants
  <2> QED BY <1>11, <2>3, <2>4 DEF SyncInsert, TypeOK
<1>12. ASSUME NEW s \in Readers, SyncLookup(s) PROVE TypeOK'
  BY <1>12, Constants DEF SyncLookup, TypeOK, Reader
<1>13. ASSUME NEW s \in Readers, SyncRows(s) PROVE TypeOK'
  <2>1. sync[s].key \in Time
    BY DEF TypeOK, Reader
  <2> QED BY <1>13, <2>1, StepType DEF SyncRows, TypeOK
<1>14. ASSUME NEW s \in Readers, SyncPut(s) PROVE TypeOK'
  BY <1>14, Constants DEF SyncPut, TypeOK, Reader
<1>15. ASSUME NEW s \in Readers, SyncStop(s) PROVE TypeOK'
  BY <1>15, Constants DEF SyncStop, TypeOK
<1>16. ASSUME NEW k \in Time, Evict(k) PROVE TypeOK'
  BY <1>16 DEF Evict, TypeOK
<1>17. CASE Tick
  <2>1. now' \in Time /\ now \in Nat /\ now' = now + 1
    BY <1>17, VaultAssumption DEF Tick, TypeOK, Time
  <2>2. 0..now \subseteq 0..now'
    BY <2>1
  <2>3. \A w \in Writers : req[w].at <= now'
    BY <2>1, Constants DEF TypeOK, Request, Time
  <2> QED BY <1>17, <2>1, <2>2, <2>3 DEF Tick, TypeOK
<1>18. CASE UNCHANGED vars
  BY <1>18 DEF vars, TypeOK
<1> QED
  BY <1>1, <1>2, <1>3, <1>4, <1>5, <1>6, <1>7, <1>8, <1>9, <1>10, <1>11, <1>12, <1>13,
     <1>14, <1>15, <1>16, <1>17, <1>18
  DEF Next

-----------------------------------------------------------------------------
(* What is cached under the revision misses only unsettled changes.        *)
LEMMA CurrentInit == Init => KeysAreDates /\ Current
BY DEF Init, KeysAreDates, Current, Waiting

\* A change that is stored is unsettled: every key stays as fresh as it was.
LEMMA CurrentChange ==
  ASSUME TypeOK, KeysAreDates, Current, Change, UNCHANGED <<rev, cache, sync, dates, collided>>
  PROVE  KeysAreDates' /\ Current'
<1>1. KeysAreDates'
  BY DEF KeysAreDates
<1>2. /\ changes \in Nat /\ changes' = changes + 1 /\ changes + 1 \in unsettled'
      /\ unsettled \subseteq unsettled' /\ Numbers \subseteq Nat
  BY Constants DEF Change, TypeOK
<1>3. ASSUME NEW key, NEW n, Fresh(key, n) PROVE Fresh(key, n)'
  <2>1. ASSUME NEW c \in Numbers, rev = key, n < c, c <= changes'
        PROVE  c \in unsettled'
    <3>1. c <= changes \/ c = changes + 1
      BY <1>2, <2>1
    <3> QED BY <1>2, <1>3, <2>1, <3>1 DEF Fresh
  <2> QED BY <2>1 DEF Fresh
<1>4. Current'
  BY <1>3 DEF Current
<1> QED BY <1>1, <1>4

LEMMA CurrentStay ==
  ASSUME KeysAreDates, Current, UNCHANGED <<rev, cache, sync, changes, unsettled, dates, collided>>
  PROVE  KeysAreDates' /\ Current'
BY DEF KeysAreDates, Current, Fresh

\* Of the readers or the entries of the cache one is gone or not yet fresh.
LEMMA CurrentLess ==
  ASSUME KeysAreDates, Current, UNCHANGED <<rev, changes, unsettled, dates, collided>>,
         \A s \in Readers : \/ sync'[s] = sync[s]
                            \/ sync'[s].step \in {"idle", "insert"}
                            \/ /\ sync'[s].step \in {"lookup", "rows"}
                               /\ sync'[s].key \in dates,
         \A k \in Time : cache'[k] \in {cache[k], Empty}
  PROVE  KeysAreDates' /\ Current'
<1>1. KeysAreDates'
  BY DEF KeysAreDates
<1>2. ASSUME NEW key, NEW n, Fresh(key, n) PROVE Fresh(key, n)'
  BY <1>2 DEF Fresh
<1>3. ASSUME ~collided', NEW s \in Readers, sync'[s].step = "put"
      PROVE  Fresh(sync[s].key, sync[s].seen)' 
  <2>1. sync'[s] = sync[s]
    BY <1>3
  <2>2. Fresh(sync[s].key, sync[s].seen)
    BY <1>3, <2>1 DEF Current
  <2> QED BY <2>1, <2>2 DEF Fresh
<1>4. ASSUME ~collided', NEW k \in Time, cache'[k] # Empty
      PROVE  Fresh(k, cache[k])'
  <2>1. cache'[k] = cache[k] /\ Fresh(k, cache[k])
    BY <1>4 DEF Current
  <2> QED BY <2>1 DEF Fresh
<1> QED BY <1>1, <1>3, <1>4 DEF Current

\* A revision computed for the first time is no key in use.
LEMMA NewRevision ==
  ASSUME TypeOK, KeysAreDates, Current, NEW d \in Time, rev' = d,
         dates' = dates \cup {d}, ~collided' => ~collided /\ d \notin dates, UNCHANGED <<cache, changes>>,
         \A s \in Readers : \/ sync'[s] = sync[s]
                            \/ sync'[s].step = "lookup" /\ sync'[s].key = d
  PROVE  KeysAreDates' /\ Current'
<1>1. KeysAreDates'
  BY DEF KeysAreDates
<1>2. ASSUME ~collided', NEW s \in Readers, sync'[s].step = "put"
      PROVE  Fresh(sync[s].key, sync[s].seen)'
  <2>1. sync'[s] = sync[s] /\ sync[s].key \in dates
    BY <1>2 DEF KeysAreDates
  <2> QED BY <1>2, <2>1 DEF Fresh
<1>3. ASSUME ~collided', NEW k \in Time, cache'[k] # Empty
      PROVE  Fresh(k, cache[k])'
  BY <1>3 DEF KeysAreDates, Fresh
<1> QED BY <1>1, <1>2, <1>3 DEF Current

LEMMA CurrentStep == TypeOK /\ KeysAreDates /\ Current /\ [Next]_vars => KeysAreDates' /\ Current'
<1> SUFFICES ASSUME TypeOK, KeysAreDates, Current, [Next]_vars PROVE KeysAreDates' /\ Current'
  OBVIOUS
<1>1. ASSUME NEW w \in Writers, Update(w) PROVE KeysAreDates' /\ Current'
  <2>1. Change \/ UNCHANGED <<changes, unsettled>>
    BY <1>1 DEF Update, Store
  <2> QED BY <1>1, <2>1, CurrentChange, CurrentStay DEF Update
<1>2. ASSUME NEW w \in Writers, Save(w) \/ Bulk(w) \/ StoreOther(w)
      PROVE  KeysAreDates' /\ Current'
  BY <1>2, CurrentChange, CurrentStay DEF Save, Bulk, StoreOther, Store
<1>3. ASSUME NEW w \in Writers, Remove(w) PROVE KeysAreDates' /\ Current'
  BY <1>3, CurrentChange, CurrentStay DEF Remove
<1>4. ASSUME NEW w \in Writers, Revise(w) PROVE KeysAreDates' /\ Current'
  <2>1. PICK d \in req[w].at..now : rev' = d /\ Compute(d)
    BY <1>4 DEF Revise
  <2>2. d \in Time
    BY <2>1, Constants, VaultAssumption DEF TypeOK, Request, Time
  <2>3. dates' = dates \cup {d} /\ (~collided' => ~collided /\ d \notin dates)
    BY <2>1 DEF Compute
  <2>4. UNCHANGED <<cache, changes, sync>>
    BY <1>4 DEF Revise
  <2> QED BY <2>1, <2>2, <2>3, <2>4, NewRevision
<1>5. ASSUME NEW s \in Readers, SyncRevision(s) PROVE KeysAreDates' /\ Current'
  <2>1. sync'[s].step = "insert" \/ (sync'[s].step = "lookup" /\ sync'[s].key \in dates)
    <3>1. rev # NoDate => rev \in dates
      BY DEF TypeOK
    <3> QED BY <1>5, <3>1 DEF SyncRevision, Step, TypeOK
  <2>2. \A t \in Readers \ {s} : sync'[t] = sync[t]
    BY <1>5 DEF SyncRevision, Step, TypeOK
  <2> QED BY <1>5, <2>1, <2>2, CurrentLess DEF SyncRevision
<1>6. ASSUME NEW s \in Readers, SyncInsert(s) PROVE KeysAreDates' /\ Current'
  <2>1. PICK d \in sync[s].key..now : /\ rev' = IF rev = NoDate THEN d ELSE rev
                                      /\ Compute(d) /\ Step(s, "lookup", d, 0)
    BY <1>6 DEF SyncInsert
  <2>2. d \in Time
    BY <2>1, Constants, VaultAssumption DEF TypeOK, Reader, Time
  <2>3. /\ sync'[s].step = "lookup" /\ sync'[s].key = d
        /\ \A t \in Readers \ {s} : sync'[t] = sync[t]
    BY <2>1 DEF Step, TypeOK
  <2>4. CASE rev = NoDate
    <3>1. /\ rev' = d /\ dates' = dates \cup {d}
          /\ ~collided' => ~collided /\ d \notin dates
      BY <2>1, <2>4 DEF Compute
    <3>2. UNCHANGED <<cache, changes>>
      BY <1>6 DEF SyncInsert
    <3>3. \A t \in Readers : \/ sync'[t] = sync[t]
                             \/ sync'[t].step = "lookup" /\ sync'[t].key = d
      BY <2>3
    <3> QED BY <2>2, <3>1, <3>2, <3>3, NewRevision
  <2>5. CASE rev # NoDate
    <3>1. KeysAreDates'
      BY <1>6, <2>1, <2>3 DEF SyncInsert, Compute, KeysAreDates
    <3>2. ~collided' => ~collided
      BY <2>1 DEF Compute
    <3> QED BY <1>6, <2>1, <2>3, <2>5, <3>1, <3>2 DEF SyncInsert, Current, Fresh
  <2> QED BY <2>4, <2>5
<1>7. ASSUME NEW s \in Readers, SyncLookup(s) PROVE KeysAreDates' /\ Current'
  <2>1. \/ sync'[s].step = "idle"
        \/ sync'[s].step = "rows" /\ sync'[s].key = sync[s].key
    BY <1>7, Constants DEF SyncLookup, TypeOK, Reader
  <2>2. \A t \in Readers \ {s} : sync'[t] = sync[t]
    BY <1>7 DEF SyncLookup, TypeOK
  <2>3. sync[s].key \in dates
    BY <1>7 DEF SyncLookup, KeysAreDates
  <2> QED BY <1>7, <2>1, <2>2, <2>3, CurrentLess DEF SyncLookup
<1>8. ASSUME NEW s \in Readers, SyncRows(s) PROVE KeysAreDates' /\ Current'
  <2>1. /\ sync'[s].key = sync[s].key /\ sync'[s].seen = changes
        /\ \A t \in Readers \ {s} : sync'[t] = sync[t]
    BY <1>8 DEF SyncRows, Step, TypeOK
  <2>2. KeysAreDates'
    BY <1>8, <2>1 DEF SyncRows, KeysAreDates
  <2>3. \A key : Fresh(key, changes)
    BY Constants DEF Fresh, TypeOK
  <2> QED BY <1>8, <2>1, <2>2, <2>3 DEF SyncRows, Current, Fresh
<1>9. ASSUME NEW s \in Readers, SyncPut(s) PROVE KeysAreDates' /\ Current'
  <2>1. /\ sync[s].step = "put" /\ sync[s].key \in Time /\ sync[s].key \in dates
        /\ cache'[sync[s].key] = sync[s].seen
        /\ \A k \in Time \ {sync[s].key} : cache'[k] = cache[k]
    BY <1>9 DEF SyncPut, KeysAreDates, TypeOK, Reader
  <2>2. sync'[s].step = "idle" /\ \A t \in Readers \ {s} : sync'[t] = sync[t]
    BY <1>9, Constants DEF SyncPut, TypeOK
  <2>3. KeysAreDates'
    BY <1>9, <2>1, <2>2 DEF SyncPut, KeysAreDates
  <2>4. ~collided => Fresh(sync[s].key, sync[s].seen)
    BY <2>1 DEF Current
  <2> QED BY <1>9, <2>1, <2>2, <2>3, <2>4 DEF SyncPut, Current, Fresh
<1>10. ASSUME NEW s \in Readers, SyncStop(s) PROVE KeysAreDates' /\ Current'
  <2>1. sync'[s].step = "idle" /\ \A t \in Readers \ {s} : sync'[t] = sync[t]
    BY <1>10, Constants DEF SyncStop, TypeOK
  <2> QED BY <1>10, <2>1, CurrentLess DEF SyncStop
<1>11. ASSUME NEW k \in Time, Evict(k) PROVE KeysAreDates' /\ Current'
  <2>1. \A m \in Time : cache'[m] \in {cache[m], Empty}
    BY <1>11 DEF Evict, TypeOK
  <2> QED BY <1>11, <2>1, CurrentLess DEF Evict
<1> QED
  BY <1>1, <1>2, <1>3, <1>4, <1>5, <1>6, <1>7, <1>8, <1>9, <1>10, <1>11, CurrentStay
  DEF Next, vars, ReadRow, BulkStart, Abort, Tick

-----------------------------------------------------------------------------
(* A conditional update replaces the row it has read.                      *)
LEMMA TraceInit == Init => Traceable
BY DEF Init, Traceable, Copied, At, Idle, NoRow

\* A row stored under a new date bears the date of no copy.
LEMMA TraceStore ==
  ASSUME TypeOK, Traceable, NEW w \in Writers, NEW copy \in Row, Store(w, copy)
  PROVE  Traceable'
<1>1. row'.updated = copy.updated /\ saved' = saved \cup {copy.updated}
  BY DEF Store, Row
<1>2. ~twins' => ~twins /\ copy.updated \notin saved
  BY DEF Store
<1>3. req'[w].step = "revise" /\ \A v \in Writers \ {w} : req'[v] = req[v]
  <2>1. [Idle EXCEPT !.step = "revise", !.at = now,
                     !.mine = req[w].mine \cup {changes + 1}].step = "revise"
    BY DEF Idle
  <2> QED BY <2>1 DEF Store, Sent, TypeOK
<1>4. ASSUME ~twins', NEW v \in Writers, Copied(v)'
      PROVE  /\ req'[v].copy.updated \in saved'
             /\ row'.updated # req'[v].copy.updated
  <2>1. v # w /\ req'[v] = req[v] /\ Copied(v)
    BY <1>3, <1>4 DEF Copied, At
  <2>2. req[v].copy.updated \in saved
    BY <1>2, <1>4, <2>1 DEF Traceable
  <2> QED BY <1>1, <1>2, <1>4, <2>1, <2>2
<1> QED BY <1>1, <1>4 DEF Traceable

\* No copy is taken, and the row stays or is gone.
LEMMA TraceLess ==
  ASSUME Traceable, UNCHANGED <<saved, twins>>, row' = row \/ ~row'.exists,
         \A w \in Writers : req'[w] = req[w] \/ ~Copied(w)'
  PROVE  Traceable'
<1>1. ASSUME NEW w \in Writers, Copied(w)' PROVE req'[w] = req[w] /\ Copied(w)
  BY <1>1 DEF Copied, At
<1> QED BY <1>1 DEF Traceable

LEMMA TraceStep == TypeOK /\ Traceable /\ [Next]_vars => Traceable'
<1> SUFFICES ASSUME TypeOK, Traceable, [Next]_vars PROVE Traceable'
  OBVIOUS
<1>1. ASSUME NEW w \in Writers, Finish(w)
      PROVE  \A v \in Writers : req'[v] = req[v] \/ ~Copied(v)'
  BY <1>1, Constants DEF Finish, Copied, At, TypeOK
<1>2. ASSUME NEW w \in Writers, NEW stored, Sent(w, stored)
      PROVE  \A v \in Writers : req'[v] = req[v] \/ ~Copied(v)'
  <2>1. [Idle EXCEPT !.step = "revise", !.at = now,
                     !.mine = req[w].mine \cup stored].step = "revise"
    BY DEF Idle
  <2> QED BY <1>2, <2>1 DEF Sent, Copied, At, TypeOK
<1>3. ASSUME NEW w \in Writers, NEW kind \in Kinds, ReadRow(w, kind) PROVE Traceable'
  <2>1. [Idle EXCEPT !.kind = kind, !.step = "write", !.copy = row, !.at = now].copy = row
    BY DEF Idle
  <2>2. req'[w].copy = row /\ \A v \in Writers \ {w} : req'[v] = req[v]
    BY <1>3, <2>1 DEF ReadRow, TypeOK
  <2>3. UNCHANGED <<row, saved, twins>> /\ row.exists
    BY <1>3 DEF ReadRow
  <2> QED BY <2>2, <2>3 DEF Traceable, Copied, At
<1>4. ASSUME NEW w \in Writers, Update(w) PROVE Traceable'
  <2>1. req[w].copy \in Row /\ req[w].at \in Nat
    BY Constants DEF TypeOK, Request
  <2>2. CASE Finish(w) /\ UNCHANGED <<row, changes, unsettled, saved, twins>>
    BY <1>1, <2>2, TraceLess
  <2>3. ASSUME NEW d \in UpdateDates(req[w]), Store(w, [req[w].copy EXCEPT !.updated = d])
        PROVE  Traceable'
    <3>1. [req[w].copy EXCEPT !.updated = d] \in Row
      BY <2>1 DEF UpdateDates, Later, Row
    <3> QED BY <2>3, <3>1, TraceStore
  <2> QED BY <1>4, <2>2, <2>3 DEF Update
<1>5. ASSUME NEW w \in Writers, Save(w) PROVE Traceable'
  <2>1. PICK d \in req[w].at..now : Store(w, [req[w].copy EXCEPT !.updated = d])
    BY <1>5 DEF Save
  <2>2. [req[w].copy EXCEPT !.updated = d] \in Row
    BY Constants DEF TypeOK, Request, Row
  <2> QED BY <2>1, <2>2, TraceStore
<1>6. ASSUME NEW w \in Writers, BulkStart(w) PROVE Traceable'
  <2>1. [Idle EXCEPT !.kind = "bulk", !.step = "write", !.at = now].kind = "bulk"
    BY DEF Idle
  <2>2. \A v \in Writers : req'[v] = req[v] \/ ~Copied(v)'
    BY <1>6, <2>1 DEF BulkStart, Copied, TypeOK
  <2> QED BY <1>6, <2>2, TraceLess DEF BulkStart
<1>7. ASSUME NEW w \in Writers, Bulk(w) PROVE Traceable'
  <2>1. [row EXCEPT !.updated = req[w].at] \in Row
    BY Constants DEF TypeOK, Request, Row
  <2>2. CASE Sent(w, {}) /\ UNCHANGED <<row, saved, twins>>
    BY <1>2, <2>2, TraceLess
  <2> QED BY <1>7, <2>1, <2>2, TraceStore DEF Bulk
<1>8. ASSUME NEW w \in Writers, Remove(w) PROVE Traceable'
  <2>1. \E stored : Sent(w, stored)
    BY <1>8 DEF Remove
  <2>2. row' = row \/ ~row'.exists
    BY <1>8, Constants DEF Remove
  <2> QED BY <1>2, <1>8, <2>1, <2>2, TraceLess DEF Remove
<1>9. ASSUME NEW w \in Writers, StoreOther(w) PROVE Traceable'
  <2>1. CASE Sent(w, {changes + 1})
    BY <1>2, <1>9, <2>1, TraceLess DEF StoreOther
  <2>2. CASE /\ At(w, "write") /\ req[w].kind \in {"delete", "bulk"}
             /\ req' = [req EXCEPT ![w].mine = @ \cup {changes + 1}]
    <3>1. req'[w].kind = req[w].kind /\ \A v \in Writers \ {w} : req'[v] = req[v]
      BY <2>2 DEF TypeOK, Request
    <3>2. \A v \in Writers : req'[v] = req[v] \/ ~Copied(v)'
      BY <2>2, <3>1 DEF Copied
    <3> QED BY <1>9, <3>2, TraceLess DEF StoreOther
  <2> QED BY <1>9, <2>1, <2>2 DEF StoreOther
<1>10. ASSUME NEW w \in Writers, Revise(w) \/ Abort(w) PROVE Traceable'
  BY <1>1, <1>10, TraceLess DEF Revise, Abort
<1>11. UNCHANGED <<row, req, saved, twins>> => Traceable'
  BY TraceLess
<1> QED
  BY <1>3, <1>4, <1>5, <1>6, <1>7, <1>8, <1>9, <1>10, <1>11
  DEF Next, vars, SyncRevision, SyncInsert, SyncLookup, SyncRows, SyncPut, SyncStop, Evict,
      Tick

-----------------------------------------------------------------------------
\* For any number of writers, readers and changes the state has its type, and
\* no revision is dated in the future.
THEOREM VaultTypeCorrect == Spec => []TypeOK
<1> QED BY TypeInit, TypeStep, PTL DEF Spec

LEMMA Invariance == Spec => []IInv
<1>1. Init => IInv
  BY TypeInit, CurrentInit, TraceInit DEF IInv
<1>2. IInv /\ [Next]_vars => IInv'
  BY TypeStep, CurrentStep, TraceStep DEF IInv
<1> QED BY <1>1, <1>2, PTL DEF Spec

\* However many writers and syncs interleave, what a sync takes from the cache
\* misses only changes whose request has still to move the revision.
THEOREM CachedSyncsAreCurrent == Spec => []CachedSyncIsCurrent
<1>1. IInv => CachedSyncIsCurrent
  <2> SUFFICES ASSUME IInv, rev # NoDate, ~collided, cache[rev] # Empty
               PROVE  Fresh(rev, cache[rev])
    BY DEF CachedSyncIsCurrent, Fresh
  <2>1. rev \in Time
    BY VaultAssumption DEF IInv, TypeOK, Time
  <2> QED BY <2>1 DEF IInv, Current
<1> QED BY <1>1, Invariance, PTL

\* However many writers compete, an update that is accepted replaces the row
\* its handler has read.
THEOREM UpdatesReplaceWhatTheyRead == Spec => UpdateReplacesWhatItRead
<1> DEFINE Replaced(w) == /\ req[w].step = "write" /\ req[w].kind \in {"update", "repair"}
                          /\ req'[w].step = "revise"
                          => row = req[w].copy
<1>1. IInv /\ [Next]_vars /\ ~twins => \A w \in Writers : Replaced(w)
  <2> SUFFICES ASSUME IInv, [Next]_vars, ~twins, NEW w \in Writers,
                      req[w].step = "write", req[w].kind \in {"update", "repair"},
                      req'[w].step = "revise"
               PROVE  row = req[w].copy
    OBVIOUS
  <2>1. Copied(w) /\ req'[w] # req[w]
    BY DEF Copied, At
  <2>2. ASSUME NEW v \in Writers,
               \/ Save(v) \/ Bulk(v) \/ Remove(v) \/ StoreOther(v) \/ Revise(v)
               \/ Abort(v) \/ BulkStart(v) \/ \E kind \in Kinds : ReadRow(v, kind)
        PROVE  FALSE
    <3>1. v # w
      <4>1. ~Abort(w)
        BY Constants DEF Abort, Finish, IInv, TypeOK
      <4> QED BY <2>2, <4>1 DEF Save, Bulk, Remove, StoreOther, Revise, BulkStart, ReadRow, At
    <3> QED BY <2>1, <2>2, <3>1 DEF Save, Bulk, Remove, StoreOther, Revise, Abort, BulkStart,
               ReadRow, Store, Sent, Finish, IInv, TypeOK
  <2>3. PICK v \in Writers : Update(v)
    BY <2>1, <2>2 DEF Next, vars, SyncRevision, SyncInsert, SyncLookup, SyncRows, SyncPut,
       SyncStop, Evict, Tick
  <2>4. v = w
    BY <2>1, <2>3 DEF Update, Store, Sent, Finish, IInv, TypeOK
  <2>5. ~Finish(w)
    BY Constants DEF Finish, IInv, TypeOK
  <2> QED BY <2>1, <2>3, <2>4, <2>5 DEF Update, Unchanged, IInv, Traceable
<1> QED BY <1>1, Invariance, PTL DEF Spec, UpdateReplacesWhatItRead
=============================================================================
