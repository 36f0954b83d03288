---------------------------- MODULE CacheProofs ----------------------------
(* Proofs about AuthCache and VaultCache, for any number of verifications  *)
(* and loads, any TTL, any latency and any number of changes.              *)
EXTENDS AuthCache, VaultCache, TLAPS

\* Version v of row p, if there is one, was replaced at most bound ago.
Recent(p, v, bound) == v # None => gone[p][v] <= bound

\* The current version and the ones to come have not been replaced.
CurrentIsFresh == \A p \in Rows : \A v \in Versions : v >= db[p] => gone[p][v] = 0

\* An entry was at most Latency old when it was written.
EntriesAreRecent ==
  \A p \in Rows :
     cache[p].left > 0 => Recent(p, cache[p].version, Ttl - cache[p].left + Latency)

\* A value just read is as old as its verification at most; one from the
\* cache had been there for Ttl - 1 ticks at most when it was looked up.  The
\* user stamp that matched stays with the token while the device is checked.
ValueIsRecent(e) ==
  /\ e.step = "put" => Recent(e.row, e.value, e.age)
  /\ e.step = "compare" => Recent(e.row, e.value, Ttl - 1 + Latency + e.age)
  /\ e.step # "idle" /\ e.row = "device" =>
       Recent("user", e.token["user"], Ttl - 1 + Latency + e.age)

\* A token carries stamps that were current, and one for the row at hand; a
\* value read for the second time is not older than the token.
Signed(e) ==
  /\ \A p \in Rows : e.token[p] <= db[p]
  /\ e.value <= db[e.row]
  /\ e.step # "idle" => e.token["user"] # None /\ e.token[e.row] # None
  /\ e.step = "lookup" => ~e.fresh
  /\ e.step \in {"put", "compare"} /\ e.fresh => e.value >= e.token[e.row]

TokensAreSigned == \A r \in Requests : Signed(req[r])

ValuesAreRecent == \A r \in Requests : ValueIsRecent(req[r])

\* Types, and what a verification knows of its token.
Typed == TypeOK /\ TokensAreSigned

IInv == Typed /\ CurrentIsFresh /\ EntriesAreRecent /\ ValuesAreRecent

-----------------------------------------------------------------------------
LEMMA TypeInit == Init => Typed
<1> SUFFICES ASSUME Init PROVE Typed
  OBVIOUS
<1>1. TypeOK
  BY CacheAssumption
  DEF Init, TypeOK, Entry, NoEntry, Request, Idle, Rows, Versions, None, Steps
<1>2. TokensAreSigned
  <2>1. ASSUME NEW r \in Requests PROVE Signed(req[r])
    <3>1. \A p \in Rows : db[p] = 1
      BY DEF Init
    <3>2. /\ req[r].value = 0 /\ req[r].row \in Rows /\ req[r].step = "idle"
          /\ \A p \in Rows : req[r].token[p] = 0
      BY DEF Init, Idle, Rows, None
    <3> QED BY <3>1, <3>2 DEF Signed
  <2> QED BY <2>1 DEF TokensAreSigned
<1> QED BY <1>1, <1>2 DEF Typed

(* A step of one verification that leaves the database alone.              *)
LEMMA OwnStep ==
  ASSUME Typed, NEW r \in Requests, NEW STATE e,
         e \in Request, Signed(e), req' = [req EXCEPT ![r] = e], db' = db
  PROVE  req' \in [Requests -> Request] /\ TokensAreSigned'
BY DEF Typed, TypeOK, TokensAreSigned, Signed

LEMMA TypeStep == Typed /\ [Next]_vars => Typed'
<1> SUFFICES ASSUME Typed, [Next]_vars PROVE Typed'
  OBVIOUS
<1> USE CacheAssumption
<1>1. ASSUME UNCHANGED <<db, cache, stale, gone>>,
             req' \in [Requests -> Request] /\ TokensAreSigned'
      PROVE  Typed'
  BY <1>1 DEF Typed, TypeOK
<1>2. /\ db["user"] \in Nat /\ db["device"] \in Nat
      /\ db["user"] \in 1..MaxVersion /\ db["device"] \in 1..MaxVersion
  BY DEF Typed, TypeOK, Rows, Versions
<1>3. /\ Idle \in Request /\ Idle.step = "idle" /\ Idle.value = 0 /\ Idle.row \in Rows
      /\ Idle.row = "user" /\ Idle.fresh = FALSE
      /\ \A p \in Rows : Idle.token[p] = 0 /\ db[p] \in Nat
  BY DEF Idle, Request, Rows, Versions, None, Steps, Typed, TypeOK
<1>4. ASSUME NEW r \in Requests, Finish(r)
      PROVE  db' = db => req' \in [Requests -> Request] /\ TokensAreSigned'
  <2> SUFFICES ASSUME db' = db PROVE req' \in [Requests -> Request] /\ TokensAreSigned'
    OBVIOUS
  <2>1. Idle \in Request /\ Signed(Idle)
    BY <1>3 DEF Signed
  <2> QED BY <1>4, <2>1, OwnStep DEF Finish
<1>5. ASSUME NEW r \in Requests, Present(r) PROVE Typed'
  <2>1. PICK u \in 1..db["user"], d \in None..db["device"] :
          req' = [req EXCEPT ![r] = [Idle EXCEPT !.step = "lookup",
                    !.token = [p \in Rows |-> IF p = "user" THEN u ELSE d]]]
    BY <1>5 DEF Present
  <2> DEFINE t == [p \in Rows |-> IF p = "user" THEN u ELSE d]
             e == [Idle EXCEPT !.step = "lookup", !.token = t]
  <2>2. req' = [req EXCEPT ![r] = e] /\ db' = db
    BY <1>5, <2>1 DEF Present
  <2>3. u \in Versions /\ d \in Versions \cup {None} /\ u <= db["user"] /\ d <= db["device"]
        /\ u # None
    BY <1>2 DEF Versions, None
  <2>4. /\ t \in [Rows -> Versions \cup {None}] /\ t["user"] = u
        /\ \A p \in Rows : t[p] <= db[p]
    BY <2>3 DEF Rows
  <2> HIDE DEF t
  <2>5. e \in Request /\ e.token = t /\ e.row = "user" /\ e.value = 0 /\ e.step = "lookup"
        /\ ~e.fresh
    BY <1>3, <2>4 DEF Request, Steps
  <2> HIDE DEF e
  <2>6. Signed(e)
    BY <1>2, <2>3, <2>4, <2>5 DEF Signed, None
  <2>7. req' \in [Requests -> Request] /\ TokensAreSigned'
    BY <2>2, <2>5, <2>6, OwnStep
  <2> QED BY <1>1, <1>5, <2>7 DEF Present
<1>6. ASSUME NEW r \in Requests, Lookup(r) PROVE Typed'
  <2> DEFINE p == req[r].row
  <2>1. /\ p \in Rows /\ cache \in [Rows -> Entry] /\ cache[p].version <= db[p]
        /\ Signed(req[r]) /\ req[r] \in Request /\ cache[p].version \in Versions \cup {None}
    BY DEF Typed, TypeOK, Request, Entry, TokensAreSigned
  <2>2. db' = db /\ UNCHANGED <<stale, gone>> /\ req[r].step = "lookup"
    BY <1>6 DEF Lookup, At
  <2>3. CASE Hit(cache[p])
    <3> DEFINE e == [req[r] EXCEPT !.step = "compare", !.value = cache[p].version]
    <3>1. e \in Request /\ e.token = req[r].token /\ e.row = p /\ e.value = cache[p].version
          /\ e.step = "compare" /\ ~e.fresh
      BY <2>1, <2>2 DEF Request, Steps, Signed
    <3>2. req' = [req EXCEPT ![r] = e] /\ cache' = cache
      BY <1>6, <2>3 DEF Lookup
    <3> HIDE DEF e
    <3>3. req' \in [Requests -> Request] /\ TokensAreSigned'
      BY <2>1, <2>2, <3>1, <3>2, OwnStep DEF Signed
    <3> QED BY <1>1, <2>2, <3>2, <3>3
  <2>4. CASE ~Hit(cache[p])
    <3> DEFINE e == [req[r] EXCEPT !.step = "read"]
    <3>1. e \in Request /\ e.token = req[r].token /\ e.row = p /\ e.value = req[r].value
          /\ e.step = "read" /\ ~e.fresh
      BY <2>1, <2>2 DEF Request, Steps, Signed
    <3>2. req' = [req EXCEPT ![r] = e] /\ cache' = [cache EXCEPT ![p] = NoEntry]
      BY <1>6, <2>4 DEF Lookup
    <3> HIDE DEF e
    <3>3. req' \in [Requests -> Request] /\ TokensAreSigned'
      BY <2>1, <2>2, <3>1, <3>2, OwnStep DEF Signed
    <3>4. NoEntry \in Entry /\ NoEntry.version = 0
      BY DEF NoEntry, Entry, None
    <3>5. cache' \in [Rows -> Entry] /\ \A q \in Rows : cache'[q].version <= db[q]
      BY <1>2, <1>3, <2>1, <3>2, <3>4 DEF Typed, TypeOK
    <3> QED BY <2>2, <3>3, <3>5 DEF Typed, TypeOK
  <2> QED BY <2>3, <2>4
<1>7. ASSUME NEW r \in Requests, Read(r) PROVE Typed'
  <2> DEFINE e == [req[r] EXCEPT !.step = "put", !.value = db[req[r].row]]
  <2>1. req[r] \in Request /\ req[r].row \in Rows /\ Signed(req[r])
        /\ db[req[r].row] \in Versions /\ req[r].step = "read"
    BY <1>7 DEF Typed, TypeOK, Request, TokensAreSigned, Read, At
  <2>2. e \in Request /\ e.token = req[r].token /\ e.row = req[r].row
        /\ e.value = db[e.row] /\ e.step = "put"
    BY <2>1 DEF Request, Steps
  <2>3. req' = [req EXCEPT ![r] = e] /\ db' = db
    BY <1>7 DEF Read
  <2> HIDE DEF e
  <2>4. /\ db[e.row] \in Nat /\ req[r].token[e.row] <= db[e.row]
        /\ req[r].token[e.row] \in Nat
    BY <1>3, <2>1, <2>2 DEF Signed, Request, Versions, None
  <2>5. Signed(e)
    BY <2>1, <2>2, <2>4 DEF Signed
  <2>6. req' \in [Requests -> Request] /\ TokensAreSigned'
    BY <2>2, <2>3, <2>5, OwnStep
  <2> QED BY <1>1, <1>7, <2>6 DEF Read
<1>8. ASSUME NEW r \in Requests, Put(r) PROVE Typed'
  <2> DEFINE e == [req[r] EXCEPT !.step = "compare"]
             n == [version |-> req[r].value, left |-> Ttl]
  <2>1. req[r] \in Request /\ req[r].row \in Rows /\ Signed(req[r]) /\ req[r].step = "put"
    BY <1>8 DEF Typed, TypeOK, Request, TokensAreSigned, Put, At
  <2>2. e \in Request /\ e.token = req[r].token /\ e.row = req[r].row
        /\ e.value = req[r].value /\ e.step = "compare" /\ e.fresh = req[r].fresh
    BY <2>1 DEF Request, Steps
  <2>3. req' = [req EXCEPT ![r] = e] /\ db' = db /\ cache' = [cache EXCEPT ![req[r].row] = n]
        /\ UNCHANGED <<stale, gone>>
    BY <1>8 DEF Put
  <2>4. n \in Entry /\ n.version <= db[req[r].row]
    BY <2>1 DEF Entry, Request, Signed
  <2> HIDE DEF e, n
  <2>5. req' \in [Requests -> Request] /\ TokensAreSigned'
    BY <2>1, <2>2, <2>3, OwnStep DEF Signed
  <2> QED BY <2>1, <2>3, <2>4, <2>5 DEF Typed, TypeOK
<1>9. ASSUME NEW r \in Requests, Match(r) PROVE Typed'
  <2>1. req[r] \in Request /\ Signed(req[r]) /\ req[r].step = "compare" /\ db' = db
    BY <1>9 DEF Typed, TypeOK, TokensAreSigned, Match, At
  <2>2. CASE req[r].row = "user" /\ req[r].token["device"] # None
    <3> DEFINE e == [req[r] EXCEPT !.row = "device", !.step = "lookup", !.fresh = FALSE,
                                   !.value = None]
    <3>1. e \in Request /\ e.token = req[r].token /\ e.row = "device" /\ e.value = 0
          /\ e.step = "lookup" /\ ~e.fresh
      BY <2>1 DEF Request, Steps, Rows, None
    <3>2. req' = [req EXCEPT ![r] = e]
      BY <1>9, <2>2 DEF Match
    <3> HIDE DEF e
    <3>3. Signed(e)
      BY <1>2, <2>1, <2>2, <3>1 DEF Signed
    <3>4. req' \in [Requests -> Request] /\ TokensAreSigned'
      BY <2>1, <3>1, <3>2, <3>3, OwnStep
    <3> QED BY <1>1, <1>9, <3>4 DEF Match
  <2>3. CASE ~(req[r].row = "user" /\ req[r].token["device"] # None)
    <3> DEFINE e == [req[r] EXCEPT !.step = "accepted"]
    <3>1. e \in Request /\ e.token = req[r].token /\ e.row = req[r].row
          /\ e.value = req[r].value /\ e.step = "accepted"
      BY <2>1 DEF Request, Steps
    <3>2. req' = [req EXCEPT ![r] = e]
      BY <1>9, <2>3 DEF Match
    <3> HIDE DEF e
    <3>3. req' \in [Requests -> Request] /\ TokensAreSigned'
      BY <2>1, <3>1, <3>2, OwnStep DEF Signed
    <3> QED BY <1>1, <1>9, <3>3 DEF Match
  <2> QED BY <2>2, <2>3
<1>10. ASSUME NEW r \in Requests, Mismatch(r) PROVE Typed'
  <2>1. req[r] \in Request /\ Signed(req[r]) /\ req[r].step = "compare" /\ db' = db
        /\ req[r].row \in Rows
    BY <1>10 DEF Typed, TypeOK, TokensAreSigned, Mismatch, At, Request
  <2>2. CASE req[r].fresh
    BY <1>1, <1>4, <1>10, <2>1, <2>2 DEF Mismatch
  <2>3. CASE ~req[r].fresh
    <3> DEFINE e == [req[r] EXCEPT !.step = "read", !.fresh = TRUE, !.value = None]
    <3>1. e \in Request /\ e.token = req[r].token /\ e.row = req[r].row /\ e.value = 0
          /\ e.step = "read"
      BY <2>1 DEF Request, Steps, None
    <3>2. req' = [req EXCEPT ![r] = e]
      BY <1>10, <2>3 DEF Mismatch
    <3> HIDE DEF e
    <3>3. Signed(e)
      BY <1>3, <2>1, <3>1 DEF Signed
    <3>4. req' \in [Requests -> Request] /\ TokensAreSigned'
      BY <2>1, <3>1, <3>2, <3>3, OwnStep
    <3> QED BY <1>1, <1>10, <3>4 DEF Mismatch
  <2> QED BY <2>2, <2>3
<1>11. ASSUME NEW r \in Requests, Answer(r) PROVE Typed'
  BY <1>1, <1>4, <1>11 DEF Answer
<1>12. ASSUME NEW p \in Rows, NEW here \in BOOLEAN, Change(p, here) PROVE Typed'
  <2>1. db' \in [Rows -> Versions] /\ \A q \in Rows : db'[q] \in Nat /\ db[q] <= db'[q]
    <3>1. db \in [Rows -> Versions] /\ db[p] + 1 \in Versions
      BY <1>12 DEF Change, Typed, TypeOK, Versions
    <3>2. db' = [db EXCEPT ![p] = db[p] + 1]
      BY <1>12 DEF Change
    <3>3. \A q \in Rows : db'[q] = IF q = p THEN db[p] + 1 ELSE db[q]
      BY <3>1, <3>2
    <3>4. db' \in [Rows -> Versions]
      BY <3>1, <3>2
    <3> QED BY <1>3, <3>3, <3>4
  <2>2. \A q \in Rows : cache[q].version \in Nat
    BY DEF Typed, TypeOK, Entry, Versions, None
  <2>3. TypeOK'
    BY <1>3, <1>12, <2>1, <2>2 DEF Change, Typed, TypeOK
  <2>4. ASSUME NEW r \in Requests PROVE Signed(req[r])'
    <3>1. /\ req[r].row \in Rows /\ req[r].value \in Nat
          /\ \A q \in Rows : req[r].token[q] \in Nat
      <4>1. req[r] \in Request
        BY DEF Typed, TypeOK
      <4> QED BY <4>1 DEF Request, Versions, None
    <3> QED BY <1>3, <1>12, <2>1, <3>1 DEF Change, Typed, TokensAreSigned, Signed
  <2> QED BY <2>3, <2>4 DEF Typed, TokensAreSigned
<1>13. ASSUME NEW p \in Rows, Invalidate(p) PROVE Typed'
  <2>1. NoEntry \in Entry /\ NoEntry.version = 0
    BY DEF NoEntry, Entry, None
  <2>2. cache' \in [Rows -> Entry] /\ \A q \in Rows : cache'[q].version <= db[q]
    BY <1>3, <1>13, <2>1 DEF Invalidate, Typed, TypeOK
  <2> QED BY <1>13, <2>2 DEF Invalidate, Typed, TypeOK, TokensAreSigned, Signed
<1>14. CASE Tick
  <2>1. ASSUME NEW r \in Requests
        PROVE  /\ req'[r] \in Request /\ req'[r].token = req[r].token
               /\ req'[r].row = req[r].row /\ req'[r].value = req[r].value
               /\ req'[r].step = req[r].step /\ req'[r].fresh = req[r].fresh
    <3>1. req[r] \in Request
      BY DEF Typed, TypeOK
    <3>2. req'[r] = IF req[r].step = "idle" THEN req[r] ELSE [req[r] EXCEPT !.age = @ + 1]
      BY <1>14 DEF Tick
    <3>3. req[r].step # "idle" => req[r].age + 1 \in 0..Latency
      BY <1>14, <3>1 DEF Tick, Request
    <3> QED BY <3>1, <3>2, <3>3 DEF Request
  <2>2. req' \in [Requests -> Request]
    BY <1>14, <2>1 DEF Tick
  <2>3. TokensAreSigned'
    BY <1>14, <2>1 DEF Tick, Typed, TokensAreSigned, Signed
  <2>4. ASSUME NEW p \in Rows
        PROVE  [cache[p] EXCEPT !.left = IF @ = 0 THEN 0 ELSE @ - 1] \in Entry
    <3>1. cache[p] \in Entry
      BY DEF Typed, TypeOK
    <3> QED BY <3>1 DEF Entry
  <2>5. cache' \in [Rows -> Entry] /\ \A p \in Rows : cache'[p].version = cache[p].version
    <3>1. \A p \in Rows : cache[p] \in Entry
      BY DEF Typed, TypeOK
    <3> QED BY <1>14, <2>4, <3>1 DEF Tick, Entry
  <2>6. \A p \in Rows, v \in Versions : Older(p, v) \in Nat
    BY DEF Older, Typed, TypeOK
  <2>7. gone' \in [Rows -> [Versions -> Nat]]
    BY <1>14, <2>6 DEF Tick
  <2>8. db' = db /\ stale' = stale
    BY <1>14 DEF Tick
  <2> QED BY <2>2, <2>3, <2>5, <2>7, <2>8 DEF Typed, TypeOK
<1>15. CASE UNCHANGED vars
  BY <1>1, <1>15 DEF vars, Typed, TypeOK, TokensAreSigned, Signed
<1> QED
  BY <1>5, <1>6, <1>7, <1>8, <1>9, <1>10, <1>11, <1>12, <1>13, <1>14, <1>15 DEF Next

-----------------------------------------------------------------------------
(* How long ago the versions in use were replaced.                         *)
LEMMA RecentInit == Init => IInv
<1> SUFFICES ASSUME Init PROVE IInv
  OBVIOUS
<1>1. CurrentIsFresh /\ EntriesAreRecent
  BY DEF Init, CurrentIsFresh, EntriesAreRecent, NoEntry
<1>2. ValuesAreRecent
  BY DEF Init, ValuesAreRecent, ValueIsRecent, Idle
<1> QED BY <1>1, <1>2, TypeInit DEF IInv

(* A step of one verification at which no time passes.                     *)
LEMMA OwnValue ==
  ASSUME IInv, NEW r \in Requests, NEW STATE e,
         ValueIsRecent(e), req' = [req EXCEPT ![r] = e], gone' = gone
  PROVE  ValuesAreRecent'
BY DEF IInv, Typed, TypeOK, ValuesAreRecent, ValueIsRecent, Recent

LEMMA RecentStep == IInv /\ [Next]_vars => IInv'
<1> SUFFICES ASSUME IInv, [Next]_vars
             PROVE  CurrentIsFresh' /\ EntriesAreRecent' /\ ValuesAreRecent'
  BY TypeStep DEF IInv
<1> USE CacheAssumption
<1>1. /\ cache \in [Rows -> Entry] /\ req \in [Requests -> Request]
      /\ db \in [Rows -> Versions] /\ gone \in [Rows -> [Versions -> Nat]]
  BY DEF IInv, Typed, TypeOK
<1>2. UNCHANGED <<db, gone>> => CurrentIsFresh'
  BY DEF IInv, CurrentIsFresh
<1>3. UNCHANGED <<cache, gone>> => EntriesAreRecent'
  BY DEF IInv, EntriesAreRecent, Recent
<1>4. UNCHANGED <<req, gone>> => ValuesAreRecent'
  BY DEF IInv, ValuesAreRecent, ValueIsRecent, Recent
<1>5. ASSUME NEW r \in Requests, Finish(r), UNCHANGED <<db, cache, gone>>
      PROVE  CurrentIsFresh' /\ EntriesAreRecent' /\ ValuesAreRecent'
  <2>1. ValueIsRecent(Idle)
    BY DEF ValueIsRecent, Idle
  <2> QED BY <1>2, <1>3, <1>5, <2>1, OwnValue DEF Finish
<1>6. ASSUME NEW p \in Rows, cache' = [cache EXCEPT ![p] = NoEntry], gone' = gone
      PROVE  EntriesAreRecent'
  <2>1. NoEntry.left = 0
    BY DEF NoEntry
  <2>2. \A q \in Rows : q # p => cache'[q] = cache[q]
    BY <1>1, <1>6
  <2>3. cache'[p].left = 0
    BY <1>1, <1>6, <2>1
  <2> QED BY <1>6, <2>2, <2>3 DEF IInv, EntriesAreRecent, Recent
<1>7. ASSUME NEW r \in Requests, Present(r)
      PROVE  CurrentIsFresh' /\ EntriesAreRecent' /\ ValuesAreRecent'
  <2>1. PICK t : req' = [req EXCEPT ![r] = [Idle EXCEPT !.step = "lookup", !.token = t]]
    BY <1>7 DEF Present
  <2>2. ValueIsRecent([Idle EXCEPT !.step = "lookup", !.token = t])
    BY DEF Idle, ValueIsRecent
  <2> QED BY <1>2, <1>3, <1>7, <2>1, <2>2, OwnValue DEF Present
<1>8. ASSUME NEW r \in Requests, Lookup(r)
      PROVE  CurrentIsFresh' /\ EntriesAreRecent' /\ ValuesAreRecent'
  <2> DEFINE p == req[r].row
  <2>1. /\ p \in Rows /\ cache[p] \in Entry /\ req[r] \in Request /\ ValueIsRecent(req[r])
        /\ req[r].step = "lookup" /\ UNCHANGED <<db, gone>>
    BY <1>1, <1>8 DEF Request, IInv, ValuesAreRecent, Lookup, At
  <2>2. CASE Hit(cache[p])
    <3> DEFINE e == [req[r] EXCEPT !.step = "compare", !.value = cache[p].version]
    <3>1. /\ e.token = req[r].token /\ e.row = p /\ e.value = cache[p].version
          /\ e.step = "compare" /\ e.age = req[r].age
      BY <2>1 DEF Request
    <3>2. req' = [req EXCEPT ![r] = e] /\ cache' = cache
      BY <1>8, <2>2 DEF Lookup
    <3> HIDE DEF e
    <3>3. Recent(p, cache[p].version, Ttl - cache[p].left + Latency) /\ cache[p].left > 0
      BY <2>1, <2>2 DEF IInv, EntriesAreRecent, Hit
    <3>4. ASSUME cache[p].version # None PROVE gone[p][cache[p].version] \in Nat
      BY <1>1, <2>1, <3>4 DEF Entry
    <3>5. Recent(p, e.value, Ttl - 1 + Latency + e.age)
      BY <2>1, <3>1, <3>3, <3>4 DEF Entry, Request, Recent
    <3>6. ValueIsRecent(e)
      BY <2>1, <3>1, <3>5 DEF ValueIsRecent
    <3> QED BY <1>2, <1>3, <2>1, <3>2, <3>6, OwnValue
  <2>3. CASE ~Hit(cache[p])
    <3> DEFINE e == [req[r] EXCEPT !.step = "read"]
    <3>1. /\ e.token = req[r].token /\ e.row = p /\ e.step = "read" /\ e.age = req[r].age
      BY <2>1 DEF Request
    <3>2. req' = [req EXCEPT ![r] = e] /\ cache' = [cache EXCEPT ![p] = NoEntry]
      BY <1>8, <2>3 DEF Lookup
    <3> HIDE DEF e
    <3>3. ValueIsRecent(e)
      BY <2>1, <3>1 DEF ValueIsRecent
    <3> QED BY <1>2, <1>6, <2>1, <3>2, <3>3, OwnValue
  <2> QED BY <2>2, <2>3
<1>9. ASSUME NEW r \in Requests, Read(r)
      PROVE  CurrentIsFresh' /\ EntriesAreRecent' /\ ValuesAreRecent'
  <2> DEFINE e == [req[r] EXCEPT !.step = "put", !.value = db[req[r].row]]
  <2>1. /\ req[r] \in Request /\ req[r].row \in Rows /\ ValueIsRecent(req[r])
        /\ req[r].step = "read" /\ UNCHANGED <<db, cache, gone>>
    BY <1>1, <1>9 DEF Request, IInv, ValuesAreRecent, Read, At
  <2>2. /\ e.token = req[r].token /\ e.row = req[r].row /\ e.value = db[req[r].row]
        /\ e.step = "put" /\ e.age = req[r].age
    BY <2>1 DEF Request
  <2>3. gone[req[r].row][db[req[r].row]] = 0 /\ req[r].age \in Nat
    BY <1>1, <2>1 DEF IInv, CurrentIsFresh, Versions, Request
  <2>4. req' = [req EXCEPT ![r] = e]
    BY <1>9 DEF Read
  <2> HIDE DEF e
  <2>5. ValueIsRecent(e)
    BY <2>1, <2>2, <2>3 DEF ValueIsRecent, Recent
  <2> QED BY <1>2, <1>3, <2>1, <2>4, <2>5, OwnValue
<1>10. ASSUME NEW r \in Requests, Put(r)
       PROVE  CurrentIsFresh' /\ EntriesAreRecent' /\ ValuesAreRecent'
  <2> DEFINE e == [req[r] EXCEPT !.step = "compare"]
             n == [version |-> req[r].value, left |-> Ttl]
             p == req[r].row
  <2>1. /\ req[r] \in Request /\ p \in Rows /\ ValueIsRecent(req[r])
        /\ req[r].step = "put" /\ UNCHANGED <<db, gone>>
    BY <1>1, <1>10 DEF Request, IInv, ValuesAreRecent, Put, At
  <2>2. /\ e.token = req[r].token /\ e.row = p /\ e.value = req[r].value
        /\ e.step = "compare" /\ e.age = req[r].age
    BY <2>1 DEF Request
  <2>3. ASSUME req[r].value # None PROVE gone[p][req[r].value] \in Nat
    BY <1>1, <2>1, <2>3 DEF Request
  <2>4. Recent(p, req[r].value, req[r].age) /\ req[r].age \in 0..Latency
    BY <2>1 DEF ValueIsRecent, Request
  <2>5. req' = [req EXCEPT ![r] = e] /\ cache' = [cache EXCEPT ![p] = n]
    BY <1>10 DEF Put
  <2>6. n.left = Ttl /\ n.version = req[r].value
    OBVIOUS
  <2> HIDE DEF e, n
  <2>7. Recent(p, n.version, Ttl - n.left + Latency) /\ Recent(p, e.value, Ttl - 1 + Latency + e.age)
    BY <2>2, <2>3, <2>4, <2>6 DEF Recent
  <2>8. ValueIsRecent(e)
    BY <2>1, <2>2, <2>7 DEF ValueIsRecent
  <2>9. \A q \in Rows : cache'[q] = IF q = p THEN n ELSE cache[q]
    BY <1>1, <2>1, <2>5
  <2>10. EntriesAreRecent'
    BY <2>1, <2>7, <2>9 DEF IInv, EntriesAreRecent, Recent
  <2> QED BY <1>2, <2>1, <2>5, <2>8, <2>10, OwnValue
<1>11. ASSUME NEW r \in Requests, Match(r)
       PROVE  CurrentIsFresh' /\ EntriesAreRecent' /\ ValuesAreRecent'
  <2>1. /\ req[r] \in Request /\ ValueIsRecent(req[r]) /\ req[r].step = "compare"
        /\ req[r].value = req[r].token[req[r].row] /\ UNCHANGED <<db, cache, gone>>
    BY <1>1, <1>11 DEF IInv, ValuesAreRecent, Match, At
  <2>2. CASE req[r].row = "user" /\ req[r].token["device"] # None
    <3> DEFINE e == [req[r] EXCEPT !.row = "device", !.step = "lookup", !.fresh = FALSE,
                                   !.value = None]
    <3>1. /\ e.token = req[r].token /\ e.row = "device" /\ e.step = "lookup"
          /\ e.age = req[r].age
      BY <2>1 DEF Request
    <3>2. req' = [req EXCEPT ![r] = e]
      BY <1>11, <2>2 DEF Match
    <3> HIDE DEF e
    <3>3. ValueIsRecent(e)
      BY <2>1, <2>2, <3>1 DEF ValueIsRecent
    <3> QED BY <1>2, <1>3, <2>1, <3>2, <3>3, OwnValue
  <2>3. CASE ~(req[r].row = "user" /\ req[r].token["device"] # None)
    <3> DEFINE e == [req[r] EXCEPT !.step = "accepted"]
    <3>1. /\ e.token = req[r].token /\ e.row = req[r].row /\ e.step = "accepted"
          /\ e.age = req[r].age
      BY <2>1 DEF Request
    <3>2. req' = [req EXCEPT ![r] = e]
      BY <1>11, <2>3 DEF Match
    <3> HIDE DEF e
    <3>3. ValueIsRecent(e)
      BY <2>1, <3>1 DEF ValueIsRecent
    <3> QED BY <1>2, <1>3, <2>1, <3>2, <3>3, OwnValue
  <2> QED BY <2>2, <2>3
<1>12. ASSUME NEW r \in Requests, Mismatch(r)
       PROVE  CurrentIsFresh' /\ EntriesAreRecent' /\ ValuesAreRecent'
  <2>1. CASE Finish(r)
    BY <1>5, <1>12, <2>1 DEF Mismatch
  <2>2. CASE ~Finish(r)
    <3> DEFINE e == [req[r] EXCEPT !.step = "read", !.fresh = TRUE, !.value = None]
    <3>1. /\ req[r] \in Request /\ ValueIsRecent(req[r]) /\ req[r].step = "compare"
          /\ UNCHANGED <<db, cache, gone>>
      BY <1>1, <1>12 DEF IInv, ValuesAreRecent, Mismatch, At
    <3>2. /\ e.token = req[r].token /\ e.row = req[r].row /\ e.step = "read"
          /\ e.age = req[r].age
      BY <3>1 DEF Request
    <3>3. req' = [req EXCEPT ![r] = e]
      BY <1>12, <2>2 DEF Mismatch
    <3> HIDE DEF e
    <3>4. ValueIsRecent(e)
      BY <3>1, <3>2 DEF ValueIsRecent
    <3> QED BY <1>2, <1>3, <3>1, <3>3, <3>4, OwnValue
  <2> QED BY <2>1, <2>2
<1>13. ASSUME NEW r \in Requests, Answer(r)
       PROVE  CurrentIsFresh' /\ EntriesAreRecent' /\ ValuesAreRecent'
  BY <1>5, <1>13 DEF Answer
<1>14. ASSUME NEW p \in Rows, NEW here \in BOOLEAN, Change(p, here)
       PROVE  CurrentIsFresh' /\ EntriesAreRecent' /\ ValuesAreRecent'
  <2>1. \A q \in Rows : db[q] \in Nat /\ db'[q] \in Nat /\ db[q] <= db'[q]
    BY <1>1, <1>14 DEF Change, Versions
  <2>2. CurrentIsFresh'
    BY <1>14, <2>1 DEF Change, IInv, CurrentIsFresh, Versions
  <2> QED BY <1>3, <1>4, <1>14, <2>2 DEF Change
<1>15. ASSUME NEW p \in Rows, Invalidate(p)
       PROVE  CurrentIsFresh' /\ EntriesAreRecent' /\ ValuesAreRecent'
  <2>1. \A q \in Rows : cache'[q] = NoEntry \/ cache'[q] = cache[q]
    BY <1>15 DEF Invalidate
  <2>2. NoEntry.left = 0
    BY DEF NoEntry
  <2>3. EntriesAreRecent'
    BY <1>15, <2>1, <2>2 DEF Invalidate, IInv, EntriesAreRecent, Recent
  <2> QED BY <1>2, <1>4, <1>15, <2>3 DEF Invalidate
<1>16. CASE Tick
  <2>1. ASSUME NEW p \in Rows, NEW v \in Versions
        PROVE  /\ gone[p][v] \in Nat /\ gone'[p][v] \in Nat /\ gone'[p][v] <= gone[p][v] + 1
               /\ v >= db[p] => gone'[p][v] = gone[p][v]
    <3>1. gone[p][v] \in Nat /\ gone'[p][v] = Older(p, v) /\ v \in Nat /\ db[p] \in Nat
      BY <1>1, <1>16 DEF Tick, Versions
    <3> QED BY <3>1 DEF Older
  <2>2. CurrentIsFresh'
    BY <1>16, <2>1 DEF Tick, IInv, CurrentIsFresh
  <2>3. ASSUME NEW p \in Rows, cache'[p].left > 0
        PROVE  Recent(p, cache[p].version, Ttl - cache[p].left + Latency)'
    <3>1. /\ cache[p] \in Entry
          /\ cache'[p] = [cache[p] EXCEPT !.left = IF @ = 0 THEN 0 ELSE @ - 1]
      BY <1>1, <1>16 DEF Tick
    <3>2. /\ cache[p].left \in 0..Ttl /\ cache[p].left > 0
          /\ cache'[p].left = cache[p].left - 1 /\ cache'[p].version = cache[p].version
      BY <2>3, <3>1 DEF Entry
    <3>3. Recent(p, cache[p].version, Ttl - cache[p].left + Latency)
      BY <3>2 DEF IInv, EntriesAreRecent
    <3>4. cache[p].version # None => cache[p].version \in Versions
      BY <3>1 DEF Entry
    <3> QED BY <2>1, <3>2, <3>3, <3>4 DEF Recent
  <2>4. EntriesAreRecent'
    BY <2>3 DEF EntriesAreRecent
  <2>5. ASSUME NEW r \in Requests, req[r].step # "idle" PROVE ValueIsRecent(req[r])'
    <3>1. req'[r] = [req[r] EXCEPT !.age = @ + 1] /\ req[r] \in Request /\ ValueIsRecent(req[r])
      BY <1>1, <1>16, <2>5 DEF Tick, IInv, ValuesAreRecent
    <3>2. /\ req'[r].age = req[r].age + 1 /\ req'[r].step = req[r].step
          /\ req'[r].row = req[r].row /\ req'[r].value = req[r].value
          /\ req'[r].token = req[r].token /\ req[r].age \in Nat
      BY <3>1 DEF Request
    <3>3. ASSUME NEW p \in Rows, NEW v \in Versions \cup {None}, NEW bound \in Int,
                 Recent(p, v, bound)
          PROVE  v # None => gone'[p][v] <= bound + 1
      BY <2>1, <3>3 DEF Recent
    <3>4. /\ req[r].row \in Rows /\ req[r].value \in Versions \cup {None} /\ "user" \in Rows
          /\ req[r].token["user"] \in Versions \cup {None}
      BY <3>1 DEF Request, Rows
    <3>5. /\ Ttl - 1 + Latency + req[r].age \in Int /\ req[r].age \in Int
          /\ Ttl - 1 + Latency + (req[r].age + 1) = (Ttl - 1 + Latency + req[r].age) + 1
      BY <3>2
    <3>6. req[r].step = "put" => Recent(req[r].row, req[r].value, req[r].age)'
      BY <3>1, <3>2, <3>3, <3>4, <3>5 DEF ValueIsRecent, Recent
    <3>7. req[r].step = "compare" =>
            Recent(req[r].row, req[r].value, Ttl - 1 + Latency + req[r].age)'
      BY <3>1, <3>2, <3>3, <3>4, <3>5 DEF ValueIsRecent, Recent
    <3>8. req[r].row = "device" =>
            Recent("user", req[r].token["user"], Ttl - 1 + Latency + req[r].age)'
      BY <2>5, <3>1, <3>2, <3>3, <3>4, <3>5 DEF ValueIsRecent, Recent
    <3> QED BY <3>2, <3>6, <3>7, <3>8 DEF ValueIsRecent
  <2>6. ASSUME NEW r \in Requests, req[r].step = "idle" PROVE ValueIsRecent(req[r])'
    BY <1>1, <1>16, <2>6 DEF Tick, ValueIsRecent
  <2>7. ValuesAreRecent'
    BY <2>5, <2>6 DEF ValuesAreRecent
  <2> QED BY <2>2, <2>4, <2>7
<1>17. CASE UNCHANGED vars
  BY <1>2, <1>3, <1>4, <1>17 DEF vars
<1> QED
  BY <1>7, <1>8, <1>9, <1>10, <1>11, <1>12, <1>13, <1>14, <1>15, <1>16, <1>17 DEF Next

\* Rows, entries, verifications and history have their types.
THEOREM CacheTypeCorrect == Spec => []TypeOK
<1>1. Typed => TypeOK
  BY DEF Typed
<1> QED BY <1>1, TypeInit, TypeStep, PTL DEF Spec

\* However many verifications share the caches, a stamp that was replaced is
\* accepted for MaxDelay at most: the life of an entry, the read that filled
\* it and the verification that found it.
THEOREM RevocationsReachTheCache == Spec => RevocationIsBounded
<1>1. ASSUME IInv, Next, NEW r \in Requests,
             req'[r].step = "accepted", req[r].step # "accepted", NEW p \in Rows
      PROVE  LET v == req[r].token[p] IN v # None => gone[p][v] <= MaxDelay
  <2> USE CacheAssumption
  <2>1. req \in [Requests -> Request] /\ req[r] \in Request /\ ValueIsRecent(req[r])
    BY <1>1 DEF IInv, Typed, TypeOK, ValuesAreRecent
  <2>2. Match(r) /\ ~(req[r].row = "user" /\ req[r].token["device"] # None)
    <3>1. ASSUME NEW q \in Requests, Present(q) PROVE FALSE
      <4>1. PICK t : req' = [req EXCEPT ![q] = [Idle EXCEPT !.step = "lookup", !.token = t]]
        BY <3>1 DEF Present
      <4>2. [Idle EXCEPT !.step = "lookup", !.token = t].step = "lookup"
        BY DEF Idle
      <4> QED BY <1>1, <2>1, <4>1, <4>2
    <3>2. ASSUME NEW q \in Requests, Lookup(q) PROVE FALSE
      BY <1>1, <2>1, <3>2 DEF Lookup, Request
    <3>3. ASSUME NEW q \in Requests, Read(q) PROVE FALSE
      BY <1>1, <2>1, <3>3 DEF Read, Request
    <3>4. ASSUME NEW q \in Requests, Put(q) PROVE FALSE
      BY <1>1, <2>1, <3>4 DEF Put, Request
    <3>5. ASSUME NEW q \in Requests, Finish(q) PROVE FALSE
      BY <1>1, <2>1, <3>5 DEF Finish, Idle
    <3>6. ASSUME NEW q \in Requests, Mismatch(q) PROVE FALSE
      BY <1>1, <2>1, <3>5, <3>6 DEF Mismatch, Request
    <3>7. ASSUME req' = req PROVE FALSE
      BY <1>1, <3>7
    <3>8. ~Tick
      BY <1>1, <2>1 DEF Tick, Request
    <3>9. PICK q \in Requests : Match(q)
      BY <1>1, <3>1, <3>2, <3>3, <3>4, <3>5, <3>6, <3>7, <3>8
      DEF Next, Answer, Change, Invalidate
    <3> QED BY <1>1, <2>1, <3>9 DEF Match, Request
  <2>3. req[r].step = "compare" /\ req[r].value = req[r].token[req[r].row]
    BY <2>2 DEF Match, At
  <2>4. /\ Recent(req[r].row, req[r].token[req[r].row], Ttl - 1 + Latency + req[r].age)
        /\ req[r].row = "device" =>
             Recent("user", req[r].token["user"], Ttl - 1 + Latency + req[r].age)
    BY <2>1, <2>3 DEF ValueIsRecent
  <2>5. req[r].token[p] # None => Recent(p, req[r].token[p], Ttl - 1 + Latency + req[r].age)
    BY <2>1, <2>2, <2>4 DEF Request, Rows
  <2>6. /\ req[r].age \in Nat /\ req[r].age <= Latency
        /\ (req[r].token[p] # None => gone[p][req[r].token[p]] \in Nat)
    BY <1>1, <2>1 DEF IInv, Typed, TypeOK, Request
  <2> QED BY <2>5, <2>6 DEF Recent, MaxDelay
<1>2. IInv /\ [Next]_vars =>
        [\A r \in Requests : req'[r].step = "accepted" /\ req[r].step # "accepted"
           => \A p \in Rows : LET v == req[r].token[p]
                              IN  v # None => gone[p][v] <= MaxDelay]_vars
  BY <1>1
<1>3. Init => IInv
  BY RecentInit
<1>4. IInv /\ [Next]_vars => IInv'
  BY RecentStep
<1> QED BY <1>2, <1>3, <1>4, PTL DEF Spec, RevocationIsBounded

\* A token whose stamps are current is never refused, however stale the cache
\* it is checked against first.
THEOREM CurrentTokensAreAccepted == Spec => RefusedOnlyIfReplaced
<1>1. ASSUME Typed, Next, NEW r \in Requests, req[r].step = "compare", req'[r].step = "idle"
      PROVE  \E p \in Rows : req[r].token[p] \notin {None, db[p]}
  <2>1. req \in [Requests -> Request] /\ req[r] \in Request /\ Signed(req[r])
    BY <1>1 DEF Typed, TypeOK, TokensAreSigned
  <2>2. Mismatch(r) /\ req[r].fresh
    <3>1. ASSUME NEW q \in Requests, Present(q) \/ Answer(q) PROVE FALSE
      BY <1>1, <2>1, <3>1 DEF Present, Answer, At, Finish
    <3>2. ASSUME NEW q \in Requests, Lookup(q) PROVE FALSE
      BY <1>1, <2>1, <3>2 DEF Lookup, At
    <3>3. ASSUME NEW q \in Requests, Read(q) PROVE FALSE
      BY <1>1, <2>1, <3>3 DEF Read, At
    <3>4. ASSUME NEW q \in Requests, Put(q) PROVE FALSE
      BY <1>1, <2>1, <3>4 DEF Put, At
    <3>5. ASSUME NEW q \in Requests, Match(q) PROVE FALSE
      BY <1>1, <2>1, <3>5 DEF Match, At, Request
    <3>6. ASSUME Tick PROVE FALSE
      <4>1. req'[r] = [req[r] EXCEPT !.age = @ + 1]
        BY <1>1, <2>1, <3>6 DEF Tick
      <4> QED BY <1>1, <2>1, <4>1 DEF Request
    <3>7. ASSUME req' = req PROVE FALSE
      BY <1>1, <3>7
    <3>8. PICK q \in Requests : Mismatch(q)
      BY <1>1, <3>1, <3>2, <3>3, <3>4, <3>5, <3>6, <3>7 DEF Next, Change, Invalidate
    <3> QED BY <1>1, <2>1, <3>8 DEF Mismatch, Finish, Request
  <2> DEFINE p == req[r].row
  <2>3. /\ p \in Rows /\ req[r].value # req[r].token[p] /\ req[r].value >= req[r].token[p]
        /\ req[r].value <= db[p] /\ req[r].token[p] # None
    BY <1>1, <2>1, <2>2 DEF Signed, Mismatch, Request
  <2>4. req[r].value \in Nat /\ req[r].token[p] \in Nat /\ db[p] \in Nat
    BY <1>1, <2>1, <2>3 DEF Request, Typed, TypeOK, Versions, None
  <2>5. req[r].token[p] # db[p]
    BY <2>3, <2>4
  <2> QED BY <2>3, <2>5
<1>2. Typed /\ [Next]_vars =>
        [\A r \in Requests : req[r].step = "compare" /\ req'[r].step = "idle"
           => \E p \in Rows : req[r].token[p] \notin {None, db[p]}]_vars
  BY <1>1
<1> QED BY <1>2, TypeInit, TypeStep, PTL DEF Spec, RefusedOnlyIfReplaced

-----------------------------------------------------------------------------
(* VaultCache.                                                             *)

\* A copy shows every change up to its stamp.
CompleteCopy(copy) == UpTo(copy.stamp) \subseteq copy.has

\* A load: a stamp once it has been asked for is no older than its beginning,
\* and the sync that follows has everything up to the stamp.
CompleteLoad(l) ==
  /\ CompleteCopy(loads[l].cached)
  /\ loads[l].began <= revision
  /\ loads[l].step \in {"match", "again", "sync", "arrive"} =>
       loads[l].began <= loads[l].stamp /\ loads[l].stamp <= revision
  /\ loads[l].step = "arrive" => UpTo(loads[l].stamp) \subseteq loads[l].got

Complete == /\ CompleteCopy(memory) /\ CompleteCopy(disk)
            /\ \A l \in Loads : CompleteLoad(l)

\* What the user changes here is a change.
OwnIsChange == own.step = "made" => own.change \in Changed

CacheInv == CacheTypeOK /\ OwnIsChange /\ (~covered => Complete)

LEMMA NothingCopied == NoCopy \in Copy /\ NoneLoading \in Load /\ CompleteCopy(NoCopy)
BY VaultCacheAssumption
DEF NoCopy, NoStamp, Unmatched, Copy, NoneLoading, Load, LoadSteps, CompleteCopy, UpTo, Changed

LEMMA CacheInitInv == CacheInit => CacheInv
<1> SUFFICES ASSUME CacheInit PROVE CacheInv
  OBVIOUS
<1>1. disk \in Copy /\ CompleteCopy(disk)
  BY NothingCopied, VaultCacheAssumption
  DEF CacheInit, Copy, NoStamp, CompleteCopy, UpTo, Changed
<1>2. loads \in [Loads -> Load] /\ \A l \in Loads : loads[l] = NoneLoading
  BY NothingCopied DEF CacheInit
<1>3. CacheTypeOK
  BY <1>1, <1>2, NothingCopied, VaultCacheAssumption
  DEF CacheInit, CacheTypeOK, UpTo, Changed, NotOwn, NoSave, OwnSteps, NoStamp
<1>4. Complete
  BY <1>1, <1>2, NothingCopied, VaultCacheAssumption
  DEF CacheInit, Complete, CompleteLoad, NoneLoading
<1>5. OwnIsChange
  BY DEF CacheInit, NotOwn, OwnIsChange
<1> QED BY <1>3, <1>4, <1>5 DEF CacheInv

LoadsTyped == /\ loads \in [Loads -> Load]
              /\ \A l \in {pending, query} \ {NoLoad} : l \in Loads /\ ~Loading(l, "idle")

\* A load goes on, or ends and is waited for no more.
LEMMA LoadGoesOn ==
  ASSUME LoadsTyped, NEW l \in Loads, NEW x \in Load, x.step # "idle",
         loads' = [loads EXCEPT ![l] = x],
         pending' \in {pending, l, NoLoad}, query' \in {query, l, NoLoad}
  PROVE  LoadsTyped'
BY DEF LoadsTyped, Loading

LEMMA LoadQuits ==
  ASSUME LoadsTyped, NEW l \in Loads, Quit(l)
  PROVE  LoadsTyped'
<1>1. loads' \in [Loads -> Load]
  BY NothingCopied DEF LoadsTyped, Quit
<1>2. ASSUME NEW m \in {pending', query'}, m # NoLoad PROVE m \in Loads /\ ~Loading(m, "idle")'
  <2>1. m # l /\ m \in {pending, query}
    BY <1>2, VaultCacheAssumption DEF Quit, Settled
  <2> QED BY <1>2, <2>1 DEF LoadsTyped, Loading, Quit
<1> QED BY <1>1, <1>2 DEF LoadsTyped

\* An answer shows a set of changes.
LEMMA AnswerTyped ==
  ASSUME LoadsTyped, shown \in Copy, NEW l \in Loads, NEW has \in SUBSET Changed, AnswerWith(l, has)
  PROVE  LoadsTyped' /\ shown' \in Copy
<1>1. [stamp |-> Unmatched, has |-> has] \in Copy
  BY VaultCacheAssumption DEF Copy, Unmatched, NoStamp
<1> QED BY <1>1, LoadQuits DEF AnswerWith

LEMMA CacheTypeStep == CacheTypeOK /\ OwnIsChange /\ [CacheNext]_cacheVars => CacheTypeOK' /\ OwnIsChange'
<1> SUFFICES ASSUME CacheTypeOK, OwnIsChange, [CacheNext]_cacheVars PROVE CacheTypeOK' /\ OwnIsChange'
  OBVIOUS
<1>t. /\ LoadsTyped /\ MaxRevision \in Nat \ {0}
      /\ revision \in 0..MaxRevision /\ mail \subseteq UpTo(revision)
      /\ memory \in Copy /\ disk \in Copy /\ shown \in Copy
      /\ own \in [step: OwnSteps, change: 0..MaxRevision, stamp: 0..MaxRevision]
      /\ save \in [on: BOOLEAN, stamp: NoStamp..MaxRevision, has: SUBSET Changed]
  BY VaultCacheAssumption DEF CacheTypeOK, LoadsTyped
<1>u. UpTo(revision) \subseteq Changed /\ revision \in NoStamp..MaxRevision
  BY <1>t DEF UpTo, Changed, NoStamp
<1>f. \A l \in Loads : loads[l] \in Load
  BY <1>t DEF LoadsTyped
<1>q. \* The parts a step of a load may change.
      ASSUME LoadsTyped', memory' \in Copy, disk' \in Copy, shown' \in Copy,
             UNCHANGED <<revision, mail, own, save>>
      PROVE  CacheTypeOK' /\ OwnIsChange'
  BY <1>t, <1>q DEF CacheTypeOK, LoadsTyped, OwnIsChange
<1>r. ASSUME NEW l \in Loads, NEW copy \in Copy, UseRecord(l, copy)
      PROVE  LoadsTyped' /\ memory' \in Copy /\ shown' \in Copy
  <2>1. CASE Matches(copy, l)
    <3>1. copy.has \in SUBSET Changed
      BY DEF Copy
    <3> QED BY <1>t, <1>r, <2>1, <3>1, AnswerTyped DEF UseRecord
  <2>2. CASE ~Matches(copy, l)
    <3> DEFINE x == [loads[l] EXCEPT !.step = "sync", !.cached = copy]
    <3>1. x \in Load /\ x.step # "idle"
      BY <1>t, <1>f DEF Load, LoadSteps
    <3>2. loads' = [loads EXCEPT ![l] = x] /\ UNCHANGED <<memory, shown, pending, query>>
      BY <1>t, <1>r, <2>2 DEF UseRecord, LoadsTyped, Load
    <3> HIDE DEF x
    <3> QED BY <1>t, <3>1, <3>2, LoadGoesOn
  <2> QED BY <2>1, <2>2
<1>1. ASSUME NEW l \in Loads, StartLoad(l) PROVE CacheTypeOK' /\ OwnIsChange'
  <2> DEFINE x == [NoneLoading EXCEPT !.step = "disk", !.bare = memory = NoCopy, !.began = revision]
  <2>1. x \in Load /\ x.step # "idle"
    BY <1>t, NothingCopied DEF Load, LoadSteps, NoneLoading
  <2>2. loads' = [loads EXCEPT ![l] = x] /\ pending' = l /\ query' = l
    BY <1>1 DEF StartLoad
  <2> HIDE DEF x
  <2>3. LoadsTyped'
    BY <1>t, <2>1, <2>2, LoadGoesOn
  <2> QED BY <1>t, <1>q, <1>1, <2>3 DEF StartLoad
<1>2. ASSUME NEW l \in Loads, ReadDisk(l) PROVE CacheTypeOK' /\ OwnIsChange'
  <2> DEFINE x == [loads[l] EXCEPT !.step = "revision", !.bare = FALSE, !.cached = disk]
  <2>1. x \in Load /\ x.step # "idle"
    BY <1>t, <1>f DEF Load, LoadSteps
  <2>2. loads' = [loads EXCEPT ![l] = x]
    BY <1>t, <1>2 DEF ReadDisk, LoadsTyped, Load
  <2> HIDE DEF x
  <2>3. LoadsTyped'
    BY <1>t, <1>2, <2>1, <2>2, LoadGoesOn DEF ReadDisk
  <2> QED BY <1>t, <1>q, <1>2, <2>3 DEF ReadDisk
<1>3. ASSUME NEW l \in Loads, AskRevision(l) PROVE CacheTypeOK' /\ OwnIsChange'
  <2> DEFINE x == [loads[l] EXCEPT !.step = "match", !.stamp = revision]
  <2>1. x \in Load /\ x.step # "idle"
    BY <1>t, <1>f DEF Load, LoadSteps
  <2>2. loads' = [loads EXCEPT ![l] = x]
    BY <1>t, <1>3 DEF AskRevision, LoadsTyped, Load
  <2> HIDE DEF x
  <2>3. LoadsTyped'
    BY <1>t, <1>3, <2>1, <2>2, LoadGoesOn DEF AskRevision
  <2> QED BY <1>t, <1>q, <1>3, <2>3 DEF AskRevision
<1>4. ASSUME NEW l \in Loads, MatchRevision(l) PROVE CacheTypeOK' /\ OwnIsChange'
  <2>1. CASE Matches(memory, l) /\ AnswerWith(l, memory.has) /\ UNCHANGED memory
    <3>1. memory.has \in SUBSET Changed
      BY <1>t DEF Copy
    <3> QED BY <1>t, <1>q, <1>4, <2>1, <3>1, AnswerTyped DEF MatchRevision
  <2>2. CASE UseRecord(l, loads[l].cached)
    <3>1. loads[l].cached \in Copy
      BY <1>t DEF LoadsTyped, Load
    <3> QED BY <1>t, <1>q, <1>r, <1>4, <2>2, <3>1 DEF MatchRevision
  <2>3. CASE LoadTo(l, "again") /\ UNCHANGED <<memory, shown, pending, query>>
    <3> DEFINE x == [loads[l] EXCEPT !.step = "again"]
    <3>1. x \in Load /\ x.step # "idle"
      BY <1>t, <1>f DEF Load, LoadSteps
    <3>2. loads' = [loads EXCEPT ![l] = x]
      BY <1>t, <2>3 DEF LoadTo, LoadsTyped, Load
    <3> HIDE DEF x
    <3>3. LoadsTyped'
      BY <1>t, <2>3, <3>1, <3>2, LoadGoesOn
    <3> QED BY <1>t, <1>q, <1>4, <2>3, <3>3 DEF MatchRevision
  <2> QED BY <1>4, <2>1, <2>2, <2>3 DEF MatchRevision
<1>5. ASSUME NEW l \in Loads, ReadAgain(l) PROVE CacheTypeOK' /\ OwnIsChange'
  BY <1>t, <1>q, <1>r, <1>5 DEF ReadAgain
<1>6. ASSUME NEW l \in Loads, Sync(l) PROVE CacheTypeOK' /\ OwnIsChange'
  <2> DEFINE x == [loads[l] EXCEPT !.step = "arrive", !.got = UpTo(revision)]
  <2>1. x \in Load /\ x.step # "idle"
    BY <1>u, <1>f DEF Load, LoadSteps
  <2>2. loads' = [loads EXCEPT ![l] = x]
    BY <1>t, <1>6 DEF Sync, LoadsTyped, Load
  <2> HIDE DEF x
  <2>3. LoadsTyped'
    BY <1>t, <1>6, <2>1, <2>2, LoadGoesOn DEF Sync
  <2> QED BY <1>t, <1>q, <1>6, <2>3 DEF Sync
<1>7. ASSUME NEW l \in Loads, Arrive(l) PROVE CacheTypeOK' /\ OwnIsChange'
  <2>1. loads[l].got \in SUBSET Changed /\ StampOf(l) \in NoStamp..MaxRevision
    BY <1>t DEF LoadsTyped, Load, StampOf, NoStamp
  <2>2. memory' \in Copy
    BY <1>7, <2>1 DEF Arrive, Copy
  <2> QED BY <1>t, <1>q, <1>7, <2>1, <2>2, AnswerTyped DEF Arrive
<1>8. ASSUME NEW l \in Loads, FallBack(l) PROVE CacheTypeOK' /\ OwnIsChange'
  <2>1. memory.has \in SUBSET Changed /\ loads[l].cached.has \in SUBSET Changed
    BY <1>t DEF LoadsTyped, Load, Copy
  <2>2. LoadsTyped' /\ shown' \in Copy
    BY <1>t, <1>8, <2>1, AnswerTyped, LoadQuits DEF FallBack
  <2> QED BY <1>t, <1>q, <1>8, <2>2 DEF FallBack
<1>9. CASE InvalidateCopies
  <2>1. LoadsTyped'
    BY <1>t, <1>9 DEF InvalidateCopies, LoadsTyped, Loading
  <2> QED BY <1>t, <1>q, <1>9, <2>1, NothingCopied DEF InvalidateCopies
<1>s. \* A patch writes the copies.
      ASSUME NEW n \in NoStamp..MaxRevision, NEW has \in SUBSET Changed, Stamped(n, has)
      PROVE  memory' \in Copy /\ disk' \in Copy
  BY <1>t, <1>s DEF Stamped, Copy
<1>l. UNCHANGED <<loads, pending, query>> => LoadsTyped'
  BY <1>t DEF LoadsTyped, Loading
<1>10. ASSUME NEW k \in Changed, PatchItem(k) PROVE CacheTypeOK' /\ OwnIsChange'
  <2>1. shown' \in Copy /\ shown'.has \in SUBSET Changed /\ k \in NoStamp..MaxRevision
    BY <1>t, <1>10 DEF PatchItem, Copy, Changed, NoStamp
  <2>2. memory' \in Copy /\ disk' \in Copy
    BY <1>s, <1>10, <2>1 DEF PatchItem
  <2> QED BY <1>t, <1>l, <1>10, <2>1, <2>2
      DEF PatchItem, CacheTypeOK, LoadsTyped, OwnIsChange
<1>11. CASE OthersChange
  <2>1. revision' \in 0..MaxRevision /\ mail' \subseteq 1..revision'
    BY <1>t, <1>11 DEF OthersChange, UpTo
  <2> QED BY <1>t, <1>l, <1>11, <2>1
      DEF OthersChange, CacheTypeOK, LoadsTyped, OwnIsChange, clientVars, UpTo
<1>12. CASE MakeOwnChange
  <2>1. revision' \in 1..MaxRevision /\ mail' \subseteq 1..revision'
    BY <1>t, <1>12 DEF MakeOwnChange, UpTo
  <2>2. own' = [step |-> "made", change |-> revision', stamp |-> 0]
    BY <1>12 DEF MakeOwnChange, NotOwn
  <2> QED BY <1>t, <1>l, <1>12, <2>1, <2>2
      DEF MakeOwnChange, CacheTypeOK, LoadsTyped, OwnIsChange, UpTo, OwnSteps, Changed
<1>13. CASE PatchOwnChange
  <2>1. own.change \in Changed
    BY <1>13 DEF PatchOwnChange, OwnIsChange
  <2>2. shown' \in Copy /\ shown'.has \in SUBSET Changed /\ memory.stamp \in NoStamp..MaxRevision
    BY <1>t, <1>13, <2>1 DEF PatchOwnChange, Copy
  <2>3. own' = [step |-> "restamp", change |-> 0, stamp |-> 0]
    BY <1>13 DEF PatchOwnChange, NotOwn
  <2>4. save' \in [on: BOOLEAN, stamp: NoStamp..MaxRevision, has: SUBSET Changed]
    BY <1>13, <2>2 DEF PatchOwnChange
  <2>5. own' \in [step: OwnSteps, change: 0..MaxRevision, stamp: 0..MaxRevision] /\ own'.step # "made"
    BY <1>t, <2>3 DEF OwnSteps
  <2> QED BY <1>t, <1>l, <1>13, <2>2, <2>4, <2>5
      DEF PatchOwnChange, CacheTypeOK, LoadsTyped, OwnIsChange
<1>14. CASE SavePatch
  <2>1. /\ save.stamp \in NoStamp..MaxRevision /\ disk.stamp \in NoStamp..MaxRevision
        /\ Unmatched \in NoStamp..MaxRevision /\ save.has \in SUBSET Changed
    BY <1>t DEF Copy, Unmatched, NoStamp
  <2>2. memory' \in Copy /\ disk' \in Copy
    BY <1>s, <1>14, <2>1 DEF SavePatch
  <2>3. save' \in [on: BOOLEAN, stamp: NoStamp..MaxRevision, has: SUBSET Changed]
    BY <1>t, <1>14 DEF SavePatch, NoSave, NoStamp
  <2> QED BY <1>t, <1>l, <1>14, <2>2, <2>3
      DEF SavePatch, CacheTypeOK, LoadsTyped, OwnIsChange
<1>15. CASE AskRestamp
  BY <1>t, <1>l, <1>15 DEF AskRestamp, CacheTypeOK, LoadsTyped, OwnIsChange, OwnSteps
<1>16. CASE Restamp
  <2>1. own.stamp \in NoStamp..MaxRevision /\ shown.has \in SUBSET Changed
    BY <1>t DEF NoStamp, Copy
  <2>2. memory' \in Copy /\ disk' \in Copy
    BY <1>s, <1>16, <2>1 DEF Restamp
  <2> QED BY <1>t, <1>l, <1>16, <2>2
      DEF Restamp, CacheTypeOK, LoadsTyped, OwnIsChange, NotOwn, OwnSteps
<1>17. CASE LoseOwn
  BY <1>t, <1>l, <1>17 DEF LoseOwn, CacheTypeOK, LoadsTyped, OwnIsChange, NotOwn, OwnSteps
<1>18. CASE Reopen
  <2>1. loads' \in [Loads -> Load] /\ pending' = NoLoad /\ query' = NoLoad
    BY <1>18, NothingCopied DEF Reopen
  <2>2. shown' \in Copy /\ memory' \in Copy
    BY <1>t, <1>18, NothingCopied DEF Reopen, Copy, Unmatched, NoStamp
  <2> QED BY <1>t, <1>18, <2>1, <2>2
      DEF Reopen, CacheTypeOK, OwnIsChange, NotOwn, OwnSteps, NoSave, NoStamp
<1>19. CASE UNCHANGED cacheVars
  BY <1>t, <1>q, <1>l, <1>19 DEF cacheVars, clientVars
<1> QED
  BY <1>1, <1>2, <1>3, <1>4, <1>5, <1>6, <1>7, <1>8, <1>9, <1>10, <1>11, <1>12, <1>13,
     <1>14, <1>15, <1>16, <1>17, <1>18, <1>19
  DEF CacheNext

\* A load that goes on keeps what is complete of the others.
LEMMA LoadCompleted ==
  ASSUME CacheTypeOK, Complete, NEW l \in Loads, NEW x \in Load,
         loads' = [loads EXCEPT ![l] = x], revision' = revision,
         CompleteCopy(memory'), CompleteCopy(disk'),
         CompleteCopy(x.cached), x.began <= revision,
         x.step \in {"match", "again", "sync", "arrive"} =>
           x.began <= x.stamp /\ x.stamp <= revision,
         x.step = "arrive" => UpTo(x.stamp) \subseteq x.got
  PROVE  Complete'
<1>1. loads'[l] = x /\ \A m \in Loads : m # l => loads'[m] = loads[m]
  BY DEF CacheTypeOK
<1>2. ASSUME NEW m \in Loads PROVE CompleteLoad(m)'
  <2>1. CASE m = l
    BY <1>1, <2>1 DEF CompleteLoad, CompleteCopy
  <2>2. CASE m # l
    BY <1>1, <2>2 DEF Complete, CompleteLoad, CompleteCopy
  <2> QED BY <2>1, <2>2
<1> QED BY <1>2 DEF Complete, CompleteCopy

\* An idle load is complete, so a load may end.
LEMMA LoadEnded ==
  ASSUME CacheTypeOK, Complete, NEW l \in Loads, Quit(l), revision' = revision,
         CompleteCopy(memory'), CompleteCopy(disk')
  PROVE  Complete'
<1>1. /\ NoneLoading.step = "idle" /\ NoneLoading.began <= revision
      /\ NoneLoading.cached = NoCopy
  BY DEF NoneLoading, CacheTypeOK
<1>2. loads' = [loads EXCEPT ![l] = NoneLoading]
  BY DEF Quit
<1> QED BY <1>1, <1>2, NothingCopied, LoadCompleted

LEMMA CompleteStep == CacheInv /\ [CacheNext]_cacheVars => (~covered' => Complete')
<1> SUFFICES ASSUME CacheInv, [CacheNext]_cacheVars, ~covered' PROVE Complete'
  OBVIOUS
<1>0. ~covered
  BY DEF CacheNext, StartLoad, ReadDisk, AskRevision, MatchRevision, ReadAgain, Sync, Arrive, FallBack,
         cacheVars
<1>t. /\ CacheTypeOK /\ Complete /\ CompleteCopy(memory) /\ CompleteCopy(disk)
      /\ revision \in Nat /\ \A l \in Loads : loads[l] \in Load /\ CompleteLoad(l)
  BY <1>0, VaultCacheAssumption DEF CacheInv, CacheTypeOK, Complete
<1>r. ASSUME NEW l \in Loads, NEW copy \in Copy, CompleteCopy(copy), UseRecord(l, copy),
             loads[l].step \in {"match", "again"}, disk' = disk, revision' = revision
      PROVE  Complete'
  <2>1. CASE Matches(copy, l)
    <3>1. Quit(l) /\ memory' = copy
      BY <1>r, <2>1 DEF UseRecord, AnswerWith
    <3> QED BY <1>t, <1>r, <3>1, LoadEnded
  <2>2. CASE ~Matches(copy, l)
    <3> DEFINE x == [loads[l] EXCEPT !.step = "sync", !.cached = copy]
    <3>1. x \in Load
      BY <1>t DEF Load, LoadSteps
    <3>2. loads' = [loads EXCEPT ![l] = x] /\ memory' = memory
      BY <1>t, <1>r, <2>2 DEF UseRecord, Load
    <3>3. x.cached = copy /\ x.step = "sync" /\ x.began = loads[l].began /\ x.stamp = loads[l].stamp
      BY <1>t DEF Load
    <3>4. x.began <= revision /\ x.began <= x.stamp /\ x.stamp <= revision
      BY <1>t, <1>r, <3>3 DEF CompleteLoad
    <3> HIDE DEF x
    <3> QED BY <1>t, <1>r, <3>1, <3>2, <3>3, <3>4, LoadCompleted
  <2> QED BY <2>1, <2>2
<1>1. ASSUME NEW l \in Loads, StartLoad(l) PROVE Complete'
  <2> DEFINE x == [NoneLoading EXCEPT !.step = "disk", !.bare = memory = NoCopy, !.began = revision]
  <2>1. x \in Load
    BY <1>t, NothingCopied DEF Load, LoadSteps, NoneLoading, CacheTypeOK
  <2>2. loads' = [loads EXCEPT ![l] = x] /\ UNCHANGED <<revision, memory, disk>>
    BY <1>1 DEF StartLoad
  <2>3. x.cached = NoCopy /\ x.step = "disk" /\ x.began = revision
    BY DEF NoneLoading
  <2> HIDE DEF x
  <2>4. CompleteCopy(x.cached) /\ x.began <= revision
    BY <1>t, <2>3, NothingCopied
  <2> QED BY <1>t, <2>1, <2>2, <2>3, <2>4, LoadCompleted
<1>2. ASSUME NEW l \in Loads, ReadDisk(l) PROVE Complete'
  <2> DEFINE x == [loads[l] EXCEPT !.step = "revision", !.bare = FALSE, !.cached = disk]
  <2>1. x \in Load
    BY <1>t DEF Load, LoadSteps, CacheTypeOK
  <2>2. loads' = [loads EXCEPT ![l] = x] /\ UNCHANGED <<revision, disk>> /\ memory' \in {disk, memory}
    BY <1>t, <1>2 DEF ReadDisk, Load
  <2>3. x.cached = disk /\ x.step = "revision" /\ x.began <= revision
    BY <1>t DEF Load, CompleteLoad
  <2> HIDE DEF x
  <2> QED BY <1>t, <2>1, <2>2, <2>3, LoadCompleted
<1>3. ASSUME NEW l \in Loads, AskRevision(l) PROVE Complete'
  <2> DEFINE x == [loads[l] EXCEPT !.step = "match", !.stamp = revision]
  <2>1. x \in Load
    BY <1>t DEF Load, LoadSteps, CacheTypeOK
  <2>2. loads' = [loads EXCEPT ![l] = x] /\ UNCHANGED <<revision, memory, disk>>
    BY <1>t, <1>3 DEF AskRevision, Load
  <2>3. /\ x.cached = loads[l].cached /\ x.step = "match"
        /\ x.began <= revision /\ x.stamp = revision
    BY <1>t DEF Load, CompleteLoad
  <2> HIDE DEF x
  <2>4. CompleteCopy(x.cached) /\ x.began <= x.stamp /\ x.stamp <= revision
    BY <1>t, <2>3 DEF CompleteLoad
  <2> QED BY <1>t, <2>1, <2>2, <2>3, <2>4, LoadCompleted
<1>4. ASSUME NEW l \in Loads, MatchRevision(l) PROVE Complete'
  <2>1. CASE Matches(memory, l) /\ AnswerWith(l, memory.has) /\ UNCHANGED memory
    BY <1>t, <1>4, <2>1, LoadEnded DEF MatchRevision, AnswerWith
  <2>2. CASE UseRecord(l, loads[l].cached)
    <3>1. loads[l].cached \in Copy /\ CompleteCopy(loads[l].cached)
      BY <1>t DEF Load, CompleteLoad
    <3> QED BY <1>r, <1>4, <2>2, <3>1 DEF MatchRevision, Loading
  <2>3. CASE LoadTo(l, "again") /\ UNCHANGED <<memory, shown, pending, query>>
    <3> DEFINE x == [loads[l] EXCEPT !.step = "again"]
    <3>1. x \in Load
      BY <1>t DEF Load, LoadSteps
    <3>2. loads' = [loads EXCEPT ![l] = x] /\ UNCHANGED <<revision, memory, disk>>
      BY <1>t, <1>4, <2>3 DEF LoadTo, MatchRevision, Load
    <3>3. x.cached = loads[l].cached /\ x.step = "again" /\ x.began = loads[l].began /\ x.stamp = loads[l].stamp
      BY <1>t DEF Load
    <3>4. /\ CompleteCopy(x.cached)
          /\ x.began <= revision /\ x.began <= x.stamp /\ x.stamp <= revision
      BY <1>t, <1>4, <3>3 DEF CompleteLoad, MatchRevision, Loading
    <3> HIDE DEF x
    <3> QED BY <1>t, <3>1, <3>2, <3>3, <3>4, LoadCompleted
  <2> QED BY <1>4, <2>1, <2>2, <2>3 DEF MatchRevision
<1>5. ASSUME NEW l \in Loads, ReadAgain(l) PROVE Complete'
  BY <1>t, <1>r, <1>5 DEF ReadAgain, Loading, CacheTypeOK
<1>6. ASSUME NEW l \in Loads, Sync(l) PROVE Complete'
  <2> DEFINE x == [loads[l] EXCEPT !.step = "arrive", !.got = UpTo(revision)]
  <2>0. UpTo(revision) \in SUBSET Changed
    BY VaultCacheAssumption, <1>t DEF CacheTypeOK, UpTo, Changed
  <2>1. x \in Load
    BY <1>t, <2>0 DEF Load, LoadSteps
  <2>2. loads' = [loads EXCEPT ![l] = x] /\ UNCHANGED <<revision, memory, disk>>
    BY <1>t, <1>6 DEF Sync, Load
  <2>3. /\ x.cached = loads[l].cached /\ x.began = loads[l].began /\ x.stamp = loads[l].stamp
        /\ x.got = 1..revision
    BY <1>t DEF Load, UpTo
  <2>4. /\ CompleteCopy(x.cached)
        /\ x.began <= revision /\ x.began <= x.stamp /\ x.stamp <= revision
    BY <1>t, <1>6, <2>3 DEF CompleteLoad, Sync, Loading
  <2>5. UpTo(x.stamp) \subseteq x.got
    BY <1>t, <2>1, <2>3, <2>4 DEF UpTo, Load
  <2> HIDE DEF x
  <2> QED BY <1>t, <2>1, <2>2, <2>4, <2>5, LoadCompleted
<1>7. ASSUME NEW l \in Loads, Arrive(l) PROVE Complete'
  <2>1. Quit(l) /\ revision' = revision /\ disk' \in {disk, memory'}
    BY <1>7 DEF Arrive, AnswerWith
  <2>2. CompleteCopy(memory')
    BY <1>t, <1>7 DEF Arrive, CompleteLoad, CompleteCopy, StampOf, Loading
  <2> QED BY <1>t, <2>1, <2>2, LoadEnded
<1>8. ASSUME NEW l \in Loads, FallBack(l) PROVE Complete'
  <2>1. Quit(l) /\ UNCHANGED <<revision, memory, disk>>
    BY <1>8 DEF FallBack, AnswerWith
  <2> QED BY <1>t, <2>1, LoadEnded
<1>s. ASSUME loads' = loads, revision' >= revision, revision' \in Nat,
             CompleteCopy(memory'), CompleteCopy(disk')
      PROVE  Complete'
  <2>1. ASSUME NEW l \in Loads PROVE CompleteLoad(l)'
    <3>1. loads[l].began \in Nat /\ loads[l].stamp \in Nat
      BY <1>t DEF Load
    <3>2. CompleteLoad(l)
      BY <1>t
    <3> QED BY <1>t, <1>s, <3>1, <3>2 DEF CompleteLoad, CompleteCopy
  <2> QED BY <1>s, <2>1 DEF Complete, CompleteCopy
<1>p. ASSUME NEW n, NEW has, Stamped(n, has) PROVE CompleteCopy(memory') /\ CompleteCopy(disk')
  <2>1. UpTo(n) \subseteq has
    BY <1>p, Zenon DEF Stamped
  <2>2. CompleteCopy(memory') /\ disk' \in {disk, memory'}
    BY <1>p, <2>1 DEF Stamped, CompleteCopy
  <2> QED BY <1>t, <2>2
<1>9. CASE \/ \E k \in Changed : PatchItem(k)
           \/ SavePatch \/ Restamp
  BY <1>t, <1>s, <1>p, <1>9 DEF PatchItem, SavePatch, Restamp
<1>10. CASE OthersChange \/ MakeOwnChange
  <2>1. revision' = revision + 1 /\ UNCHANGED <<loads, memory, disk>>
    BY <1>10 DEF OthersChange, MakeOwnChange, clientVars
  <2> QED BY <1>t, <1>s, <2>1
<1>11. CASE PatchOwnChange \/ AskRestamp \/ LoseOwn \/ UNCHANGED cacheVars
  BY <1>t, <1>s, <1>11 DEF PatchOwnChange, AskRestamp, LoseOwn, cacheVars, clientVars
<1>12. CASE InvalidateCopies
  BY <1>t, <1>s, <1>12, NothingCopied DEF InvalidateCopies
<1>13. CASE Reopen
  <2>1. /\ loads' = [l \in Loads |-> NoneLoading]
        /\ revision' = revision /\ memory' = NoCopy /\ disk' = disk
    BY <1>13 DEF Reopen
  <2>2. ASSUME NEW l \in Loads PROVE CompleteLoad(l)'
    <3>1. /\ loads'[l] = NoneLoading /\ NoneLoading.step = "idle" /\ NoneLoading.began = 0
          /\ NoneLoading.cached = NoCopy
      BY <2>1 DEF NoneLoading
    <3> QED BY <1>t, <2>1, <3>1, NothingCopied DEF CompleteLoad, CompleteCopy
  <2> QED BY <1>t, <2>1, <2>2, NothingCopied DEF Complete, CompleteCopy
<1> QED
  BY <1>1, <1>2, <1>3, <1>4, <1>5, <1>6, <1>7, <1>8, <1>9, <1>10, <1>11, <1>12, <1>13
  DEF CacheNext

LEMMA CacheStepInv == CacheInv /\ [CacheNext]_cacheVars => CacheInv'
BY CacheTypeStep, CompleteStep DEF CacheInv

\* Copies, loads and patches of the web vault keep their types, however many
\* loads run and however many changes there are.
THEOREM VaultCacheTyped == CacheSpec => []CacheTypeOK
<1>1. CacheInv => CacheTypeOK
  BY DEF CacheInv
<1> QED BY <1>1, CacheInitInv, CacheStepInv, PTL DEF CacheSpec

\* A copy with the current stamp lacks nothing, until a patch has put a stamp
\* on data that lacks a change.
THEOREM FreshCopiesAreComplete == CacheSpec => []FreshIsComplete
<1>1. CacheInv => FreshIsComplete
  BY DEF CacheInv, FreshIsComplete, Complete, CompleteCopy
<1> QED BY <1>1, CacheInitInv, CacheStepInv, PTL DEF CacheSpec

\* A load that does not fall back answers with all that preceded it.
THEOREM LoadsAreCurrent == CacheSpec => LoadsCatchUp
<1>1. ASSUME CacheInv, ~covered, NEW l \in Loads,
             MatchRevision(l) \/ ReadAgain(l) \/ Arrive(l), query = l, query' = NoLoad
      PROVE  UpTo(loads[l].began) \subseteq shown'.has
  <2>t. /\ Complete /\ CompleteLoad(l) /\ loads[l] \in Load /\ l # NoLoad
        /\ memory \in Copy /\ disk \in Copy /\ loads[l].cached \in Copy
    BY <1>1, VaultCacheAssumption DEF CacheInv, CacheTypeOK, Complete, Load
  <2>1. /\ loads[l].began <= loads[l].stamp
        /\ loads[l].began \in Nat /\ loads[l].stamp \in Nat
    BY <1>1, <2>t DEF CompleteLoad, MatchRevision, ReadAgain, Arrive, Loading, Load
  <2>2. UpTo(loads[l].began) \subseteq UpTo(loads[l].stamp)
    BY <2>1 DEF UpTo
  <2>3. ASSUME NEW has, AnswerWith(l, has) PROVE shown'.has = has
    BY <1>1, <2>3 DEF AnswerWith
  <2>4. ASSUME NEW copy \in Copy, CompleteCopy(copy), UseRecord(l, copy)
        PROVE  UpTo(loads[l].stamp) \subseteq shown'.has
    <3>1. Matches(copy, l) /\ AnswerWith(l, copy.has)
      BY <1>1, <2>t, <2>4 DEF UseRecord
    <3> QED BY <2>3, <2>4, <3>1 DEF Matches, CompleteCopy
  <2>5. CASE MatchRevision(l)
    <3>1. CASE Matches(memory, l) /\ AnswerWith(l, memory.has)
      BY <2>t, <2>2, <2>3, <3>1 DEF Matches, CompleteCopy, Complete
    <3>2. CASE UseRecord(l, loads[l].cached)
      BY <2>t, <2>2, <2>4, <3>2 DEF CompleteLoad
    <3>3. CASE UNCHANGED query
      BY <1>1, <2>t, <3>3
    <3> QED BY <2>5, <3>1, <3>2, <3>3 DEF MatchRevision
  <2>6. CASE ReadAgain(l)
    BY <2>t, <2>2, <2>4, <2>6 DEF ReadAgain, Complete
  <2>7. CASE Arrive(l)
    <3>1. AnswerWith(l, loads[l].got) /\ UpTo(loads[l].stamp) \subseteq loads[l].got
      BY <2>t, <2>7 DEF Arrive, CompleteLoad, Loading
    <3> QED BY <2>2, <2>3, <3>1
  <2> QED BY <1>1, <2>5, <2>6, <2>7
<1>2. CacheInv /\ [CacheNext]_cacheVars =>
        [~covered => \A l \in Loads :
           (MatchRevision(l) \/ ReadAgain(l) \/ Arrive(l)) /\ query = l /\ query' = NoLoad =>
             UpTo(loads[l].began) \subseteq shown'.has]_cacheVars
  BY <1>1
<1> QED BY <1>2, CacheInitInv, CacheStepInv, PTL DEF CacheSpec, LoadsCatchUp
=============================================================================
