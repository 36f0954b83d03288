----------------------------- MODULE VaultCache -----------------------------
(***************************************************************************)
(* The web vault's copy of the vault: a snapshot in memory and one in      *)
(* IndexedDB, each with the revision date of the account it was made at,   *)
(* and the query data that is shown.  A load asks for the revision first   *)
(* and takes a copy with the same stamp instead of a sync; own changes and *)
(* notifications patch the data and stamp it again.                        *)
(*                                                                         *)
(* The n-th change of the vault makes revision n, and a snapshot is the    *)
(* set of changes it shows: the order of statements in the server, and its *)
(* revision dates, are in Vault.tla.  One tab; an action is one task of    *)
(* the browser, from one awaited answer to the next.                       *)
(***************************************************************************)
EXTENDS Integers

CONSTANTS
  Loads, NoLoad,  \* slots for loadVaultCoreSyncSnapshot
  MaxRevision     \* bound on the changes

ASSUME VaultCacheAssumption == NoLoad \notin Loads /\ MaxRevision \in Nat \ {0}

VARIABLES
  revision,  \* of the account: the changes made
  mail,      \* the changes whose notifications have not been handled, or never are
  memory,    \* memoryVaultCoreCache
  disk,      \* the record in IndexedDB
  shown,     \* the query data
  loads,     \* the loads in flight
  pending,   \* pendingVaultCoreRequests: the load that others join
  query,     \* the load whose answer becomes the query data
  own,       \* the change the user is making here
  save,      \* a patch that waits for the stamp of the record
  covered    \* history: a stamp was put on data that lacks a change before it

clientVars == <<memory, disk, shown, loads, pending, query, own, save>>
cacheVars  == <<revision, mail, clientVars, covered>>

Changed == 1..MaxRevision
UpTo(n) == 1..n

\* NoStamp: no record; Unmatched: the local clock was taken for a stamp.
NoStamp   == -2
Unmatched == -1
Copy      == [stamp: NoStamp..MaxRevision, has: SUBSET Changed]
NoCopy    == [stamp |-> NoStamp, has |-> {}]

\* began (history): the revision when the load began.
LoadSteps == {"idle", "disk", "revision", "match", "again", "sync", "arrive"}
Load   == [step: LoadSteps, bare: BOOLEAN, cached: Copy, stamp: 0..MaxRevision,
           got: SUBSET Changed, began: 0..MaxRevision]
NoneLoading == [step |-> "idle", bare |-> FALSE, cached |-> NoCopy, stamp |-> 0,
                got |-> {}, began |-> 0]

\* own.change is made in the server; save.stamp is what memory had.
OwnSteps == {"idle", "made", "restamp", "restamped"}
NotOwn   == [step |-> "idle", change |-> 0, stamp |-> 0]
NoSave   == [on |-> FALSE, stamp |-> NoStamp, has |-> {}]

Loading(l, s) == loads[l].step = s
LoadTo(l, s)  == loads' = [loads EXCEPT ![l].step = s]

-----------------------------------------------------------------------------
\* A tab is opened after a change, with an older record or none.
CacheInit ==
  /\ revision = 1
  /\ mail = {}
  /\ memory = NoCopy /\ shown = NoCopy
  /\ disk \in {NoCopy, [stamp |-> 0, has |-> {}]}
  /\ loads = [l \in Loads |-> NoneLoading]
  /\ pending = NoLoad /\ query = NoLoad
  /\ own = NotOwn /\ save = NoSave
  /\ covered = FALSE

\* Another client changes the vault.
OthersChange == /\ revision < MaxRevision /\ revision' = revision + 1
                /\ mail' = mail \cup {revision'}
                /\ UNCHANGED <<clientVars, covered>>

(* loadVaultCoreSyncSnapshot.                                              *)

StartLoad(l) ==
  /\ pending = NoLoad /\ Loading(l, "idle")
  /\ loads' = [loads EXCEPT ![l] = [NoneLoading EXCEPT !.step = "disk",
                 !.bare = memory = NoCopy, !.began = revision]]
  /\ pending' = l /\ query' = l
  /\ UNCHANGED <<revision, mail, memory, disk, shown, own, save, covered>>

ReadDisk(l) ==
  /\ Loading(l, "disk")
  /\ memory' = IF loads[l].bare /\ disk # NoCopy THEN disk ELSE memory
  /\ loads' = [loads EXCEPT ![l].step = "revision", ![l].bare = FALSE, ![l].cached = disk]
  /\ UNCHANGED <<revision, mail, disk, shown, pending, query, own, save, covered>>

\* Mutant of StampOf: the revision is asked for after the sync.
StampAfter(l) == revision

StampOf(l) == loads[l].stamp

AskRevision(l) ==
  /\ Loading(l, "revision")
  /\ loads' = [loads EXCEPT ![l].step = "match", ![l].stamp = revision]
  /\ UNCHANGED <<revision, mail, memory, disk, shown, pending, query, own, save, covered>>

Settled(l) == IF pending = l THEN NoLoad ELSE pending

Quit(l) == /\ loads' = [loads EXCEPT ![l] = NoneLoading]
           /\ pending' = Settled(l)
           /\ query' = IF query = l THEN NoLoad ELSE query

\* The answer: only the query that still waits for it shows it.
AnswerWith(l, has) ==
  Quit(l) /\ shown' = IF query = l THEN [stamp |-> Unmatched, has |-> has] ELSE shown

\* Mutant of Matches: any copy will do.
MatchesAny(copy, l) == copy # NoCopy

Matches(copy, l) == copy.stamp = loads[l].stamp

\* The record answers, or the server is asked.
UseRecord(l, copy) ==
  IF Matches(copy, l)
    THEN memory' = copy /\ AnswerWith(l, copy.has)
    ELSE /\ loads' = [loads EXCEPT ![l].step = "sync", ![l].cached = copy]
         /\ UNCHANGED <<memory, shown, pending, query>>

\* The copy in memory, then the record; one that was absent is read again.
MatchRevision(l) ==
  /\ Loading(l, "match")
  /\ \/ Matches(memory, l) /\ AnswerWith(l, memory.has) /\ UNCHANGED memory
     \/ ~Matches(memory, l) /\ loads[l].cached # NoCopy /\ UseRecord(l, loads[l].cached)
     \/ /\ ~Matches(memory, l) /\ loads[l].cached = NoCopy
        /\ LoadTo(l, "again")
        /\ UNCHANGED <<memory, shown, pending, query>>
  /\ UNCHANGED <<revision, mail, disk, own, save, covered>>

ReadAgain(l) == /\ Loading(l, "again")
                /\ UseRecord(l, disk)
                /\ UNCHANGED <<revision, mail, disk, own, save, covered>>

Sync(l) ==
  /\ Loading(l, "sync")
  /\ loads' = [loads EXCEPT ![l].step = "arrive", ![l].got = UpTo(revision)]
  /\ UNCHANGED <<revision, mail, memory, disk, shown, pending, query, own, save, covered>>

\* The record may fail to be written, which nobody hears of.
Arrive(l) ==
  /\ Loading(l, "arrive")
  /\ memory' = [stamp |-> StampOf(l), has |-> loads[l].got]
  /\ disk' \in {disk, memory'}
  /\ AnswerWith(l, loads[l].got)
  /\ UNCHANGED <<revision, mail, own, save, covered>>

\* Offline: what there is, or an error.
FallBack(l) ==
  /\ loads[l].step \in {"revision", "match", "sync", "arrive"}
  /\ IF memory # NoCopy THEN AnswerWith(l, memory.has)
     ELSE IF loads[l].cached # NoCopy THEN AnswerWith(l, loads[l].cached.has)
     ELSE Quit(l) /\ UNCHANGED shown
  /\ UNCHANGED <<revision, mail, memory, disk, own, save, covered>>

\* invalidateVaultCoreSyncSnapshot, after a repair of items; a load that is
\* in flight goes on.
InvalidateCopies ==
  /\ shown # NoCopy
  /\ pending' = NoLoad
  /\ memory' = NoCopy /\ disk' = NoCopy
  /\ UNCHANGED <<revision, mail, shown, loads, query, own, save, covered>>

-----------------------------------------------------------------------------
(* patchVaultCoreSnapshot and saveVaultCoreSyncSnapshot.                   *)

\* Memory and record are written with a stamp.
Stamped(stamp, has) ==
  /\ memory' = [stamp |-> stamp, has |-> has]
  /\ disk' \in {disk, memory'}
  /\ covered' = (covered \/ ~(UpTo(stamp) \subseteq has))

\* A notification of one item: it is fetched or deleted, and the revision of
\* the notification becomes the stamp.
PatchItem(k) ==
  /\ k \in mail /\ mail' = mail \ {k}
  /\ shown # NoCopy
  /\ shown' = [shown EXCEPT !.has = @ \cup {k}]
  /\ Stamped(k, shown'.has)
  /\ UNCHANGED <<revision, loads, pending, query, own, save>>

\* The user saves an item; the server makes the change,
MakeOwnChange ==
  /\ own.step = "idle" /\ shown # NoCopy
  /\ revision < MaxRevision /\ revision' = revision + 1
  /\ own' = [NotOwn EXCEPT !.step = "made", !.change = revision']
  /\ UNCHANGED <<mail, memory, disk, shown, loads, pending, query, save, covered>>

\* ... the answer patches the data, without a stamp: that of memory will do,
PatchOwnChange ==
  /\ own.step = "made" /\ ~save.on
  /\ shown' = [shown EXCEPT !.has = @ \cup {own.change}]
  /\ save' = [on |-> TRUE, stamp |-> memory.stamp, has |-> shown'.has]
  /\ own' = [NotOwn EXCEPT !.step = "restamp"]
  /\ UNCHANGED <<revision, mail, memory, disk, loads, pending, query, covered>>

\* ... that of the record, or the local clock,
SavePatch ==
  /\ save.on
  /\ Stamped(IF save.stamp # NoStamp THEN save.stamp
             ELSE IF disk.stamp # NoStamp THEN disk.stamp ELSE Unmatched, save.has)
  /\ save' = NoSave
  /\ UNCHANGED <<revision, mail, shown, loads, pending, query, own>>

\* ... and refreshVaultCoreRevisionStamp asks for the revision,
AskRestamp == /\ own.step = "restamp"
              /\ own' = [own EXCEPT !.step = "restamped", !.stamp = revision]
              /\ UNCHANGED <<revision, mail, memory, disk, shown, loads, pending, query, save, covered>>

\* ... and puts it on what is shown by then.
Restamp == /\ own.step = "restamped"
           /\ Stamped(own.stamp, shown.has)
           /\ own' = NotOwn
           /\ UNCHANGED <<revision, mail, shown, loads, pending, query, save>>

\* The request or its answer is lost.
LoseOwn == /\ own.step # "idle"
           /\ own' = NotOwn
           /\ UNCHANGED <<revision, mail, memory, disk, shown, loads, pending, query, save, covered>>

\* The tab is closed, and opened again with the record.
Reopen == /\ memory' = NoCopy
          /\ shown' = IF disk = NoCopy THEN NoCopy ELSE [disk EXCEPT !.stamp = Unmatched]
          /\ loads' = [l \in Loads |-> NoneLoading]
          /\ pending' = NoLoad /\ query' = NoLoad /\ own' = NotOwn /\ save' = NoSave
          /\ UNCHANGED <<revision, mail, disk, covered>>

\* Nothing is claimed of what follows a covering stamp: the run ends with it.
CacheNext == ~covered /\
  \/ \E l \in Loads :
       \/ StartLoad(l) \/ ReadDisk(l) \/ AskRevision(l) \/ MatchRevision(l) \/ ReadAgain(l)
       \/ Sync(l) \/ Arrive(l) \/ FallBack(l)
  \/ \E k \in Changed : PatchItem(k)
  \/ OthersChange \/ InvalidateCopies \/ MakeOwnChange \/ PatchOwnChange \/ SavePatch
  \/ AskRestamp \/ Restamp \/ LoseOwn \/ Reopen

CacheSpec == CacheInit /\ [][CacheNext]_cacheVars

-----------------------------------------------------------------------------
\* Copies, loads and patches have their types; a load that another caller
\* would join, or that the query waits for, is in flight.
CacheTypeOK == /\ revision \in 0..MaxRevision
               /\ mail \subseteq UpTo(revision)
               /\ {memory, disk, shown} \subseteq Copy
               /\ loads \in [Loads -> Load]
               /\ \A l \in {pending, query} \ {NoLoad} : l \in Loads /\ ~Loading(l, "idle")
               /\ own \in [step: OwnSteps, change: 0..MaxRevision, stamp: 0..MaxRevision]
               /\ save \in [on: BOOLEAN, stamp: NoStamp..MaxRevision, has: SUBSET Changed]

\* A copy with the stamp of the account's revision lacks nothing, so a load
\* may answer with it: whatever loads, invalidations and closed tabs do to the
\* two copies, only a patch that puts a stamp on data that lacks another
\* client's change makes one that lacks it.
FreshIsComplete == ~covered =>
  \A copy \in {memory, disk} : copy.stamp = revision => UpTo(revision) \subseteq copy.has

\* A load that does not fall back answers with every change made before it
\* began, from the copy in memory, from the record or from the server.
LoadsCatchUp ==
  [][ ~covered => \A l \in Loads :
        (MatchRevision(l) \/ ReadAgain(l) \/ Arrive(l)) /\ query = l /\ query' = NoLoad =>
          UpTo(loads[l].began) \subseteq shown'.has ]_cacheVars
=============================================================================
