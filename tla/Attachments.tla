---------------------------- MODULE Attachments ----------------------------
(***************************************************************************)
(* The attachments of one cipher: the rows of "attachments", the objects   *)
(* with the file contents, and the row of the cipher itself, which every   *)
(* change of an attachment reads and saves for its new date.  One action   *)
(* per statement and per call of the object store.                         *)
(*                                                                         *)
(* An upload whose size differs from the announced one is refused before   *)
(* anything is stored (parseDirectUploadPayload), so the branch that saves *)
(* another size is never taken and sizes are left out.                     *)
(***************************************************************************)
EXTENDS Integers, FiniteSets

CONSTANTS
  Files,    \* attachment ids, each drawn once
  NoFile,
  Changes,  \* slots for requests on one attachment
  Purges    \* slots for permanent deletions of the cipher

ASSUME AttachmentsAssumption ==
  NoFile \notin Files /\ Changes \cap Purges = {} /\ IsFiniteSet(Changes)

VARIABLES
  cipher,      \* whether the row of the cipher exists
  attachments, \* of each id "new", "row" or "gone"
  objects,     \* the ids with an object
  changes,     \* the requests in flight
  lateFiles,   \* history: objects stored during or after a deletion
  stores       \* history: how often each object was stored since it was deleted

attachmentVars == <<cipher, attachments, objects, changes, lateFiles, stores>>

ChangeSteps == {"idle", "insert", "head", "put", "save", "unstore", "unlist",
                "touch", "retouch", "list", "objects", "rows", "cipher"}

\* listed: what a permanent deletion has read; left: the objects to go.
Change   == [step: ChangeSteps, file: Files \cup {NoFile},
             listed: SUBSET Files, left: SUBSET Files]
NoChange == [step |-> "idle", file |-> NoFile, listed |-> {}, left |-> {}]

Doing(r, s) == changes[r].step = s
Do(r, s)    == changes' = [changes EXCEPT ![r].step = s]
Leaves(r)   == changes' = [changes EXCEPT ![r] = NoChange]
Take(r, s, f) == /\ Doing(r, "idle")
                 /\ changes' = [changes EXCEPT ![r] = [NoChange EXCEPT !.step = s, !.file = f]]

Listed(f)   == attachments[f] = "row"
Deleting(f) == \/ \E p \in Purges : ~Doing(p, "idle")
               \/ \E r \in Changes : changes[r].step \in {"unstore", "unlist"} /\ changes[r].file = f

-----------------------------------------------------------------------------
AttachmentInit == /\ cipher = TRUE
                  /\ attachments = [f \in Files |-> "new"]
                  /\ objects = {}
                  /\ changes = [r \in Changes \cup Purges |-> NoChange]
                  /\ lateFiles = {}
                  /\ stores = [f \in Files |-> 0]

(* The requests on one attachment.                                         *)

\* handleCreateAttachment, for a cipher that exists;
Create(r, f) == /\ cipher /\ attachments[f] = "new"
                /\ \A q \in Changes : changes[q].file # f
                /\ Take(r, "insert", f)
                /\ UNCHANGED <<cipher, attachments, objects, lateFiles, stores>>

\* handleUploadAttachment, handlePublicUploadAttachment,
\* handleUpdateAttachmentMetadata, handleDeleteAttachment, for a row as well.
Begin(r, s, f) == /\ cipher /\ Listed(f)
                  /\ Take(r, s, f)
                  /\ UNCHANGED <<cipher, attachments, objects, lateFiles, stores>>

\* saveAttachment: an upsert, whose foreign key needs the cipher.
SaveRow(r, s) ==
  /\ Doing(r, s)
  /\ IF cipher THEN /\ attachments' = [attachments EXCEPT ![changes[r].file] = "row"]
                    /\ Do(r, "touch")
               ELSE Leaves(r) /\ UNCHANGED attachments
  /\ UNCHANGED <<cipher, objects, lateFiles, stores>>

InsertRow(r) == SaveRow(r, "insert")

SaveMetadata(r) == SaveRow(r, "save")

\* Mutant of Stored: an object that is there is uploaded over.
NeverStored(f) == FALSE

\* getBlobObject: "Attachment file has already been uploaded".
Stored(f) == f \in objects

Head(r) == /\ Doing(r, "head")
           /\ IF Stored(changes[r].file) THEN Leaves(r) ELSE Do(r, "put")
           /\ UNCHANGED <<cipher, attachments, objects, lateFiles, stores>>

Put(r) == /\ Doing(r, "put")
          /\ LET f == changes[r].file
             IN  /\ objects' = objects \cup {f}
                 /\ stores' = [stores EXCEPT ![f] = @ + 1]
                 /\ lateFiles' = lateFiles \cup {g \in {f} : Deleting(g) \/ ~Listed(g)}
          /\ Do(r, "touch")
          /\ UNCHANGED <<cipher, attachments>>

\* updateCipherRevisionDate: the cipher is read,
Touched(r) == /\ Doing(r, "touch")
              /\ IF cipher THEN Do(r, "retouch") ELSE Leaves(r)
              /\ UNCHANGED <<cipher, attachments, objects, lateFiles, stores>>

\* ... and saved whole, which inserts one that is gone by now.
SaveCipher(r) == /\ Doing(r, "retouch")
                 /\ cipher' = TRUE
                 /\ Leaves(r)
                 /\ UNCHANGED <<attachments, objects, lateFiles, stores>>

Without(f, from) == from \ {f}

\* The object goes first ...
DeleteObject(r) == /\ Doing(r, "unstore")
                   /\ objects' = Without(changes[r].file, objects)
                   /\ stores' = [stores EXCEPT ![changes[r].file] = 0]
                   /\ Do(r, "unlist")
                   /\ UNCHANGED <<cipher, attachments, lateFiles>>

\* ... and the row after it.
DeleteAttachment(r) ==
  /\ Doing(r, "unlist")
  /\ attachments' = [attachments EXCEPT ![changes[r].file] = "gone"]
  /\ Do(r, "touch")
  /\ UNCHANGED <<cipher, objects, lateFiles, stores>>

-----------------------------------------------------------------------------
(* The permanent deletion of the cipher.                                   *)

Purge(p) == /\ cipher /\ Doing(p, "idle")
            /\ Do(p, "list")
            /\ UNCHANGED <<cipher, attachments, objects, lateFiles, stores>>

\* Mutant of AfterList: the rows go first, the objects with the cipher.
RowsFirst(found) == IF found = {} THEN "cipher" ELSE "rows"

\* Without attachments there is nothing to delete but the cipher.
AfterList(found) == IF found = {} THEN "cipher" ELSE "objects"

\* deleteAllAttachmentsForCiphers: the list,
ListAttachments(p) ==
  /\ Doing(p, "list")
  /\ LET found == {f \in Files : Listed(f)}
     IN  changes' = [changes EXCEPT ![p] =
           [NoChange EXCEPT !.step = AfterList(found), !.listed = found, !.left = found]]
  /\ UNCHANGED <<cipher, attachments, objects, lateFiles, stores>>

\* ... the objects, several at a time and in any order,
DeleteListedObject(p, f) ==
  /\ Doing(p, "objects")
  /\ f \in changes[p].left
  /\ objects' = Without(f, objects)
  /\ stores' = [stores EXCEPT ![f] = 0]
  /\ changes' = [changes EXCEPT ![p].left = @ \ {f},
                                ![p].step = IF changes[p].left = {f} THEN "rows" ELSE "objects"]
  /\ UNCHANGED <<cipher, attachments, lateFiles>>

GoneFrom(set) == [f \in Files |-> IF f \in set /\ Listed(f) THEN "gone" ELSE attachments[f]]

\* ... and the rows in one statement.
DeleteListedRows(p) == /\ Doing(p, "rows")
                       /\ attachments' = GoneFrom(changes[p].listed)
                       /\ Do(p, "cipher")
                       /\ UNCHANGED <<cipher, objects, lateFiles, stores>>

\* deleteCipher: the foreign key takes what rows have come since.
DeleteCipher(p) == /\ Doing(p, "cipher")
                   /\ cipher' = FALSE
                   /\ attachments' = GoneFrom(Files)
                   /\ Leaves(p)
                   /\ UNCHANGED <<objects, lateFiles, stores>>

\* A failed call or a worker that stops.
StopChange(r) == /\ ~Doing(r, "idle")
                 /\ Leaves(r)
                 /\ UNCHANGED <<cipher, attachments, objects, lateFiles, stores>>

AttachmentNext ==
  \/ \E r \in Changes :
       \/ \E f \in Files : Create(r, f) \/ \E s \in {"head", "save", "unstore"} : Begin(r, s, f)
       \/ InsertRow(r) \/ SaveMetadata(r) \/ Head(r) \/ Put(r) \/ DeleteObject(r)
       \/ DeleteAttachment(r) \/ Touched(r) \/ SaveCipher(r)
  \/ \E p \in Purges : \/ Purge(p) \/ ListAttachments(p) \/ DeleteListedRows(p) \/ DeleteCipher(p)
                       \/ \E f \in Files : DeleteListedObject(p, f)
  \/ \E r \in Changes \cup Purges : StopChange(r)

AttachmentSpec == AttachmentInit /\ [][AttachmentNext]_attachmentVars

-----------------------------------------------------------------------------
\* Tables, objects and requests have their types; rows need their cipher.
AttachmentTypeOK == /\ cipher \in BOOLEAN
                    /\ attachments \in [Files -> {"new", "row", "gone"}]
                    /\ (\E f \in Files : Listed(f)) => cipher
                    /\ objects \subseteq Files
                    /\ changes \in [Changes \cup Purges -> Change]
                    /\ lateFiles \subseteq Files
                    /\ stores \in [Files -> Nat]

\* An object without a row, which nobody can find or delete any more, is left
\* only by an upload that stored it while a deletion was under way or over:
\* no deletion loses an object, wherever it stops.
AttachmentOrphansAreLate == \A f \in objects : ~Listed(f) => f \in lateFiles

\* Once a file is stored no later upload replaces it: only the uploads in
\* flight at the time, which looked before, can.
UploadsNotRepeated == \A f \in Files : stores[f] <= Cardinality(Changes)
=============================================================================
