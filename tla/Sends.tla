------------------------------- MODULE Sends -------------------------------
(***************************************************************************)
(* One file Send: its row in "sends", its object in the blob store, the    *)
(* visitors who are granted an access and the owner who edits, uploads and *)
(* deletes, all of them concurrent requests.  One step is one statement on *)
(* the database or one operation on the blob store.                        *)
(*                                                                         *)
(* A text Send differs only in having no object; "granted" is then the     *)
(* text itself, here it is a download link (module DownloadLinks).  The    *)
(* password is checked on the copy a visitor read, before the step below,  *)
(* by the throttled check of module LoginThrottle.                         *)
(***************************************************************************)
EXTENDS Integers

CONSTANTS
  Visitors,   \* slots for public access requests
  Owners,     \* slots for the owner's requests
  Kinds,      \* the kinds of request the owner sends
  MaxAccess,  \* max_access_count of the Send, never edited here
  MaxEdits,   \* bound on the saves
  MaxCrashes  \* bound on the requests that stop between two steps

AllKinds == {"update", "upload", "delete"}

ASSUME SendsAssumption == /\ Visitors \cap Owners = {}
                          /\ Kinds \subseteq AllKinds
                          /\ MaxAccess \in Nat \ {0}
                          /\ MaxEdits \in Nat
                          /\ MaxCrashes \in Nat

VARIABLES
  send,    \* the row, NoSend once deleted
  blob,    \* whether the object is in the blob store
  req,     \* the next step of each request and the row it has read
  grants,  \* history: accesses granted
  edits,   \* saves so far
  crashes, \* requests stopped half-way so far
  late     \* history: the object was stored after a deletion had removed it

vars == <<send, blob, req, grants, edits, crashes, late>>

\* past: the expiration or the deletion date is over.
Send   == [exists: BOOLEAN, count: Nat, disabled: BOOLEAN, past: BOOLEAN]
NoSend == [exists |-> FALSE, count |-> 0, disabled |-> FALSE, past |-> FALSE]

Steps   == {"idle", "increment", "save", "check", "put", "deleteBlob", "deleteRow"}
Request == [step: Steps, copy: Send]
Idle    == [step |-> "idle", copy |-> NoSend]

isSendAvailable(s) == s.count < MaxAccess /\ ~s.past /\ ~s.disabled

At(r, step)   == req[r].step = step
Goto(r, step) == req' = [req EXCEPT ![r].step = step]
Finish(r)     == req' = [req EXCEPT ![r] = Idle]

\* A request starts by reading the row.
Read(r, step) == /\ req[r] = Idle
                 /\ send.exists
                 /\ req' = [req EXCEPT ![r] = [step |-> step, copy |-> send]]
                 /\ UNCHANGED <<send, blob, grants, edits, crashes, late>>

-----------------------------------------------------------------------------
Init == /\ \E uploaded \in BOOLEAN : blob = uploaded
        /\ send = [NoSend EXCEPT !.exists = TRUE]
        /\ req = [r \in Visitors \cup Owners |-> Idle]
        /\ grants = 0
        /\ edits = 0
        /\ crashes = 0
        /\ late = FALSE

(* A visitor: handleAccessSend, handleAccessSendFile and their V2 forms.   *)

AccessRead(v) == isSendAvailable(send) /\ Read(v, "increment")

Granted(v) == /\ send' = [send EXCEPT !.count = @ + 1]
              /\ grants' = grants + 1

\* Mutant of Increment: the count read before is written back.
IncrementFromCopy(v) ==
  /\ At(v, "increment")
  /\ IF send.exists /\ isSendAvailable(send)
       THEN /\ send' = [send EXCEPT !.count = req[v].copy.count + 1]
            /\ grants' = grants + 1
       ELSE UNCHANGED <<send, grants>>
  /\ Finish(v)
  /\ UNCHANGED <<blob, edits, crashes, late>>

\* Mutant of Increment: the check made on the copy is not repeated.
IncrementAnyway(v) ==
  /\ At(v, "increment")
  /\ IF send.exists THEN Granted(v) ELSE UNCHANGED <<send, grants>>
  /\ Finish(v)
  /\ UNCHANGED <<blob, edits, crashes, late>>

\* One conditional UPDATE; the access is granted when it changed the row.
Increment(v) ==
  /\ At(v, "increment")
  /\ IF send.exists /\ isSendAvailable(send)
       THEN Granted(v) ELSE UNCHANGED <<send, grants>>
  /\ Finish(v)
  /\ UNCHANGED <<blob, edits, crashes, late>>

(* The owner.                                                              *)

\* handleUpdateSend, handleRemoveSendPassword, handleRemoveSendAuth.
UpdateRead(o) == "update" \in Kinds /\ Read(o, "save")

\* saveSend writes every column of the copy, access_count included, and
\* inserts the row when it is gone.  An update may also disable the Send.
UpdateSave(o) ==
  /\ At(o, "save")
  /\ edits < MaxEdits
  /\ edits' = edits + 1
  /\ \E disabled \in BOOLEAN : send' = [req[o].copy EXCEPT !.disabled = disabled]
  /\ Finish(o)
  /\ UNCHANGED <<blob, grants, crashes, late>>

\* processSendFileUpload: an object that is already there answers 409.
UploadRead(o) == "upload" \in Kinds /\ Read(o, "check")

UploadCheck(o) == /\ At(o, "check")
                  /\ IF blob THEN Finish(o) ELSE Goto(o, "put")
                  /\ UNCHANGED <<send, blob, grants, edits, crashes, late>>

UploadPut(o) == /\ At(o, "put")
                /\ blob' = TRUE
                /\ late' = (~send.exists \/ \E q \in Owners : At(q, "deleteRow"))
                /\ Finish(o)
                /\ UNCHANGED <<send, grants, edits, crashes>>

\* Mutant of DeleteRead: the row is deleted before the object.
DeleteRowFirst(o) == /\ "delete" \in Kinds
                     /\ req[o] = Idle
                     /\ send.exists
                     /\ send' = NoSend
                     /\ req' = [req EXCEPT ![o] = [step |-> "deleteBlob", copy |-> send]]
                     /\ UNCHANGED <<blob, grants, edits, crashes, late>>

\* handleDeleteSend, handleBulkDeleteSends: the object first, then the row.
DeleteRead(o) == "delete" \in Kinds /\ Read(o, "deleteBlob")

DeleteBlob(o) == /\ At(o, "deleteBlob")
                 /\ blob' = FALSE
                 /\ Goto(o, "deleteRow")
                 /\ UNCHANGED <<send, grants, edits, crashes, late>>

DeleteRow(o) == /\ At(o, "deleteRow")
                /\ send' = NoSend
                /\ Finish(o)
                /\ UNCHANGED <<blob, grants, edits, crashes, late>>

(* The environment.                                                        *)

\* A worker stops, or an operation throws, between two steps.
Crash(r) == /\ req[r] # Idle
            /\ crashes < MaxCrashes
            /\ crashes' = crashes + 1
            /\ Finish(r)
            /\ UNCHANGED <<send, blob, grants, edits, late>>

\* The dates pass.  A row that is written back keeps them; so does the copy.
Expire == /\ send.exists /\ ~send.past
          /\ send' = [send EXCEPT !.past = TRUE]
          /\ req' = [r \in DOMAIN req |->
                       IF req[r] = Idle THEN Idle ELSE [req[r] EXCEPT !.copy.past = TRUE]]
          /\ UNCHANGED <<blob, grants, edits, crashes, late>>

Next == \/ \E v \in Visitors : AccessRead(v) \/ Increment(v)
        \/ \E o \in Owners : \/ UpdateRead(o) \/ UpdateSave(o)
                             \/ UploadRead(o) \/ UploadCheck(o) \/ UploadPut(o)
                             \/ DeleteRead(o) \/ DeleteBlob(o) \/ DeleteRow(o)
        \/ \E r \in Visitors \cup Owners : Crash(r)
        \/ Expire

Spec == Init /\ [][Next]_vars

-----------------------------------------------------------------------------
\* Rows, requests and counters have their types; the count never passes the
\* limit, whatever copies of the row are written back.
TypeOK == /\ send \in Send
          /\ send.count \in 0..MaxAccess
          /\ blob \in BOOLEAN /\ late \in BOOLEAN
          /\ req \in [Visitors \cup Owners -> Request]
          /\ grants \in Nat
          /\ edits \in 0..MaxEdits
          /\ crashes \in 0..MaxCrashes

\* A save writes back the count it read and so reopens what was granted since:
\* never more than one full limit for each save, and nothing without a save,
\* however many visitors come at once.
LostAccessesBounded == grants <= MaxAccess * (edits + 1)

\* The documented limit: incrementSendAccessCount is false once
\* max_access_count is reached, so no more accesses than that are granted.
GrantsWithinLimit == grants <= MaxAccess

\* An access is granted only while the stored row allows one: a Send that the
\* owner disabled or deleted, or whose dates passed, after the visitor's read
\* grants nothing more.
GrantsAreAllowed == [][grants' # grants => send.exists /\ isSendAvailable(send)]_vars

\* A Send that is gone has left no object behind, even when the deletion
\* stopped half-way; only an upload that outlasts the deletion can leave one.
OrphansAreLate == ~send.exists /\ blob => late
=============================================================================
