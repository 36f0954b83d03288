-------------------------- MODULE StoredFileProofs --------------------------
(* What concurrent edits can cost the access limit of a Send, what uploads *)
(* and deletions leave of Sends and attachments, and what leases, records  *)
(* and clean-ups leave of backups, for any number of requests, files, jobs *)
(* and destinations.                                                       *)
EXTENDS Sends, Attachments, BackupJobs, FiniteSetTheorems, TLAPS

\* The accesses the stored count no longer shows were lost to saves; those of
\* a deleted row are unknown until a save brings the row back.
Accounted ==
  /\ send.exists => grants <= send.count + MaxAccess * edits
  /\ LostAccessesBounded

\* The copies respect the limit too: a save may store any of them.
Copies == \A r \in Visitors \cup Owners : req[r].copy.count \in 0..MaxAccess

IInv == TypeOK /\ Copies /\ Accounted

-----------------------------------------------------------------------------
(* The product of the bound: MaxAccess for every save.                     *)
LEMMA Product ==
  ASSUME NEW n \in Nat
  PROVE  /\ MaxAccess * n \in Nat
         /\ MaxAccess * (n + 1) = MaxAccess * n + MaxAccess
BY SendsAssumption

LEMMA TypeInit == Init => TypeOK /\ Copies
<1> SUFFICES ASSUME Init PROVE TypeOK /\ Copies
  OBVIOUS
<1>1. NoSend \in Send /\ NoSend.count = 0
  BY DEF NoSend, Send
<1>2. send \in Send /\ send.count = 0 /\ blob \in BOOLEAN /\ late \in BOOLEAN
  BY <1>1 DEF Init, Send
<1>3. Idle \in Request /\ Idle.copy.count = 0
  BY <1>1 DEF Idle, Request, Steps
<1>4. req \in [Visitors \cup Owners -> Request] /\ Copies
  BY <1>3, SendsAssumption DEF Init, Copies
<1> QED BY <1>2, <1>4, SendsAssumption DEF Init, TypeOK

LEMMA TypeStep == TypeOK /\ Copies /\ [Next]_vars => TypeOK' /\ Copies'
<1> SUFFICES ASSUME TypeOK, Copies, [Next]_vars PROVE TypeOK' /\ Copies'
  OBVIOUS
<1> USE SendsAssumption DEF TypeOK, Copies, Send, Request, Steps
<1>1. Idle \in Request /\ Idle.copy.count \in 0..MaxAccess /\ NoSend \in Send
      /\ NoSend.count \in 0..MaxAccess
  BY DEF Idle, NoSend
<1>2. ASSUME NEW r \in Visitors \cup Owners, Finish(r)
      PROVE  req' \in [Visitors \cup Owners -> Request] /\ Copies'
  BY <1>1, <1>2 DEF Finish
<1>3. ASSUME NEW r \in Visitors \cup Owners, NEW s \in Steps, Goto(r, s)
      PROVE  req' \in [Visitors \cup Owners -> Request] /\ Copies'
  BY <1>3 DEF Goto
<1>4. ASSUME NEW r \in Visitors \cup Owners, NEW s \in Steps, Read(r, s)
      PROVE  TypeOK' /\ Copies'
  BY <1>4 DEF Read
<1>5. ASSUME NEW v \in Visitors, AccessRead(v) PROVE TypeOK' /\ Copies'
  BY <1>4, <1>5 DEF AccessRead
<1>6. ASSUME NEW v \in Visitors, Increment(v) PROVE TypeOK' /\ Copies'
  <2>1. send' \in Send /\ send'.count \in 0..MaxAccess /\ grants' \in Nat
    <3>1. CASE Granted(v) /\ isSendAvailable(send)
      BY <3>1 DEF Granted, isSendAvailable
    <3>2. CASE UNCHANGED <<send, grants>>
      BY <3>2
    <3> QED BY <1>6, <3>1, <3>2 DEF Increment
  <2> QED BY <1>2, <1>6, <2>1 DEF Increment
<1>7. ASSUME NEW o \in Owners, UpdateRead(o) PROVE TypeOK' /\ Copies'
  BY <1>4, <1>7 DEF UpdateRead
<1>8. ASSUME NEW o \in Owners, UpdateSave(o) PROVE TypeOK' /\ Copies'
  <2>1. send' \in Send /\ send'.count \in 0..MaxAccess
    BY <1>8 DEF UpdateSave
  <2> QED BY <1>2, <1>8, <2>1 DEF UpdateSave
<1>9. ASSUME NEW o \in Owners, UploadRead(o) PROVE TypeOK' /\ Copies'
  BY <1>4, <1>9 DEF UploadRead
<1>10. ASSUME NEW o \in Owners, UploadCheck(o) PROVE TypeOK' /\ Copies'
  BY <1>2, <1>3, <1>10 DEF UploadCheck
<1>11. ASSUME NEW o \in Owners, UploadPut(o) PROVE TypeOK' /\ Copies'
  BY <1>2, <1>11 DEF UploadPut
<1>12. ASSUME NEW o \in Owners, DeleteRead(o) PROVE TypeOK' /\ Copies'
  BY <1>4, <1>12 DEF DeleteRead
<1>13. ASSUME NEW o \in Owners, DeleteBlob(o) PROVE TypeOK' /\ Copies'
  BY <1>3, <1>13 DEF DeleteBlob
<1>14. ASSUME NEW o \in Owners, DeleteRow(o) PROVE TypeOK' /\ Copies'
  BY <1>1, <1>2, <1>14 DEF DeleteRow
<1>15. ASSUME NEW r \in Visitors \cup Owners, Crash(r) PROVE TypeOK' /\ Copies'
  BY <1>2, <1>15 DEF Crash
<1>16. CASE Expire
  <2>1. send' \in Send /\ send'.count = send.count
    BY <1>16 DEF Expire
  <2>2. req' \in [Visitors \cup Owners -> Request] /\ Copies'
    BY <1>1, <1>16 DEF Expire
  <2> QED BY <1>16, <2>1, <2>2 DEF Expire
<1>17. CASE UNCHANGED vars
  BY <1>17 DEF vars
<1> QED
  BY <1>5, <1>6, <1>7, <1>8, <1>9, <1>10, <1>11, <1>12, <1>13, <1>14, <1>15, <1>16, <1>17
  DEF Next

-----------------------------------------------------------------------------
(* Every access granted is in the count or was lost to a save.             *)
LEMMA AccountInit == Init => Accounted
BY SendsAssumption, Product DEF Init, Accounted, LostAccessesBounded, NoSend

LEMMA AccountStep == IInv /\ [Next]_vars => Accounted'
<1> SUFFICES ASSUME IInv, [Next]_vars PROVE Accounted'
  OBVIOUS
<1>1. /\ MaxAccess \in Nat /\ edits \in Nat /\ grants \in Nat /\ send \in Send
      /\ send.count \in Nat /\ send.count <= MaxAccess
      /\ MaxAccess * edits \in Nat
      /\ MaxAccess * (edits + 1) = MaxAccess * edits + MaxAccess
  BY SendsAssumption, Product DEF IInv, TypeOK, Send
<1>2. UNCHANGED <<send, grants, edits>> => Accounted'
  BY DEF IInv, Accounted, LostAccessesBounded
<1>3. ASSUME NEW v \in Visitors, Increment(v) PROVE Accounted'
  <2>1. CASE Granted(v) /\ send.exists /\ isSendAvailable(send) /\ edits' = edits
    <3>1. send'.count = send.count + 1 /\ grants' = grants + 1 /\ send.count < MaxAccess
      BY <1>1, <2>1 DEF Granted, isSendAvailable, Send
    <3> QED BY <1>1, <2>1, <3>1 DEF IInv, Accounted, LostAccessesBounded
  <2>2. CASE UNCHANGED <<send, grants, edits>>
    BY <1>2, <2>2
  <2> QED BY <1>3, <2>1, <2>2 DEF Increment
<1>4. ASSUME NEW o \in Owners, UpdateSave(o) PROVE Accounted'
  <2>1. edits' = edits + 1 /\ grants' = grants /\ send'.count \in Nat
    BY <1>4, SendsAssumption DEF UpdateSave, IInv, TypeOK, Copies, Request, Send
  <2>2. MaxAccess * (edits' + 1) = MaxAccess * (edits + 1) + MaxAccess
    BY <1>1, <2>1, Product
  <2> QED BY <1>1, <2>1, <2>2 DEF IInv, Accounted, LostAccessesBounded
<1>5. ASSUME NEW o \in Owners, DeleteRow(o) PROVE Accounted'
  BY <1>5 DEF DeleteRow, NoSend, IInv, Accounted, LostAccessesBounded
<1>6. CASE Expire
  BY <1>1, <1>6 DEF Expire, IInv, Accounted, LostAccessesBounded, Send
<1> QED
  BY <1>2, <1>3, <1>4, <1>5, <1>6
  DEF Next, vars, AccessRead, Read, UpdateRead, UploadRead, UploadCheck, UploadPut,
      DeleteRead, DeleteBlob, Crash

\* The stored count never passes the limit, whatever copy is written back.
THEOREM SendTypeCorrect == Spec => []TypeOK
<1> QED BY TypeInit, TypeStep, PTL DEF Spec

\* For every limit and any number of visitors and owners, an access beyond the
\* limit is one that a save gave back; without saves the limit is exact.
THEOREM AccessesAreBounded == Spec => []LostAccessesBounded
<1>1. Init => IInv
  BY TypeInit, AccountInit DEF IInv
<1>2. IInv /\ [Next]_vars => IInv'
  BY TypeStep, AccountStep DEF IInv
<1>3. IInv => LostAccessesBounded
  BY DEF IInv, Accounted
<1> QED BY <1>1, <1>2, <1>3, PTL DEF Spec

\* Every access is granted by a row that allows one at that very step: a Send
\* disabled, expired or deleted after the visitor's read grants nothing more.
THEOREM GrantsComeFromLiveRows == Spec => GrantsAreAllowed
<1>1. ASSUME [Next]_vars PROVE grants' # grants => send.exists /\ isSendAvailable(send)
  <2>1. ASSUME NEW v \in Visitors, Increment(v)
        PROVE  grants' # grants => send.exists /\ isSendAvailable(send)
    BY <2>1 DEF Increment
  <2>2. (\A v \in Visitors : ~Increment(v)) => grants' = grants
    BY <1>1 DEF Next, vars, AccessRead, Read, UpdateRead, UpdateSave, UploadRead, UploadCheck,
           UploadPut, DeleteRead, DeleteBlob, DeleteRow, Crash, Expire
  <2> QED BY <2>1, <2>2
<1> QED BY <1>1, PTL DEF Spec, GrantsAreAllowed

(* An object that is not late has its row, and no deletion about to take   *)
(* the row away.                                                           *)
Referred == blob /\ ~late => send.exists /\ \A q \in Owners : ~At(q, "deleteRow")

\* A save writes back a row that was there.
CopiesExist == \A r \in Visitors \cup Owners : At(r, "save") => req[r].copy.exists

LEMMA CopiesStep == TypeOK /\ CopiesExist /\ [Next]_vars => CopiesExist'
<1> SUFFICES ASSUME TypeOK, CopiesExist, [Next]_vars PROVE CopiesExist'
  OBVIOUS
<1>1. ASSUME NEW r \in Visitors \cup Owners, NEW x, x.step = "save" => x.copy.exists,
             req' = [req EXCEPT ![r] = x]
      PROVE  CopiesExist'
  BY <1>1 DEF TypeOK, CopiesExist, At
<1>2. ASSUME NEW r \in Visitors \cup Owners, Finish(r) PROVE CopiesExist'
  BY <1>1, <1>2 DEF Finish, Idle
<1>3. ASSUME NEW r \in Visitors \cup Owners, NEW s \in Steps, Read(r, s) PROVE CopiesExist'
  BY <1>1, <1>3 DEF Read
<1>4. ASSUME NEW r \in Visitors \cup Owners, NEW s \in Steps, s # "save", Goto(r, s)
      PROVE  CopiesExist'
  BY <1>4 DEF Goto, TypeOK, CopiesExist, At, Request
<1>5. ASSUME NEW v \in Visitors, AccessRead(v) \/ Increment(v) PROVE CopiesExist'
  BY <1>2, <1>3, <1>5 DEF AccessRead, Increment, Steps
<1>6. ASSUME NEW o \in Owners, UpdateRead(o) \/ UploadRead(o) \/ DeleteRead(o)
      PROVE  CopiesExist'
  BY <1>3, <1>6 DEF UpdateRead, UploadRead, DeleteRead, Steps
<1>7. ASSUME NEW o \in Owners, UploadCheck(o) \/ DeleteBlob(o) PROVE CopiesExist'
  BY <1>2, <1>4, <1>7 DEF UploadCheck, DeleteBlob, Steps
<1>8. ASSUME NEW o \in Owners, UpdateSave(o) \/ UploadPut(o) \/ DeleteRow(o)
      PROVE  CopiesExist'
  BY <1>2, <1>8 DEF UpdateSave, UploadPut, DeleteRow
<1>9. ASSUME NEW r \in Visitors \cup Owners, Crash(r) PROVE CopiesExist'
  BY <1>2, <1>9 DEF Crash
<1>10. CASE Expire
  <2>1. \A r \in Visitors \cup Owners :
          req'[r] = Idle \/ (req'[r].step = req[r].step /\ req'[r].copy.exists = req[r].copy.exists)
    BY <1>10 DEF Expire, TypeOK, Request, Send
  <2> QED BY <2>1 DEF CopiesExist, At, Idle
<1>11. CASE UNCHANGED vars
  BY <1>11 DEF vars, CopiesExist, At
<1> QED
  BY <1>5, <1>6, <1>7, <1>8, <1>9, <1>10, <1>11 DEF Next

LEMMA ReferredStep == TypeOK /\ CopiesExist /\ Referred /\ [Next]_vars => Referred'
<1> SUFFICES ASSUME TypeOK, CopiesExist, Referred, [Next]_vars PROVE Referred'
  OBVIOUS
<1>1. ASSUME NEW r \in Visitors \cup Owners, NEW x, x.step # "deleteRow",
             req' = [req EXCEPT ![r] = x], UNCHANGED <<blob, late>>,
             send.exists => send'.exists
      PROVE  Referred'
  BY <1>1 DEF TypeOK, Referred, At
<1>2. ASSUME NEW r \in Visitors \cup Owners, Finish(r), UNCHANGED <<blob, late>>,
             send.exists => send'.exists
      PROVE  Referred'
  BY <1>1, <1>2 DEF Finish, Idle
<1>3. ASSUME NEW r \in Visitors \cup Owners, NEW s \in Steps, s # "deleteRow", Read(r, s)
      PROVE  Referred'
  BY <1>1, <1>3 DEF Read
<1>4. ASSUME NEW v \in Visitors, AccessRead(v) \/ Increment(v) PROVE Referred'
  <2>1. CASE AccessRead(v)
    BY <1>3, <2>1 DEF AccessRead, Steps
  <2>2. CASE Increment(v)
    BY <1>2, <2>2 DEF Increment, Granted, TypeOK, Send
  <2> QED BY <1>4, <2>1, <2>2
<1>5. ASSUME NEW o \in Owners, UpdateRead(o) \/ UploadRead(o) \/ DeleteRead(o) PROVE Referred'
  BY <1>3, <1>5 DEF UpdateRead, UploadRead, DeleteRead, Steps
<1>6. ASSUME NEW o \in Owners, UploadCheck(o) PROVE Referred'
  <2>1. CASE Finish(o)
    BY <1>2, <1>6, <2>1 DEF UploadCheck
  <2>2. CASE Goto(o, "put")
    BY <1>6, <2>2 DEF UploadCheck, Goto, TypeOK, Referred, At, Request
  <2> QED BY <1>6, <2>1, <2>2 DEF UploadCheck
<1>7. ASSUME NEW o \in Owners, UploadPut(o) PROVE Referred'
  BY <1>7 DEF UploadPut, Finish, Idle, TypeOK, Referred, At
<1>8. ASSUME NEW o \in Owners, DeleteBlob(o) PROVE Referred'
  BY <1>8 DEF DeleteBlob, Referred
<1>9. ASSUME NEW o \in Owners, DeleteRow(o) PROVE Referred'
  BY <1>9 DEF DeleteRow, Referred
<1>10. ASSUME NEW r \in Visitors \cup Owners, Crash(r) PROVE Referred'
  BY <1>2, <1>10 DEF Crash
<1>11. CASE Expire
  <2>1. \A q \in Owners : req'[q].step = req[q].step
    BY <1>11 DEF Expire, TypeOK, Idle, Request
  <2>2. send'.exists = send.exists /\ UNCHANGED <<blob, late>>
    BY <1>11 DEF Expire, TypeOK, Send
  <2> QED BY <2>1, <2>2 DEF Referred, At
<1>12. CASE UNCHANGED vars
  BY <1>12 DEF vars, Referred, At
<1>13. ASSUME NEW o \in Owners, UpdateSave(o) PROVE Referred'
  <2>1. /\ \A q \in Owners : req'[q].step = "deleteRow" => req[q].step = "deleteRow"
        /\ UNCHANGED <<blob, late>>
    BY <1>13 DEF UpdateSave, Finish, Idle, TypeOK
  <2>2. blob /\ ~late => send'.exists
    BY <1>13 DEF UpdateSave, TypeOK, Request, Send, CopiesExist
  <2> QED BY <2>1, <2>2 DEF Referred, At
<1> QED
  BY <1>4, <1>5, <1>6, <1>7, <1>8, <1>9, <1>10, <1>11, <1>12, <1>13 DEF Next

\* However the deletions of a Send are cut short, and whatever edits and
\* uploads they meet, an object without a row was stored after them.
THEOREM SendOrphansAreLate == Spec => []OrphansAreLate
<1>1. Init => Referred /\ CopiesExist
  BY DEF Init, Referred, CopiesExist, NoSend, Idle, At
<1>2. Referred => OrphansAreLate
  BY DEF Referred, OrphansAreLate
<1> QED BY <1>1, <1>2, TypeInit, TypeStep, CopiesStep, ReferredStep, PTL DEF Spec

-----------------------------------------------------------------------------
(* Attachments.                                                            *)

\* The objects that no upload stored behind a deletion.
InTime == objects \ lateFiles

\* Each has its row; a deletion that is about to delete the row has deleted the
\* object, and one that is at the objects has it on its list.
Kept == /\ \A f \in InTime : Listed(f)
        /\ \A r \in Changes : Doing(r, "unlist") => changes[r].file \notin InTime
        /\ \A p \in Purges : /\ Doing(p, "objects") => InTime \subseteq changes[p].left
                             /\ changes[p].step \in {"rows", "cipher"} => InTime = {}

\* The uploads that have found no object of f.
Putting(f) == {r \in Changes : Doing(r, "put") /\ changes[r].file = f}

\* They and the objects they have stored are no more than the slots; what has
\* no object has not been stored since it was deleted.
Budget(f) == /\ f \notin objects => stores[f] = 0
             /\ stores[f] + Cardinality(Putting(f)) <= Cardinality(Changes)

\* Requests on one attachment do the steps of Changes, deletions of the cipher
\* those of Purges, and each change has its file.
Roles == /\ \A r \in Changes : Doing(r, "idle") \/ changes[r].file \in Files
         /\ \A p \in Purges : changes[p].step \in {"idle", "list", "objects", "rows", "cipher"}

AttachmentInv == AttachmentTypeOK /\ Roles /\ Kept

LEMMA PuttingCounts ==
  ASSUME NEW f \in Files
  PROVE  /\ IsFiniteSet(Putting(f)) /\ Cardinality(Putting(f)) \in Nat
         /\ Cardinality(Putting(f)) <= Cardinality(Changes) /\ Cardinality(Changes) \in Nat
BY AttachmentsAssumption, FS_Subset, FS_CardinalityType DEF Putting

LEMMA AttachmentInitInv == AttachmentInit => AttachmentInv
<1> SUFFICES ASSUME AttachmentInit PROVE AttachmentInv
  OBVIOUS
<1>1. NoChange \in Change /\ NoChange.step = "idle"
  BY DEF NoChange, Change, ChangeSteps
<1>2. AttachmentTypeOK
  BY <1>1 DEF AttachmentInit, AttachmentTypeOK, Listed
<1>3. Roles /\ Kept
  BY <1>1 DEF AttachmentInit, Roles, Kept, InTime, Doing
<1> QED BY <1>2, <1>3 DEF AttachmentInv

LEMMA AttachmentTypeStep ==
  AttachmentTypeOK /\ Roles /\ [AttachmentNext]_attachmentVars => AttachmentTypeOK' /\ Roles'
<1> SUFFICES ASSUME AttachmentTypeOK, Roles, [AttachmentNext]_attachmentVars
             PROVE  AttachmentTypeOK' /\ Roles'
  OBVIOUS
<1> USE AttachmentsAssumption
<1>t. /\ changes \in [Changes \cup Purges -> Change]
      /\ \A r \in Changes \cup Purges : changes[r] \in Change
  BY DEF AttachmentTypeOK
<1>1. \* A request takes its next step.
      ASSUME NEW r \in Changes \cup Purges, NEW x \in Change,
             changes' = [changes EXCEPT ![r] = x],
             r \in Changes => x.step = "idle" \/ x.file \in Files,
             r \in Purges => x.step \in {"idle", "list", "objects", "rows", "cipher"}
      PROVE  changes' \in [Changes \cup Purges -> Change] /\ Roles'
  BY <1>t, <1>1 DEF Roles, Doing
<1>2. ASSUME NEW r \in Changes \cup Purges, Leaves(r)
      PROVE  changes' \in [Changes \cup Purges -> Change] /\ Roles'
  BY <1>1, <1>2 DEF Leaves, NoChange, Change, ChangeSteps
<1>3. ASSUME NEW r \in Changes, NEW s \in ChangeSteps, ~Doing(r, "idle"), Do(r, s)
      PROVE  changes' \in [Changes \cup Purges -> Change] /\ Roles'
  <2> DEFINE x == [changes[r] EXCEPT !.step = s]
  <2>1. x \in Change /\ x.file \in Files
    BY <1>t, <1>3 DEF Change, Roles
  <2>2. changes' = [changes EXCEPT ![r] = x]
    BY <1>t, <1>3 DEF Do
  <2> HIDE DEF x
  <2> QED BY <1>1, <2>1, <2>2
<1>4. ASSUME NEW p \in Purges, NEW s \in {"list", "objects", "rows", "cipher"}, Do(p, s)
      PROVE  changes' \in [Changes \cup Purges -> Change] /\ Roles'
  <2> DEFINE x == [changes[p] EXCEPT !.step = s]
  <2>1. x \in Change /\ x.step = s
    BY <1>t, <1>4 DEF Change, ChangeSteps
  <2>2. changes' = [changes EXCEPT ![p] = x]
    BY <1>t, <1>4 DEF Do
  <2> HIDE DEF x
  <2> QED BY <1>1, <2>1, <2>2
<1>5. ASSUME NEW r \in Changes, NEW s \in ChangeSteps, NEW f \in Files, Take(r, s, f)
      PROVE  changes' \in [Changes \cup Purges -> Change] /\ Roles'
  <2> DEFINE x == [NoChange EXCEPT !.step = s, !.file = f]
  <2>1. x \in Change /\ x.file \in Files
    BY DEF NoChange, Change, ChangeSteps
  <2>2. changes' = [changes EXCEPT ![r] = x]
    BY <1>5 DEF Take
  <2> HIDE DEF x
  <2> QED BY <1>1, <2>1, <2>2
<1>6. \* The tables.
      ASSUME changes' \in [Changes \cup Purges -> Change], Roles', cipher' \in BOOLEAN,
             attachments' \in [Files -> {"new", "row", "gone"}],
             (\E f \in Files : Listed(f)') => cipher',
             objects' \subseteq Files, lateFiles' \subseteq Files, stores' \in [Files -> Nat]
      PROVE  AttachmentTypeOK' /\ Roles'
  BY <1>6 DEF AttachmentTypeOK
<1>7. \* They stay.
      ASSUME changes' \in [Changes \cup Purges -> Change], Roles',
             UNCHANGED <<cipher, attachments, objects, lateFiles, stores>>
      PROVE  AttachmentTypeOK' /\ Roles'
  BY <1>6, <1>7 DEF AttachmentTypeOK, Listed
<1>8. ASSUME NEW r \in Changes, NEW f \in Files, Create(r, f) PROVE AttachmentTypeOK' /\ Roles'
  BY <1>5, <1>7, <1>8 DEF Create, ChangeSteps
<1>9. ASSUME NEW r \in Changes, NEW f \in Files, NEW s \in {"head", "save", "unstore"}, Begin(r, s, f)
      PROVE  AttachmentTypeOK' /\ Roles'
  BY <1>5, <1>7, <1>9 DEF Begin, ChangeSteps
<1>10. ASSUME NEW r \in Changes, NEW s \in {"insert", "save"}, SaveRow(r, s)
       PROVE  AttachmentTypeOK' /\ Roles'
  <2>1. changes' \in [Changes \cup Purges -> Change] /\ Roles'
    BY <1>2, <1>3, <1>10 DEF SaveRow, Doing, ChangeSteps
  <2>2. /\ attachments' \in [Files -> {"new", "row", "gone"}]
        /\ (\E f \in Files : Listed(f)') => cipher
    BY <1>10 DEF SaveRow, AttachmentTypeOK, Listed
  <2> QED BY <1>6, <1>10, <2>1, <2>2 DEF SaveRow, AttachmentTypeOK
<1>11. ASSUME NEW r \in Changes, Head(r) \/ Touched(r) PROVE AttachmentTypeOK' /\ Roles'
  <2>1. changes' \in [Changes \cup Purges -> Change] /\ Roles'
    BY <1>2, <1>3, <1>11 DEF Head, Touched, Doing, ChangeSteps
  <2> QED BY <1>7, <1>11, <2>1 DEF Head, Touched
<1>12. ASSUME NEW r \in Changes, Put(r) PROVE AttachmentTypeOK' /\ Roles'
  <2>1. changes' \in [Changes \cup Purges -> Change] /\ Roles'
    BY <1>3, <1>12 DEF Put, Doing, ChangeSteps
  <2>2. changes[r].file \in Files
    BY <1>12 DEF Put, Doing, Roles
  <2>3. objects' \subseteq Files /\ lateFiles' \subseteq Files /\ stores' \in [Files -> Nat]
    BY <1>12, <2>2 DEF Put, AttachmentTypeOK
  <2> QED BY <1>6, <1>12, <2>1, <2>3 DEF Put, AttachmentTypeOK, Listed
<1>13. ASSUME NEW r \in Changes, SaveCipher(r) PROVE AttachmentTypeOK' /\ Roles'
  BY <1>2, <1>6, <1>13 DEF SaveCipher, AttachmentTypeOK, Listed
<1>14. ASSUME NEW r \in Changes, DeleteObject(r) PROVE AttachmentTypeOK' /\ Roles'
  <2>1. changes' \in [Changes \cup Purges -> Change] /\ Roles'
    BY <1>3, <1>14 DEF DeleteObject, Doing, ChangeSteps
  <2> QED BY <1>6, <1>14, <2>1 DEF DeleteObject, Without, AttachmentTypeOK, Listed
<1>15. ASSUME NEW r \in Changes, DeleteAttachment(r) PROVE AttachmentTypeOK' /\ Roles'
  <2>1. changes' \in [Changes \cup Purges -> Change] /\ Roles'
    BY <1>3, <1>15 DEF DeleteAttachment, Doing, ChangeSteps
  <2> QED BY <1>6, <1>15, <2>1 DEF DeleteAttachment, AttachmentTypeOK, Listed
<1>16. ASSUME NEW p \in Purges, Purge(p) PROVE AttachmentTypeOK' /\ Roles'
  BY <1>4, <1>7, <1>16 DEF Purge
<1>17. ASSUME NEW p \in Purges, ListAttachments(p) PROVE AttachmentTypeOK' /\ Roles'
  <2> DEFINE found == {f \in Files : Listed(f)}
             x == [NoChange EXCEPT !.step = AfterList(found), !.listed = found, !.left = found]
  <2>1. x \in Change /\ x.step \in {"cipher", "objects"}
    BY DEF NoChange, Change, ChangeSteps, AfterList
  <2>2. changes' = [changes EXCEPT ![p] = x] /\ UNCHANGED <<cipher, attachments, objects, lateFiles, stores>>
    BY <1>17 DEF ListAttachments
  <2> HIDE DEF x
  <2> QED BY <1>1, <1>7, <2>1, <2>2
<1>18. ASSUME NEW p \in Purges, NEW f \in Files, DeleteListedObject(p, f)
       PROVE  AttachmentTypeOK' /\ Roles'
  <2> DEFINE s == IF changes[p].left = {f} THEN "rows" ELSE "objects"
             x == [changes[p] EXCEPT !.left = @ \ {f}, !.step = s]
  <2>1. x \in Change /\ x.step \in {"rows", "objects"}
    BY <1>t DEF Change, ChangeSteps
  <2>2. changes' = [changes EXCEPT ![p] = x]
    BY <1>t, <1>18 DEF DeleteListedObject, Change
  <2> HIDE DEF x
  <2>3. changes' \in [Changes \cup Purges -> Change] /\ Roles'
    BY <1>1, <2>1, <2>2
  <2> QED BY <1>6, <1>18, <2>3 DEF DeleteListedObject, Without, AttachmentTypeOK, Listed
<1>19. ASSUME NEW p \in Purges, DeleteListedRows(p) PROVE AttachmentTypeOK' /\ Roles'
  <2>1. changes' \in [Changes \cup Purges -> Change] /\ Roles'
    BY <1>4, <1>19 DEF DeleteListedRows
  <2> QED BY <1>6, <1>19, <2>1 DEF DeleteListedRows, GoneFrom, AttachmentTypeOK, Listed
<1>20. ASSUME NEW p \in Purges, DeleteCipher(p) PROVE AttachmentTypeOK' /\ Roles'
  BY <1>2, <1>6, <1>20 DEF DeleteCipher, GoneFrom, AttachmentTypeOK, Listed
<1>21. ASSUME NEW r \in Changes \cup Purges, StopChange(r) PROVE AttachmentTypeOK' /\ Roles'
  BY <1>2, <1>7, <1>21 DEF StopChange
<1>22. CASE UNCHANGED attachmentVars
  BY <1>22 DEF attachmentVars, AttachmentTypeOK, Roles, Listed, Doing
<1> QED
  BY <1>8, <1>9, <1>10, <1>11, <1>12, <1>13, <1>14, <1>15, <1>16, <1>17, <1>18, <1>19, <1>20,
     <1>21, <1>22
  DEF AttachmentNext, InsertRow, SaveMetadata

LEMMA KeptStep == AttachmentInv /\ [AttachmentNext]_attachmentVars => Kept'
<1> SUFFICES ASSUME AttachmentInv, [AttachmentNext]_attachmentVars PROVE Kept'
  OBVIOUS
<1> USE AttachmentsAssumption
<1>t. /\ changes \in [Changes \cup Purges -> Change] /\ Roles /\ Kept
      /\ \A r \in Changes \cup Purges : changes[r] \in Change
      /\ objects \subseteq Files /\ attachments \in [Files -> {"new", "row", "gone"}]
  BY DEF AttachmentTypeOK, AttachmentInv
<1>1. \* A change takes a step and no object in time comes to be.
      ASSUME NEW r \in Changes, NEW x, changes' = [changes EXCEPT ![r] = x],
             x.step # "unlist" \/ x.file \notin InTime',
             InTime' \subseteq InTime, \A f \in InTime' : Listed(f)'
      PROVE  Kept'
  <2>1. \A p \in Purges : changes'[p] = changes[p]
    BY <1>t, <1>1
  <2>2. \A q \in Changes : changes'[q] = changes[q] \/ changes'[q] = x
    BY <1>t, <1>1
  <2> QED BY <1>t, <1>1, <2>1, <2>2 DEF Kept, Doing
<1>2. ASSUME NEW r \in Changes, NEW s, s # "unlist", Do(r, s) \/ Leaves(r) \/ (\E f \in Files : Take(r, s, f)),
             InTime' \subseteq InTime, \A f \in InTime' : Listed(f)'
      PROVE  Kept'
  <2>1. PICK x : changes' = [changes EXCEPT ![r] = x] /\ x.step # "unlist"
    <3>1. CASE Do(r, s)
      <4> DEFINE x == [changes[r] EXCEPT !.step = s]
      <4>1. x.step = s
        BY <1>t DEF Change
      <4>2. changes' = [changes EXCEPT ![r] = x]
        BY <1>t, <3>1 DEF Do
      <4> QED BY <1>2, <4>1, <4>2
    <3>2. CASE Leaves(r)
      <4>1. changes' = [changes EXCEPT ![r] = NoChange]
        BY <3>2 DEF Leaves
      <4>2. NoChange.step # "unlist"
        BY DEF NoChange
      <4> QED BY <4>1, <4>2
    <3>3. ASSUME NEW f \in Files, Take(r, s, f)
          PROVE  \E x : changes' = [changes EXCEPT ![r] = x] /\ x.step # "unlist"
      <4> DEFINE x == [NoChange EXCEPT !.step = s, !.file = f]
      <4>1. x.step = s
        BY DEF NoChange
      <4>2. changes' = [changes EXCEPT ![r] = x]
        BY <3>3 DEF Take
      <4> QED BY <1>2, <4>1, <4>2
    <3> QED BY <1>2, <3>1, <3>2, <3>3
  <2> QED BY <1>1, <1>2, <2>1
<1>3. UNCHANGED <<attachments, objects, lateFiles>> =>
        InTime' \subseteq InTime /\ \A f \in InTime' : Listed(f)'
  BY <1>t DEF InTime, Listed, Kept
<1>4. ASSUME NEW r \in Changes, NEW f \in Files, Create(r, f) PROVE Kept'
  BY <1>2, <1>3, <1>4 DEF Create
<1>5. ASSUME NEW r \in Changes, NEW f \in Files, NEW s \in {"head", "save", "unstore"}, Begin(r, s, f)
      PROVE  Kept'
  BY <1>2, <1>3, <1>5 DEF Begin
<1>6. ASSUME NEW r \in Changes, NEW s \in {"insert", "save"}, SaveRow(r, s) PROVE Kept'
  <2>1. InTime' = InTime /\ \A f \in InTime' : Listed(f)'
    BY <1>t, <1>6 DEF SaveRow, InTime, Listed, Kept
  <2>2. Do(r, "touch") \/ Leaves(r)
    BY <1>6 DEF SaveRow
  <2> QED BY <1>2, <2>1, <2>2
<1>7. ASSUME NEW r \in Changes, Head(r) PROVE Kept'
  <2>1. (Leaves(r) \/ Do(r, "put")) /\ UNCHANGED <<attachments, objects, lateFiles>>
    BY <1>7 DEF Head
  <2> QED BY <1>2, <1>3, <2>1
<1>8. ASSUME NEW r \in Changes, Put(r) PROVE Kept'
  <2> DEFINE f == changes[r].file
             x == [changes[r] EXCEPT !.step = "touch"]
  <2>1. /\ f \in Files /\ objects' = objects \cup {f}
        /\ lateFiles' = lateFiles \cup {g \in {f} : Deleting(g) \/ ~Listed(g)}
        /\ attachments' = attachments
    BY <1>t, <1>8 DEF Put, Roles, Doing
  <2>2. changes' = [changes EXCEPT ![r] = x] /\ x.step = "touch"
    BY <1>t, <1>8 DEF Put, Do, Change
  <2>3. CASE Deleting(f) \/ ~Listed(f)
    <3>1. InTime' \subseteq InTime /\ \A g \in InTime' : Listed(g)'
      BY <1>t, <2>1, <2>3 DEF InTime, Listed, Kept
    <3> QED BY <1>1, <2>2, <3>1
  <2>4. CASE ~Deleting(f) /\ Listed(f)
    <3>1. \A p \in Purges : Doing(p, "idle") /\ changes'[p] = changes[p]
      BY <1>t, <2>2, <2>4 DEF Deleting
    <3>2. \A q \in Changes : Doing(q, "unlist") => changes[q].file # f
      BY <2>4 DEF Deleting, Doing
    <3>3. InTime' \subseteq InTime \cup {f} /\ \A g \in InTime' : Listed(g)'
      BY <1>t, <2>1, <2>4 DEF InTime, Listed, Kept
    <3>4. \A q \in Changes : changes'[q] = changes[q] \/ (changes'[q] = x /\ x.step # "unlist")
      BY <1>t, <2>2
    <3>5. ASSUME NEW q \in Changes, Doing(q, "unlist")' PROVE changes'[q].file \notin InTime'
      BY <1>t, <3>2, <3>3, <3>4, <3>5 DEF Kept, Doing
    <3> HIDE DEF f, x
    <3>6. ASSUME NEW p \in Purges
          PROVE  ~Doing(p, "objects")' /\ changes'[p].step \notin {"rows", "cipher"}
      BY <3>1 DEF Doing
    <3> QED BY <3>3, <3>5, <3>6 DEF Kept
  <2> QED BY <2>3, <2>4
<1>9. ASSUME NEW r \in Changes, Touched(r) \/ SaveCipher(r) PROVE Kept'
  <2>1. (Leaves(r) \/ Do(r, "retouch")) /\ UNCHANGED <<attachments, objects, lateFiles>>
    BY <1>9 DEF Touched, SaveCipher
  <2> QED BY <1>2, <1>3, <2>1
<1>10. ASSUME NEW r \in Changes, DeleteObject(r) PROVE Kept'
  <2> DEFINE x == [changes[r] EXCEPT !.step = "unlist"]
  <2>1. changes' = [changes EXCEPT ![r] = x] /\ x.file = changes[r].file
    BY <1>t, <1>10 DEF DeleteObject, Do, Change
  <2>2. InTime' = InTime \ {changes[r].file} /\ attachments' = attachments
    BY <1>10 DEF DeleteObject, InTime, Without
  <2>3. \A f \in InTime' : Listed(f)'
    BY <1>t, <2>2 DEF Kept, Listed
  <2> HIDE DEF x
  <2> QED BY <1>1, <2>1, <2>2, <2>3
<1>11. ASSUME NEW r \in Changes, DeleteAttachment(r) PROVE Kept'
  <2>1. changes[r].file \notin InTime /\ InTime' = InTime
    BY <1>t, <1>11 DEF DeleteAttachment, Kept, InTime
  <2>2. \A f \in InTime' : Listed(f)'
    BY <1>t, <1>11, <2>1 DEF DeleteAttachment, Kept, Listed, InTime
  <2> QED BY <1>2, <1>11, <2>1, <2>2 DEF DeleteAttachment
<1>12. \* A purge takes a step.
       ASSUME NEW p \in Purges, NEW x, changes' = [changes EXCEPT ![p] = x],
              InTime' \subseteq InTime, \A f \in InTime' : Listed(f)',
              x.step = "objects" => InTime' \subseteq x.left,
              x.step \in {"rows", "cipher"} => InTime' = {}
       PROVE  Kept'
  <2>1. \A r \in Changes : changes'[r] = changes[r]
    BY <1>t, <1>12
  <2>2. \A q \in Purges : changes'[q] = changes[q] \/ changes'[q] = x
    BY <1>t, <1>12
  <2> QED BY <1>t, <1>12, <2>1, <2>2 DEF Kept, Doing
<1>13. ASSUME NEW p \in Purges, Purge(p) PROVE Kept'
  <2> DEFINE x == [changes[p] EXCEPT !.step = "list"]
  <2>1. changes' = [changes EXCEPT ![p] = x] /\ x.step = "list"
    BY <1>t, <1>13 DEF Purge, Do, Change
  <2>2. UNCHANGED <<attachments, objects, lateFiles>>
    BY <1>13 DEF Purge
  <2> HIDE DEF x
  <2> QED BY <1>3, <1>12, <2>1, <2>2
<1>14. ASSUME NEW p \in Purges, ListAttachments(p) PROVE Kept'
  <2> DEFINE found == {f \in Files : Listed(f)}
             x == [NoChange EXCEPT !.step = AfterList(found), !.listed = found, !.left = found]
  <2>1. changes' = [changes EXCEPT ![p] = x] /\ UNCHANGED <<attachments, objects, lateFiles>>
    BY <1>14 DEF ListAttachments
  <2>2. x.step = AfterList(found) /\ x.left = found
    BY DEF NoChange
  <2>3. InTime \subseteq found
    BY <1>t DEF Kept, InTime
  <2>4. AfterList(found) = "objects" \/ (AfterList(found) = "cipher" /\ found = {})
    BY DEF AfterList
  <2>5. InTime' = InTime
    BY <2>1 DEF InTime
  <2> HIDE DEF x, found
  <2> QED BY <1>3, <1>12, <2>1, <2>2, <2>3, <2>4, <2>5
<1>15. ASSUME NEW p \in Purges, NEW f \in Files, DeleteListedObject(p, f) PROVE Kept'
  <2> DEFINE s == IF changes[p].left = {f} THEN "rows" ELSE "objects"
             x == [changes[p] EXCEPT !.left = @ \ {f}, !.step = s]
  <2>1. changes' = [changes EXCEPT ![p] = x] /\ x.step = s /\ x.left = changes[p].left \ {f}
    BY <1>t, <1>15 DEF DeleteListedObject, Change
  <2>2. /\ InTime' = InTime \ {f} /\ attachments' = attachments
        /\ InTime \subseteq changes[p].left
    BY <1>t, <1>15 DEF DeleteListedObject, InTime, Without, Kept
  <2>3. s = "objects" \/ (s = "rows" /\ changes[p].left = {f})
    OBVIOUS
  <2>4. \A g \in InTime' : Listed(g)'
    BY <1>t, <2>2 DEF Kept, Listed
  <2> HIDE DEF x, s
  <2> QED BY <1>12, <2>1, <2>2, <2>3, <2>4
<1>16. ASSUME NEW p \in Purges, DeleteListedRows(p) PROVE Kept'
  <2> DEFINE x == [changes[p] EXCEPT !.step = "cipher"]
  <2>1. changes' = [changes EXCEPT ![p] = x] /\ x.step = "cipher"
    BY <1>t, <1>16 DEF DeleteListedRows, Do, Change
  <2>2. InTime = {} /\ InTime' = InTime
    BY <1>t, <1>16 DEF DeleteListedRows, Kept, InTime, Doing
  <2> HIDE DEF x
  <2> QED BY <1>12, <2>1, <2>2
<1>17. ASSUME NEW p \in Purges, DeleteCipher(p) PROVE Kept'
  <2>1. InTime = {} /\ InTime' = InTime
    BY <1>t, <1>17 DEF DeleteCipher, Kept, InTime, Doing
  <2> QED BY <1>12, <1>17, <2>1 DEF DeleteCipher, Leaves
<1>18. ASSUME NEW r \in Changes \cup Purges, StopChange(r) PROVE Kept'
  <2>1. changes' = [changes EXCEPT ![r] = NoChange] /\ NoChange.step = "idle"
    BY <1>18 DEF StopChange, Leaves, NoChange
  <2>2. UNCHANGED <<attachments, objects, lateFiles>>
    BY <1>18 DEF StopChange
  <2> QED BY <1>1, <1>3, <1>12, <2>1, <2>2
<1>19. CASE UNCHANGED attachmentVars
  BY <1>t, <1>19 DEF attachmentVars, Kept, InTime, Doing, Listed
<1> QED
  BY <1>4, <1>5, <1>6, <1>7, <1>8, <1>9, <1>10, <1>11, <1>13, <1>14, <1>15, <1>16, <1>17,
     <1>18, <1>19
  DEF AttachmentNext, InsertRow, SaveMetadata

LEMMA AttachmentStepInv == AttachmentInv /\ [AttachmentNext]_attachmentVars => AttachmentInv'
BY AttachmentTypeStep, KeptStep DEF AttachmentInv

\* Tables, objects and requests keep their types; rows have their cipher.
THEOREM AttachmentsTyped == AttachmentSpec => []AttachmentTypeOK
<1>1. AttachmentInv => AttachmentTypeOK
  BY DEF AttachmentInv
<1> QED BY <1>1, AttachmentInitInv, AttachmentStepInv, PTL DEF AttachmentSpec

\* Wherever deletions of attachments and of their cipher stop, an object
\* without a row was stored by an upload that outlasted one.
THEOREM AttachmentOrphans == AttachmentSpec => []AttachmentOrphansAreLate
<1>1. AttachmentInv => AttachmentOrphansAreLate
  BY DEF AttachmentInv, Kept, InTime, AttachmentOrphansAreLate
<1> QED BY <1>1, AttachmentInitInv, AttachmentStepInv, PTL DEF AttachmentSpec

\* The slots bound the uploads of a file: one that finds no object starts from
\* a store count of zero, and each store ends one.
BudgetInv == AttachmentTypeOK /\ Roles /\ \A f \in Files : Budget(f)

LEMMA BudgetStep == BudgetInv /\ [AttachmentNext]_attachmentVars => \A f \in Files : Budget(f)'
<1> SUFFICES ASSUME BudgetInv, [AttachmentNext]_attachmentVars, NEW f \in Files PROVE Budget(f)'
  OBVIOUS
<1> USE AttachmentsAssumption
<1>t. /\ changes \in [Changes \cup Purges -> Change] /\ Roles /\ Budget(f)
      /\ \A r \in Changes \cup Purges : changes[r] \in Change
      /\ stores \in [Files -> Nat] /\ stores[f] \in Nat
  BY DEF BudgetInv, AttachmentTypeOK
<1>c. /\ IsFiniteSet(Putting(f)) /\ Cardinality(Putting(f)) \in Nat /\ Cardinality(Changes) \in Nat
      /\ Cardinality(Putting(f)) <= Cardinality(Changes)
  BY PuttingCounts
<1>d. Cardinality(Putting(f)') \in Nat /\ Cardinality(Putting(f)') <= Cardinality(Changes)
  BY FS_Subset, FS_CardinalityType DEF Putting
<1>1. \* No upload begins to put.
      ASSUME Putting(f)' \subseteq Putting(f), stores'[f] = stores[f],
             f \notin objects' => f \notin objects
      PROVE  Budget(f)'
  <2>1. Cardinality(Putting(f)') <= Cardinality(Putting(f))
    BY <1>1, <1>c, FS_Subset
  <2> QED BY <1>1, <1>t, <1>c, <1>d, <2>1 DEF Budget
<1>2. \* The object of f is deleted.
      ASSUME stores'[f] = 0 PROVE Budget(f)'
  BY <1>2, <1>c, <1>d DEF Budget
<1>3. ASSUME NEW r \in Changes \cup Purges, NEW x, changes' = [changes EXCEPT ![r] = x],
             x.step # "put"
      PROVE  Putting(f)' \subseteq Putting(f)
  BY <1>t, <1>3 DEF Putting, Doing
<1>4. ASSUME NEW r \in Changes \cup Purges, NEW s, s # "put",
             Do(r, s) \/ Leaves(r) \/ (\E g \in Files : Take(r, s, g))
      PROVE  Putting(f)' \subseteq Putting(f)
  <2>1. CASE Do(r, s)
    <3> DEFINE x == [changes[r] EXCEPT !.step = s]
    <3>1. x.step = s
      BY <1>t DEF Change
    <3>2. changes' = [changes EXCEPT ![r] = x]
      BY <1>t, <2>1 DEF Do
    <3> HIDE DEF x
    <3> QED BY <1>3, <1>4, <3>1, <3>2
  <2>2. CASE Leaves(r)
    <3>1. changes' = [changes EXCEPT ![r] = NoChange]
      BY <2>2 DEF Leaves
    <3>2. NoChange.step # "put"
      BY DEF NoChange
    <3> QED BY <1>3, <3>1, <3>2
  <2>3. ASSUME NEW g \in Files, Take(r, s, g) PROVE Putting(f)' \subseteq Putting(f)
    <3> DEFINE x == [NoChange EXCEPT !.step = s, !.file = g]
    <3>1. x.step = s
      BY DEF NoChange
    <3>2. changes' = [changes EXCEPT ![r] = x]
      BY <2>3 DEF Take
    <3> HIDE DEF x
    <3> QED BY <1>3, <1>4, <3>1, <3>2
  <2> QED BY <1>4, <2>1, <2>2, <2>3
<1>5. ASSUME NEW r \in Changes, NEW g \in Files, Create(r, g) PROVE Budget(f)'
  BY <1>1, <1>4, <1>5 DEF Create
<1>6. ASSUME NEW r \in Changes, NEW g \in Files, NEW s \in {"head", "save", "unstore"}, Begin(r, s, g)
      PROVE  Budget(f)'
  BY <1>1, <1>4, <1>6 DEF Begin
<1>7. ASSUME NEW r \in Changes, NEW s \in {"insert", "save"}, SaveRow(r, s) PROVE Budget(f)'
  <2>1. (Do(r, "touch") \/ Leaves(r)) /\ UNCHANGED <<objects, stores>>
    BY <1>7 DEF SaveRow
  <2>2. Putting(f)' \subseteq Putting(f)
    BY <1>4, <2>1
  <2> QED BY <1>1, <2>1, <2>2
<1>8. ASSUME NEW r \in Changes, Head(r) PROVE Budget(f)'
  <2>1. UNCHANGED <<objects, stores>>
    BY <1>8 DEF Head
  <2>2. CASE Leaves(r)
    <3>1. Putting(f)' \subseteq Putting(f)
      BY <1>4, <2>2
    <3> QED BY <1>1, <2>1, <3>1
  <2>3. CASE Do(r, "put") /\ changes[r].file = f /\ f \notin objects
    BY <1>2, <1>t, <2>1, <2>3 DEF Budget
  <2>4. CASE Do(r, "put") /\ changes[r].file # f
    <3>1. Putting(f)' \subseteq Putting(f)
      <4> DEFINE x == [changes[r] EXCEPT !.step = "put"]
      <4>1. x.file # f
        BY <1>t, <2>4 DEF Change
      <4>2. changes' = [changes EXCEPT ![r] = x]
        BY <1>t, <2>4 DEF Do
      <4> HIDE DEF x
      <4> QED BY <1>t, <4>1, <4>2 DEF Putting, Doing
    <3> QED BY <1>1, <2>1, <3>1
  <2> QED BY <1>8, <2>2, <2>3, <2>4 DEF Head, Stored
<1>9. ASSUME NEW r \in Changes, Put(r) PROVE Budget(f)'
  <2> DEFINE x == [changes[r] EXCEPT !.step = "touch"]
  <2>1. changes' = [changes EXCEPT ![r] = x] /\ x.step = "touch"
    BY <1>t, <1>9 DEF Put, Do, Change
  <2>2. Doing(r, "put") /\ changes[r].file \in Files
    BY <1>t, <1>9 DEF Put, Roles, Doing
  <2>3. CASE changes[r].file # f
    <3>1. Putting(f)' \subseteq Putting(f)
      BY <1>3, <2>1
    <3> QED BY <1>1, <1>9, <1>t, <2>2, <2>3, <3>1 DEF Put
  <2>4. CASE changes[r].file = f
    <3>1. stores'[f] = stores[f] + 1 /\ objects' = objects \cup {f}
      BY <1>t, <1>9, <2>4 DEF Put
    <3> HIDE DEF x
    <3>2. r \in Putting(f) /\ Putting(f)' = Putting(f) \ {r}
      BY <1>t, <2>1, <2>2, <2>4 DEF Putting, Doing
    <3>3. Cardinality(Putting(f)') = Cardinality(Putting(f)) - 1
      BY <1>c, <3>2, FS_RemoveElement
    <3> QED BY <1>t, <1>c, <3>1, <3>3 DEF Budget
  <2> QED BY <2>3, <2>4
<1>10. ASSUME NEW r \in Changes, Touched(r) \/ SaveCipher(r) PROVE Budget(f)'
  <2>1. (Do(r, "retouch") \/ Leaves(r)) /\ UNCHANGED <<objects, stores>>
    BY <1>10 DEF Touched, SaveCipher
  <2>2. Putting(f)' \subseteq Putting(f)
    BY <1>4, <2>1
  <2> QED BY <1>1, <2>1, <2>2
<1>11. ASSUME NEW r \in Changes, DeleteObject(r) PROVE Budget(f)'
  <2>1. CASE changes[r].file = f
    BY <1>2, <1>t, <1>11, <2>1 DEF DeleteObject
  <2>2. CASE changes[r].file # f
    <3>1. stores'[f] = stores[f] /\ (f \notin objects' => f \notin objects)
      BY <1>t, <1>11, <2>2 DEF DeleteObject, Without
    <3>2. Putting(f)' \subseteq Putting(f)
      BY <1>4, <1>11 DEF DeleteObject
    <3> QED BY <1>1, <3>1, <3>2
  <2> QED BY <2>1, <2>2
<1>12. ASSUME NEW r \in Changes, DeleteAttachment(r) PROVE Budget(f)'
  BY <1>1, <1>4, <1>12 DEF DeleteAttachment
<1>13. ASSUME NEW p \in Purges, Purge(p) \/ DeleteListedRows(p) \/ DeleteCipher(p) PROVE Budget(f)'
  <2>1. UNCHANGED <<objects, stores>>
    BY <1>13 DEF Purge, DeleteListedRows, DeleteCipher
  <2>2. Do(p, "list") \/ Do(p, "cipher") \/ Leaves(p)
    BY <1>13 DEF Purge, DeleteListedRows, DeleteCipher
  <2>3. Putting(f)' \subseteq Putting(f)
    BY <1>4, <2>2
  <2> QED BY <1>1, <2>1, <2>3
<1>14. ASSUME NEW p \in Purges, ListAttachments(p) PROVE Budget(f)'
  <2> DEFINE found == {g \in Files : Listed(g)}
             x == [NoChange EXCEPT !.step = AfterList(found), !.listed = found, !.left = found]
  <2>1. changes' = [changes EXCEPT ![p] = x] /\ UNCHANGED <<objects, stores>>
    BY <1>14 DEF ListAttachments
  <2>2. x.step # "put"
    BY DEF NoChange, AfterList
  <2> HIDE DEF x, found
  <2>3. Putting(f)' \subseteq Putting(f)
    BY <1>3, <2>1, <2>2
  <2> QED BY <1>1, <2>1, <2>3
<1>15. ASSUME NEW p \in Purges, NEW g \in Files, DeleteListedObject(p, g) PROVE Budget(f)'
  <2> DEFINE s == IF changes[p].left = {g} THEN "rows" ELSE "objects"
             x == [changes[p] EXCEPT !.left = @ \ {g}, !.step = s]
  <2>1. changes' = [changes EXCEPT ![p] = x] /\ x.step # "put"
    BY <1>t, <1>15 DEF DeleteListedObject, Change
  <2> HIDE DEF x
  <2>2. Putting(f)' \subseteq Putting(f)
    BY <1>3, <2>1
  <2>3. CASE g = f
    BY <1>2, <1>t, <1>15, <2>3 DEF DeleteListedObject
  <2>4. CASE g # f
    <3>1. stores'[f] = stores[f] /\ (f \notin objects' => f \notin objects)
      BY <1>t, <1>15, <2>4 DEF DeleteListedObject, Without
    <3> QED BY <1>1, <2>2, <3>1
  <2> QED BY <2>3, <2>4
<1>16. ASSUME NEW r \in Changes \cup Purges, StopChange(r) PROVE Budget(f)'
  BY <1>1, <1>4, <1>16 DEF StopChange
<1>17. CASE UNCHANGED attachmentVars
  BY <1>1, <1>17 DEF attachmentVars, Putting, Doing
<1> QED
  BY <1>5, <1>6, <1>7, <1>8, <1>9, <1>10, <1>11, <1>12, <1>13, <1>14, <1>15, <1>16, <1>17
  DEF AttachmentNext, InsertRow, SaveMetadata

\* A stored file is stored again only by the uploads that were in flight with
\* the first: never more often than there are slots for requests.
THEOREM UploadsAreFew == AttachmentSpec => []UploadsNotRepeated
<1>1. AttachmentInit => BudgetInv
  <2> SUFFICES ASSUME AttachmentInit PROVE BudgetInv
    OBVIOUS
  <2>1. \A f \in Files : stores[f] = 0
    BY DEF AttachmentInit
  <2> QED BY <2>1, AttachmentInitInv, PuttingCounts DEF AttachmentInv, BudgetInv, Budget
<1>2. BudgetInv /\ [AttachmentNext]_attachmentVars => BudgetInv'
  BY AttachmentTypeStep, BudgetStep DEF BudgetInv
<1>3. BudgetInv => UploadsNotRepeated
  <2> SUFFICES ASSUME BudgetInv, NEW f \in Files PROVE stores[f] <= Cardinality(Changes)
    BY DEF UploadsNotRepeated
  <2>1. stores[f] \in Nat /\ Budget(f)
    BY DEF BudgetInv, AttachmentTypeOK
  <2> QED BY <2>1, PuttingCounts DEF Budget
<1> QED BY <1>1, <1>2, <1>3, PTL DEF AttachmentSpec
-----------------------------------------------------------------------------
(* Remote backups.                                                         *)

RunSteps == {"attempt", "attempted", "upload", "verify", "prune", "success", "succeeded",
             "failed", "failing"}

\* What every job looks like when up archives are named.
JobOK(job, up) ==
  /\ job \in Job
  /\ job.file <= up
  /\ job.step = "upload" => job.tries < MaxUploads
  /\ job.step \in {"scan", "pick", "attempt", "attempted"} => job.tries = 0
  /\ job.step \in RunSteps => job.destination \in Destinations
  /\ job.step \in {"scan", "pick"} => job.scheduled

\* As long as none is said to have stalled, no job has been quiet for the ticks
\* that count as a stall.
BackupTyped ==
  /\ today \in Times
  /\ lease \in [holder: Jobs \cup {Nobody, Lost}, left: 0..LeaseTicks]
  /\ heartbeat \in 0..HeartbeatTicks
  /\ jobs \in [Jobs -> Job]
  /\ \A j \in Jobs : JobOK(jobs[j], uploaded)
  /\ runtimes \in Record
  /\ saving = << >> \/ \E record \in Record : saving = <<record>>
  /\ uploaded \in 0..MaxArchives
  /\ remote \in [Destinations -> SUBSET (1..uploaded)]
  /\ stalled \in BOOLEAN
  /\ ~stalled => \A j \in Running : jobs[j].quiet < StallTicks

\* A job in flight holds the lease, and what is left of it outlasts the ticks
\* the job may still be quiet.  A touch that is skipped for being early finds
\* a lease that is not much older than the last one.
LeaseKept ==
  ~stalled => \A j \in Running :
    /\ lease.holder = j
    /\ heartbeat < HeartbeatTicks => lease.left = LeaseTicks - heartbeat
    /\ lease.left + jobs[j].quiet >= StallTicks

Alone == \A i, j \in Running : i = j

\* An archive that a job may still send again or delete.
Tentative(f) == \E j \in Jobs : jobs[j].step \in {"upload", "verify"} /\ jobs[j].file = f

StoredAt(d, n) == n # 0 => /\ n <= uploaded
                           /\ \E g \in remote[d] \ broken : g >= n /\ ~Tentative(g)

RecordStored(record) == \A d \in Destinations : StoredAt(d, record[d].file)

OwnFile(j) ==
  LET job == jobs[j]
  IN  /\ job.file \in {0, uploaded}
      /\ job.step \in {"scan", "pick", "attempt", "attempted", "failed", "failing", "restore"}
           => job.file = 0
      /\ job.step \in {"verify", "prune", "success", "succeeded"} => job.file # 0
      /\ job.step \in {"prune", "success", "succeeded"} => job.file \in remote[job.destination] \ broken

\* What is on record, in the table or in any copy that may be written back, is
\* stored in an archive that no job may still replace; the archive of a job
\* that has checked it is the newest of all.
RecordsKept ==
  "job" \notin mixed => /\ Alone
                        /\ RecordStored(runtimes)
                        /\ saving # << >> => RecordStored(saving[1])
                        /\ \A j \in Running : OwnFile(j) /\ RecordStored(jobs[j].copy)

\* The slots of a destination from one tick up to another have a backup.
Covered(d, from, to) == \A s \in Slots[d] : from <= s /\ s < to => runtimes[d].success >= s

\* A job alone with the record: the slots since its start up to its last scan
\* are served, but for the destinations it has still to visit.
Served(j) ==
  LET job == jobs[j]
  IN  /\ job.begun <= job.scanned /\ job.scanned <= today
      /\ job.step \in {"scan", "pick"} => job.destination = NoDestination
      /\ job.step = "scan" => job.queue = {}
      /\ job.step # "restore"
      /\ \A d \in Destinations \ (job.queue \cup {job.destination}) : Covered(d, job.begun, job.scanned)
      /\ job.step = "attempted" => job.copy = runtimes
      /\ job.step = "succeeded" =>
           /\ \A d \in Destinations \ {job.destination} : job.copy[d] = runtimes[d]
           /\ job.copy[job.destination].success >= job.scanned

SlotsServed ==
  mixed = {} => /\ Alone
                /\ Running # {} => saving = << >>
                /\ \A j \in Running : jobs[j].scheduled /\ ~jobs[j].failure => Served(j)

LEMMA BackupConstants ==
  /\ {Retention, LeaseTicks, HeartbeatTicks, WindowTicks, MaxUploads} \subseteq Nat \ {0}
  /\ {LastTick, MaxJobs, MaxArchives} \subseteq Nat
  /\ StallTicks \in 1..LeaseTicks
  /\ 0 \in Times /\ Times \subseteq Nat /\ Never \in Int
  /\ NoRecord \in Record /\ \A d \in Destinations : NoRecord[d] = Untried
  /\ \A record \in Record, d \in Destinations : /\ record[d].file \in 0..MaxArchives
                                                /\ record[d].success \in Int
<1>1. Untried \in Runtime
  BY BackupAssumption DEF Untried, Runtime, Times
<1> QED
  BY <1>1, BackupAssumption DEF StallTicks, Times, NoRecord, Record, Runtime, Never

LEMMA NoJobOK == \A up \in Nat : JobOK(NoJob, up) /\ NoJob.quiet = 0 /\ NoJob.step = "idle"
BY BackupConstants, BackupAssumption DEF NoJob, JobOK, Job, JobSteps, RunSteps

-----------------------------------------------------------------------------
(* A job becomes another one, and what that does to the lease.             *)
Becomes(j, n) == jobs' = [jobs EXCEPT ![j] = n]

Starts(j) == \E n \in Job :
  /\ Becomes(j, n) /\ JobOK(n, uploaded') /\ n.quiet = 0
  /\ jobs[j].step = "idle" /\ n.step # "idle"
  /\ lease.left = 0 /\ lease' = [holder |-> j, left |-> LeaseTicks] /\ heartbeat' = 0

Advances(j) == \E n \in Job :
  /\ Becomes(j, n) /\ JobOK(n, uploaded') /\ n.quiet = 0
  /\ jobs[j].step # "idle"
  /\ IF n.step = "idle" THEN FinishJob(j) ELSE TouchJob(j)

LEMMA Starting ==
  ASSUME BackupTyped, NEW j \in Jobs, NEW n, JobOK(n, uploaded), n.step # "idle", n.quiet = 0,
         StartJob(j, n)
  PROVE  Starts(j)
BY DEF StartJob, Starts, Becomes, JobOK, JobAt, archiveVars

LEMMA Continuing ==
  ASSUME BackupTyped, NEW j \in Jobs, jobs[j].step # "idle", NEW n, JobOK(n, uploaded'),
         n.step # "idle", Continue(j, n)
  PROVE  Advances(j)
<1> DEFINE m == [n EXCEPT !.quiet = 0]
<1>1. n \in Job
  BY DEF JobOK
<1>2. m \in Job /\ m.quiet = 0 /\ m.step = n.step /\ m.file = n.file /\ m.tries = n.tries
      /\ m.destination = n.destination
  BY <1>1, BackupConstants DEF Job
<1>3. JobOK(m, uploaded')
  BY <1>2 DEF JobOK
<1>4. Becomes(j, m) /\ TouchJob(j)
  BY DEF Continue, Becomes
<1> HIDE DEF m
<1> QED BY <1>2, <1>3, <1>4 DEF Advances

LEMMA Finishing ==
  ASSUME BackupTyped, NEW j \in Jobs, jobs[j].step # "idle", uploaded' = uploaded, FinishJob(j)
  PROVE  Advances(j)
<1>1. uploaded \in Nat
  BY BackupConstants DEF BackupTyped
<1>2. NoJob \in Job /\ JobOK(NoJob, uploaded')
  BY <1>1, NoJobOK DEF JobOK
<1> QED BY <1>1, <1>2, NoJobOK DEF Advances, FinishJob, Becomes

JobAction(j) ==
  \/ RunScheduled(j) \/ RestoreRemote(j) \/ Scan(j)
  \/ \E d \in Destinations : RunManual(j, d) \/ Pick(j, d)
  \/ ReadRecord(j) \/ WriteAttempt(j) \/ Upload(j) \/ Verify(j) \/ VerifyFails(j)
  \/ Prune(j) \/ PruneFails(j) \/ ReadForSuccess(j) \/ WriteSuccess(j)
  \/ FailRun(j) \/ WriteFailure(j) \/ RestoreEnds(j) \/ KeepAlive(j)

LEMMA JobMoves ==
  ASSUME BackupTyped, NEW j \in Jobs, JobAction(j)
  PROVE  Starts(j) \/ Advances(j)
<1> DEFINE job == jobs[j]
<1>0. /\ job \in Job /\ JobOK(job, uploaded) /\ today \in Times /\ runtimes \in Record
      /\ uploaded \in Nat /\ uploaded <= MaxArchives
  BY BackupConstants DEF BackupTyped
<1>m. /\ MaxUploads \in Nat \ {0} /\ 0 \in 0..MaxUploads /\ 0 \in 0..MaxArchives
      /\ NoRecord \in Record
  BY BackupConstants
<1>n. /\ NoJob \in Job /\ NoJob.file = 0 /\ NoJob.tries = 0
  BY NoJobOK DEF NoJob, JobOK
<1> USE DEF JobAt
<1>1. ASSUME RunScheduled(j) PROVE Starts(j)
  <2> DEFINE n == [NoJob EXCEPT !.step = "scan", !.scheduled = TRUE, !.scanned = today, !.begun = today]
  <2>1. JobOK(n, uploaded) /\ n.step = "scan" /\ n.quiet = 0
    BY <1>0, <1>n, NoJobOK DEF JobOK, Job, JobSteps, RunSteps
  <2> HIDE DEF n
  <2> QED BY <1>1, <2>1, Starting DEF RunScheduled, n
<1>2. ASSUME NEW d \in Destinations, RunManual(j, d) PROVE Starts(j)
  <2> DEFINE n == [NoJob EXCEPT !.step = "attempt", !.destination = d]
  <2>1. JobOK(n, uploaded) /\ n.step = "attempt" /\ n.quiet = 0
    BY <1>0, <1>n, NoJobOK DEF JobOK, Job, JobSteps, RunSteps
  <2> HIDE DEF n
  <2> QED BY <1>2, <2>1, Starting DEF RunManual, n
<1>3. ASSUME RestoreRemote(j) PROVE Starts(j)
  <2> DEFINE n == [NoJob EXCEPT !.step = "restore"]
  <2>1. JobOK(n, uploaded) /\ n.step = "restore" /\ n.quiet = 0
    BY <1>0, <1>n, NoJobOK DEF JobOK, Job, JobSteps, RunSteps
  <2> HIDE DEF n
  <2> QED BY <1>3, <2>1, Starting DEF RestoreRemote, n
<1>4. ASSUME Scan(j) PROVE Advances(j)
  <2> DEFINE due == {d \in Destinations : DueNow(d) \/ SlotBetween(d, jobs[j].scanned)}
             n == [job EXCEPT !.step = "pick", !.scanned = today, !.queue = due]
  <2>1. JobOK(n, uploaded) /\ n.step = "pick"
    BY <1>0, <1>4 DEF Scan, JobOK, Job, JobSteps, RunSteps
  <2>2. (due = {} /\ FinishJob(j)) \/ Continue(j, n)
    BY <1>4 DEF Scan
  <2>3. uploaded' = uploaded /\ job.step # "idle"
    BY <1>4 DEF Scan, archiveVars
  <2> HIDE DEF n, due
  <2> QED BY <2>1, <2>2, <2>3, Continuing, Finishing
<1>5. ASSUME NEW d \in Destinations, Pick(j, d) PROVE Advances(j)
  <2> DEFINE n == [job EXCEPT !.step = "attempt", !.destination = d, !.queue = @ \ {d}]
  <2>1. JobOK(n, uploaded) /\ n.step = "attempt"
    BY <1>0, <1>5 DEF Pick, JobOK, Job, JobSteps, RunSteps
  <2>2. Continue(j, n) /\ uploaded' = uploaded /\ job.step # "idle"
    BY <1>5 DEF Pick, archiveVars
  <2> HIDE DEF n
  <2> QED BY <2>1, <2>2, Continuing
<1>6. ASSUME ReadRecord(j) PROVE Advances(j)
  <2> DEFINE n == [job EXCEPT !.copy = runtimes, !.step = IF @ = "attempt" THEN "attempted" ELSE "failing"]
  <2>1. JobOK(n, uploaded) /\ n.step # "idle"
    BY <1>0, <1>6 DEF ReadRecord, JobOK, Job, JobSteps, RunSteps
  <2>2. Continue(j, n) /\ uploaded' = uploaded /\ job.step # "idle"
    BY <1>6 DEF ReadRecord, archiveVars
  <2> HIDE DEF n
  <2> QED BY <2>1, <2>2, Continuing
<1>7. ASSUME WriteAttempt(j) PROVE Advances(j)
  <2> DEFINE n == [job EXCEPT !.step = "upload", !.copy = NoRecord]
  <2>1. JobOK(n, uploaded) /\ n.step # "idle"
    <3>1. job.step = "attempted" /\ job.tries = 0 /\ job.destination \in Destinations /\ job.file <= uploaded
      BY <1>0, <1>7 DEF WriteAttempt, JobOK, RunSteps
    <3>2. n \in Job /\ n.step = "upload" /\ n.tries = 0 /\ n.destination = job.destination /\ n.file = job.file
      BY <1>0, <1>m, <3>1 DEF Job, JobSteps
    <3> HIDE DEF n
    <3> QED BY <1>m, <3>1, <3>2 DEF JobOK
  <2>2. Continue(j, n) /\ uploaded' = uploaded /\ job.step # "idle"
    BY <1>7 DEF WriteAttempt, archiveVars
  <2> HIDE DEF n
  <2> QED BY <2>1, <2>2, Continuing
<1>8. ASSUME Upload(j) PROVE Advances(j)
  <2> DEFINE f == IF job.file = 0 THEN uploaded + 1 ELSE job.file
             n == [job EXCEPT !.step = "verify", !.file = f, !.tries = @ + 1]
  <2>0. job.tries < MaxUploads /\ job.tries \in 0..MaxUploads /\ job.file \in 0..MaxArchives
    BY <1>0, <1>8 DEF Upload, JobOK, Job
  <2>1. f <= uploaded' /\ f \in 0..MaxArchives
    BY <1>0, <1>8, <2>0, BackupConstants DEF Upload, JobOK
  <2>2. job.tries + 1 \in 0..MaxUploads
    BY <2>0, BackupConstants
  <2>3. Continue(j, n) /\ job.step = "upload"
    BY <1>8 DEF Upload
  <2> HIDE DEF f
  <2>4. JobOK(n, uploaded') /\ n.step # "idle"
    BY <1>0, <2>1, <2>2, <2>3 DEF JobOK, Job, JobSteps, RunSteps
  <2> HIDE DEF n
  <2> QED BY <2>3, <2>4, Continuing
<1>9. ASSUME Verify(j) PROVE Advances(j)
  <2> DEFINE n == [job EXCEPT !.step = "prune", !.tries = 0]
  <2>1. JobOK(n, uploaded) /\ n.step # "idle"
    BY <1>0, <1>9, <1>m DEF Verify, JobOK, Job, JobSteps, RunSteps
  <2>2. Continue(j, n) /\ uploaded' = uploaded /\ job.step # "idle"
    BY <1>9 DEF Verify, archiveVars
  <2> HIDE DEF n
  <2> QED BY <2>1, <2>2, Continuing
<1>f. ASSUME Fails(j), uploaded' = uploaded, job.step \in RunSteps PROVE Advances(j)
  <2> DEFINE n == [job EXCEPT !.step = "failed", !.file = 0, !.tries = 0]
  <2>1. JobOK(n, uploaded) /\ n.step # "idle"
    <3>1. job.destination \in Destinations
      BY <1>0, <1>f DEF JobOK
    <3>2. n \in Job /\ n.step = "failed" /\ n.tries = 0 /\ n.file = 0 /\ n.destination = job.destination
      BY <1>0, <1>m DEF Job, JobSteps
    <3> HIDE DEF n
    <3> QED BY <1>0, <3>1, <3>2 DEF JobOK
  <2>2. Continue(j, n) /\ job.step # "idle"
    BY <1>f DEF Fails, RunSteps
  <2> HIDE DEF n
  <2> QED BY <1>f, <2>1, <2>2, Continuing
<1>g. ASSUME NEW s \in JobSteps, GoTo(j, s), uploaded' = uploaded, job.step # "idle",
             JobOK([job EXCEPT !.step = s], uploaded), s # "idle"
      PROVE  Advances(j)
  <2> DEFINE n == [job EXCEPT !.step = s]
  <2>1. n.step = s
    BY <1>0 DEF Job
  <2>2. Continue(j, n)
    BY <1>g DEF GoTo
  <2> HIDE DEF n
  <2>3. JobOK(n, uploaded)
    BY <1>g DEF n
  <2> QED BY <1>g, <2>1, <2>2, <2>3, Continuing
<1>10. ASSUME VerifyFails(j) PROVE Advances(j)
  <2>1. uploaded' = uploaded /\ job.step = "verify" /\ job.step \in RunSteps
    BY <1>10 DEF VerifyFails, RunSteps
  <2>2. CASE MayRepeat(j) /\ GoTo(j, "upload")
    <3>1. JobOK([job EXCEPT !.step = "upload"], uploaded)
      BY <1>0, <2>1, <2>2 DEF JobOK, Job, JobSteps, RunSteps, MayRepeat
    <3> QED BY <1>g, <2>1, <2>2, <3>1 DEF JobSteps
  <2>3. CASE Fails(j)
    BY <1>f, <2>1, <2>3
  <2> QED BY <1>10, <2>2, <2>3 DEF VerifyFails
<1>11. ASSUME Prune(j) \/ PruneFails(j) PROVE Advances(j)
  <2>1. uploaded' = uploaded /\ job.step = "prune" /\ GoTo(j, "success")
    BY <1>11 DEF Prune, PruneFails
  <2>2. JobOK([job EXCEPT !.step = "success"], uploaded)
    BY <1>0, <2>1 DEF JobOK, Job, JobSteps, RunSteps
  <2> QED BY <1>g, <2>1, <2>2 DEF JobSteps
<1>12. ASSUME ReadForSuccess(j) PROVE Advances(j)
  <2> DEFINE r == [success |-> today, file |-> job.file]
             c == [runtimes EXCEPT ![job.destination] = r]
             n == [job EXCEPT !.step = "succeeded", !.copy = c]
  <2>1. r \in Runtime
    BY <1>0 DEF Runtime, Job
  <2>2. c \in Record
    BY <1>0, <2>1 DEF Record
  <2>3. Continue(j, n) /\ uploaded' = uploaded /\ job.step = "success"
    BY <1>12 DEF ReadForSuccess, archiveVars
  <2> HIDE DEF c
  <2>4. JobOK(n, uploaded) /\ n.step # "idle"
    BY <1>0, <2>2, <2>3 DEF JobOK, Job, JobSteps, RunSteps
  <2> HIDE DEF n
  <2> QED BY <2>3, <2>4, Continuing
<1>r. ASSUME NEW failed \in BOOLEAN, NextRun(j, failed), uploaded' = uploaded, job.step # "idle"
      PROVE  Advances(j)
  <2> DEFINE n == [NoJob EXCEPT
         !.step = IF jobs[j].queue = {} THEN "scan" ELSE "pick", !.scheduled = TRUE,
         !.scanned = jobs[j].scanned, !.queue = jobs[j].queue, !.begun = jobs[j].begun,
         !.failure = failed \/ jobs[j].failure]
  <2>1. JobOK(n, uploaded) /\ n.step # "idle"
    BY <1>0, <1>n, NoJobOK, ZenonT(30) DEF JobOK, Job, JobSteps, RunSteps
  <2>2. FinishJob(j) \/ Continue(j, n)
    BY <1>r DEF NextRun
  <2> HIDE DEF n
  <2> QED BY <1>r, <2>1, <2>2, Continuing, Finishing
<1>13. ASSUME WriteSuccess(j) \/ WriteFailure(j) PROVE Advances(j)
  BY <1>13, <1>r DEF WriteSuccess, WriteFailure, archiveVars
<1>14. ASSUME FailRun(j) PROVE Advances(j)
  <2>1. Fails(j) /\ uploaded' = uploaded /\ job.step \in RunSteps
    BY <1>14 DEF FailRun, archiveVars, RunSteps
  <2> QED BY <1>f, <2>1
<1>15. ASSUME RestoreEnds(j) PROVE Advances(j)
  BY <1>15, Finishing DEF RestoreEnds, archiveVars
<1>16. ASSUME KeepAlive(j) PROVE Advances(j)
  <2>1. uploaded' = uploaded /\ job.step # "idle" /\ GoTo(j, job.step) /\ job.step \in JobSteps
    BY <1>0, <1>16 DEF KeepAlive, archiveVars, Job
  <2>2. [job EXCEPT !.step = job.step] = job
    BY <1>0 DEF Job
  <2> QED BY <1>0, <1>g, <2>1, <2>2
<1> QED
  BY <1>1, <1>2, <1>3, <1>4, <1>5, <1>6, <1>7, <1>8, <1>9, <1>10, <1>11, <1>12, <1>13, <1>14,
     <1>15, <1>16
  DEF JobAction

-----------------------------------------------------------------------------
(* Types.                                                                  *)
LEMMA BackupInitTyped == BackupInit => BackupTyped
<1> SUFFICES ASSUME BackupInit PROVE BackupTyped
  OBVIOUS
<1>1. NoJob \in Job /\ JobOK(NoJob, 0) /\ NoJob.step = "idle"
  BY NoJobOK DEF JobOK
<1>2. lease \in [holder: Jobs \cup {Nobody, Lost}, left: 0..LeaseTicks]
  BY BackupConstants DEF BackupInit
<1>3. heartbeat \in 0..HeartbeatTicks
  BY BackupConstants DEF BackupInit
<1>4. jobs \in [Jobs -> Job] /\ (\A j \in Jobs : JobOK(jobs[j], uploaded)) /\ Running = {}
  BY <1>1 DEF BackupInit, Running
<1>5. remote \in [Destinations -> SUBSET (1..uploaded)]
  BY DEF BackupInit
<1>6. today \in Times /\ runtimes \in Record /\ uploaded \in 0..MaxArchives
  BY BackupConstants DEF BackupInit
<1> QED BY <1>2, <1>3, <1>4, <1>5, <1>6 DEF BackupInit, BackupTyped

\* Of the lease and of the heartbeat.
LEMMA TouchTyped ==
  ASSUME BackupTyped, NEW j \in Jobs, TouchJob(j) \/ FinishJob(j)
  PROVE  /\ lease' \in [holder: Jobs \cup {Nobody, Lost}, left: 0..LeaseTicks]
         /\ heartbeat' \in 0..HeartbeatTicks
BY BackupConstants, SMTT(30) DEF BackupTyped, TouchJob, FinishJob, Released, Renewed

\* What a step of a job does besides: files are named one after the other.
LEMMA JobRest ==
  ASSUME BackupTyped, NEW j \in Jobs, JobAction(j)
  PROVE  /\ UNCHANGED <<today, saving, stalled>>
         /\ uploaded' \in uploaded..MaxArchives
         /\ remote' \in [Destinations -> SUBSET (1..uploaded')]
         /\ runtimes' = runtimes \/ runtimes' = jobs[j].copy
<1>1. /\ jobs[j] \in Job /\ JobOK(jobs[j], uploaded) /\ uploaded \in 0..MaxArchives /\ MaxArchives \in Nat
      /\ remote \in [Destinations -> SUBSET (1..uploaded)]
  BY BackupConstants DEF BackupTyped
<1>2. UNCHANGED <<today, saving, stalled>>
  BY DEF JobAction, RunScheduled, RestoreRemote, RunManual, StartJob, Scan, Pick, ReadRecord,
         WriteAttempt, Upload, Verify, VerifyFails, Prune, PruneFails, ReadForSuccess, WriteSuccess,
         FailRun, WriteFailure, RestoreEnds, KeepAlive, otherVars
<1>3. runtimes' = runtimes \/ runtimes' = jobs[j].copy
  BY DEF JobAction, RunScheduled, RestoreRemote, RunManual, StartJob, Scan, Pick, ReadRecord,
         WriteAttempt, Upload, Verify, VerifyFails, Prune, PruneFails, ReadForSuccess, WriteSuccess,
         FailRun, WriteFailure, RestoreEnds, KeepAlive
<1>4. CASE UNCHANGED <<uploaded, remote>>
  BY <1>1, <1>2, <1>3, <1>4
<1>5. CASE Upload(j)
  <2> DEFINE f == IF jobs[j].file = 0 THEN uploaded + 1 ELSE jobs[j].file
  <2>1. uploaded' \in uploaded..MaxArchives
    BY <1>1, <1>5 DEF Upload
  <2>2. f \in 1..uploaded'
    BY <1>1, <1>5 DEF Upload, JobOK, Job
  <2>3. remote' = [remote EXCEPT ![jobs[j].destination] = @ \cup {f}]
    BY <1>5 DEF Upload
  <2> HIDE DEF f
  <2>4. \A d \in Destinations : remote[d] \subseteq 1..uploaded'
    BY <1>1, <2>1
  <2>5. remote' \in [Destinations -> SUBSET (1..uploaded')]
    BY <1>1, <2>2, <2>3, <2>4
  <2> QED BY <1>2, <1>3, <2>1, <2>5
<1>6. CASE VerifyFails(j) \/ Prune(j) \/ PruneFails(j)
  <2>1. uploaded' = uploaded
    BY <1>6 DEF VerifyFails, Prune, PruneFails
  <2>2. remote' \in [Destinations -> SUBSET (1..uploaded)]
    BY <1>1, <1>6 DEF VerifyFails, Prune, PruneFails
  <2> QED BY <1>1, <1>2, <1>3, <2>1, <2>2
<1> QED
  BY <1>4, <1>5, <1>6
  DEF JobAction, RunScheduled, RestoreRemote, RunManual, StartJob, Scan, Pick, ReadRecord,
      WriteAttempt, Verify, ReadForSuccess, WriteSuccess,
      FailRun, WriteFailure, RestoreEnds, KeepAlive, archiveVars

LEMMA JobTyped ==
  ASSUME BackupTyped, NEW j \in Jobs, JobAction(j)
  PROVE  BackupTyped'
<1>1. PICK n \in Job : /\ Becomes(j, n) /\ JobOK(n, uploaded') /\ n.quiet = 0
  BY JobMoves DEF Starts, Advances
<1>2. jobs' \in [Jobs -> Job] /\ \A i \in Jobs : jobs'[i] = IF i = j THEN n ELSE jobs[i]
  BY <1>1 DEF BackupTyped, Becomes
<1>3. uploaded' \in Nat /\ uploaded' \in 0..MaxArchives /\ uploaded <= uploaded' /\ uploaded \in Nat
  BY JobRest, BackupConstants DEF BackupTyped
<1>4. \A i \in Jobs : JobOK(jobs'[i], uploaded')
  <2> SUFFICES ASSUME NEW i \in Jobs, i # j PROVE JobOK(jobs[i], uploaded')
    BY <1>1, <1>2
  <2>1. JobOK(jobs[i], uploaded) /\ jobs[i].file \in Nat
    BY BackupConstants DEF BackupTyped, Job
  <2> QED BY <1>3, <2>1 DEF JobOK
<1>5. /\ lease' \in [holder: Jobs \cup {Nobody, Lost}, left: 0..LeaseTicks]
      /\ heartbeat' \in 0..HeartbeatTicks
  <2>1. CASE Starts(j)
    BY <2>1, BackupConstants DEF Starts
  <2>2. CASE Advances(j)
    BY <2>2, TouchTyped DEF Advances
  <2> QED BY <2>1, <2>2, JobMoves
<1>6. runtimes' \in Record
  BY JobRest, SMTT(30) DEF BackupTyped, Job
<1>7. ~stalled' => \A i \in Running' : jobs'[i].quiet < StallTicks
  <2> SUFFICES ASSUME ~stalled', NEW i \in Jobs, jobs'[i].step # "idle"
               PROVE  jobs'[i].quiet < StallTicks
    BY DEF Running
  <2>1. CASE i = j
    BY <1>1, <1>2, <2>1, BackupConstants
  <2>2. CASE i # j
    BY <1>2, <2>2, JobRest DEF BackupTyped, Running
  <2> QED BY <2>1, <2>2
<1>8. /\ today' \in Times /\ stalled' \in BOOLEAN
      /\ saving' = << >> \/ \E record \in Record : saving' = <<record>>
      /\ remote' \in [Destinations -> SUBSET (1..uploaded')]
  BY JobRest DEF BackupTyped
<1> QED BY <1>2, <1>3, <1>4, <1>5, <1>6, <1>7, <1>8 DEF BackupTyped

LEMMA BackupStepTyped == BackupTyped /\ [BackupNext]_backupVars => BackupTyped'
<1> SUFFICES ASSUME BackupTyped, [BackupNext]_backupVars PROVE BackupTyped'
  OBVIOUS
<1>1. ASSUME NEW j \in Jobs, JobAction(j) PROVE BackupTyped'
  BY <1>1, JobTyped
<1>2. CASE ReadSettings
  BY <1>2 DEF ReadSettings, BackupTyped, Running, archiveVars
<1>3. CASE SaveSettings
  <2>1. saving[1] \in Record
    BY <1>3 DEF SaveSettings, BackupTyped
  <2> QED BY <1>3, <2>1 DEF SaveSettings, BackupTyped, Running, archiveVars
<1>4. CASE Restart
  <2>1. NoJob \in Job /\ JobOK(NoJob, uploaded) /\ NoJob.step = "idle" /\ uploaded \in Nat
    BY NoJobOK, BackupConstants DEF JobOK, BackupTyped
  <2>2. lease' \in [holder: Jobs \cup {Nobody, Lost}, left: 0..LeaseTicks]
    BY <1>4 DEF Restart, BackupTyped
  <2>3. heartbeat' \in 0..HeartbeatTicks
    BY <1>4, BackupConstants DEF Restart
  <2>4. Running' = {}
    BY <1>4, <2>1 DEF Restart, Running
  <2> QED BY <1>4, <2>1, <2>2, <2>3, <2>4 DEF Restart, BackupTyped, archiveVars, otherVars
<1>5. CASE BackupTick
  <2>1. today' \in Times
    BY <1>5, BackupConstants DEF BackupTick, BackupTyped, Times
  <2>2. lease' \in [holder: Jobs \cup {Nobody, Lost}, left: 0..LeaseTicks]
    <3>1. LeaseTicks \in Nat
      BY BackupConstants
    <3>2. lease.left \in 0..LeaseTicks /\ lease.holder \in Jobs \cup {Nobody, Lost}
      BY DEF BackupTyped
    <3>3. (IF lease.left = 0 THEN 0 ELSE lease.left - 1) \in 0..LeaseTicks
      BY <3>1, <3>2
    <3> QED BY <1>5, <3>2, <3>3 DEF BackupTick, BackupTyped
  <2>3. heartbeat' \in 0..HeartbeatTicks
    BY <1>5, BackupConstants, SMTT(30) DEF BackupTick, BackupTyped
  <2>4. ASSUME NEW i \in Jobs
        PROVE  /\ jobs'[i] \in Job /\ JobOK(jobs'[i], uploaded)
               /\ ~stalled' => /\ ~stalled
                               /\ jobs'[i].step # "idle" => jobs'[i].quiet < StallTicks
    <3>1. jobs[i] \in Job /\ JobOK(jobs[i], uploaded)
      BY DEF BackupTyped
    <3>2. CASE i \in Running /\ ~stalled'
      <4>1. ~stalled /\ jobs[i].quiet < StallTicks /\ jobs[i].quiet + 1 # StallTicks
        BY <1>5, <3>2 DEF BackupTick, BackupTyped
      <4>2. jobs[i].quiet + 1 \in 0..LeaseTicks /\ jobs[i].quiet + 1 < StallTicks
        BY <3>1, <4>1, BackupConstants DEF Job
      <4> DEFINE n == [jobs[i] EXCEPT !.quiet = @ + 1]
      <4>3. n \in Job /\ JobOK(n, uploaded) /\ n.quiet = jobs[i].quiet + 1
        BY <3>1, <4>2 DEF Job, JobOK
      <4>4. jobs'[i] = n
        BY <1>5, <3>2 DEF BackupTick
      <4> HIDE DEF n
      <4> QED BY <4>1, <4>2, <4>3, <4>4
    <3>3. CASE ~(i \in Running /\ ~stalled')
      <4>1. jobs'[i] = jobs[i]
        BY <1>5, <3>3 DEF BackupTick
      <4> QED BY <1>5, <3>1, <3>3, <4>1 DEF BackupTick, Running
    <3> QED BY <3>2, <3>3
  <2>5. jobs' \in [Jobs -> Job]
    BY <1>5, <2>4 DEF BackupTick
  <2> QED BY <1>5, <2>1, <2>2, <2>3, <2>4, <2>5 DEF BackupTick, BackupTyped, Running, archiveVars
<1>6. CASE UNCHANGED backupVars
  BY <1>6 DEF backupVars, BackupTyped, Running, archiveVars
<1> QED BY <1>1, <1>2, <1>3, <1>4, <1>5, <1>6 DEF BackupNext, JobAction

\* Clock, lease, jobs and records keep their types whatever jobs, restarts and
\* saves of the settings do beside each other.
THEOREM BackupsTyped == BackupSpec => []BackupTypeOK
<1>1. BackupTyped => BackupTypeOK
  <2> SUFFICES ASSUME BackupTyped PROVE BackupTypeOK
    OBVIOUS
  <2>1. ASSUME NEW j \in Jobs
        PROVE  /\ jobs[j].step \in JobSteps /\ jobs[j].tries \in 0..MaxUploads
               /\ jobs[j].copy \in Record /\ jobs[j].file \in 0..uploaded
    <3>1. jobs[j] \in Job /\ jobs[j].file <= uploaded /\ uploaded \in 0..MaxArchives /\ MaxArchives \in Nat
      BY BackupConstants DEF BackupTyped, JobOK
    <3> QED BY <3>1 DEF Job
  <2> QED BY <2>1 DEF BackupTyped, BackupTypeOK
<1> QED BY <1>1, BackupInitTyped, BackupStepTyped, PTL DEF BackupSpec

-----------------------------------------------------------------------------
(* The lease.                                                              *)
OwnLease == \A j \in Jobs : lease.holder = j /\ lease.left > 0 /\ j \in Running /\ j \in Running' =>
  /\ lease'.holder = j
  /\ lease'.left > lease.left => jobs'[j].quiet = 0 /\ heartbeat' = 0

\* Whatever job takes its next step, the lease of another job in flight stays
\* with it, and only its own touch makes it longer.
THEOREM LeasesEndByTime == BackupSpec => OnlyOwnLeaseEnds
<1>1. ASSUME BackupTyped, [BackupNext]_backupVars PROVE OwnLease
  <2> SUFFICES ASSUME NEW j \in Jobs, lease.holder = j, lease.left > 0, j \in Running, j \in Running'
               PROVE  /\ lease'.holder = j
                      /\ lease'.left > lease.left => jobs'[j].quiet = 0 /\ heartbeat' = 0
    BY DEF OwnLease
  <2>0. lease \in [holder: Jobs \cup {Nobody, Lost}, left: 0..LeaseTicks] /\ jobs \in [Jobs -> Job]
        /\ LeaseTicks \in Nat
    BY <1>1, BackupConstants DEF BackupTyped
  <2>1. ASSUME NEW i \in Jobs, Starts(i) PROVE FALSE
    BY <2>0, <2>1 DEF Starts
  <2>2. ASSUME NEW i \in Jobs, Advances(i)
        PROVE  /\ lease'.holder = j
               /\ lease'.left > lease.left => jobs'[j].quiet = 0 /\ heartbeat' = 0
    <3>1. PICK n \in Job : /\ Becomes(i, n) /\ n.quiet = 0
                           /\ IF n.step = "idle" THEN FinishJob(i) ELSE TouchJob(i)
      BY <2>2 DEF Advances
    <3>2. jobs'[i] = n
      BY <2>0, <3>1 DEF Becomes
    <3>3. CASE n.step = "idle"
      <4>1. i # j
        BY <3>2, <3>3 DEF Running
      <4>2. lease' = lease
        BY <3>1, <3>3, <4>1 DEF FinishJob, Released
      <4> QED BY <2>0, <4>2
    <3>4. CASE TouchJob(i) /\ lease' = lease
      BY <2>0, <3>4
    <3>5. CASE TouchJob(i) /\ lease' # lease
      <4>1. i = j /\ lease' = Renewed /\ heartbeat' = 0
        BY <3>5 DEF TouchJob
      <4>2. lease'.holder = j
        BY <2>0, <4>1 DEF Renewed
      <4> QED BY <3>1, <3>2, <4>1, <4>2
    <3> QED BY <3>1, <3>3, <3>4, <3>5
  <2>3. CASE ReadSettings \/ SaveSettings \/ UNCHANGED backupVars
    <3>1. lease' = lease
      BY <2>3 DEF ReadSettings, SaveSettings, backupVars
    <3> QED BY <2>0, <3>1
  <2>4. CASE Restart
    <3>1. jobs'[j].step = "idle"
      BY <2>4 DEF Restart, NoJob
    <3> QED BY <3>1 DEF Running
  <2>5. CASE BackupTick
    <3>1. lease'.holder = lease.holder /\ lease'.left = lease.left - 1
      BY <2>0, <2>5 DEF BackupTick
    <3> QED BY <2>0, <3>1
  <2>6. CASE \E i \in Jobs : JobAction(i)
    BY <1>1, <2>1, <2>2, <2>6, JobMoves
  <2> QED BY <1>1, <2>3, <2>4, <2>5, <2>6 DEF BackupNext, JobAction
<1>2. ASSUME BackupTyped, [BackupNext]_backupVars PROVE [OwnLease]_backupVars
  BY <1>1, <1>2
<1>3. BackupSpec => [][OwnLease]_backupVars
  BY <1>2, BackupInitTyped, BackupStepTyped, PTL DEF BackupSpec
<1> QED BY <1>3 DEF OnlyOwnLeaseEnds, OwnLease

LEMMA LeaseKeptInit == BackupInit => LeaseKept
BY NoJobOK DEF BackupInit, LeaseKept, Running

LEMMA LeaseKeptStep == BackupTyped /\ LeaseKept /\ [BackupNext]_backupVars => LeaseKept'
<1> SUFFICES ASSUME BackupTyped, LeaseKept, [BackupNext]_backupVars, ~stalled',
                    NEW j \in Jobs, jobs'[j].step # "idle"
             PROVE  /\ lease'.holder = j
                    /\ heartbeat' < HeartbeatTicks => lease'.left = LeaseTicks - heartbeat'
                    /\ lease'.left + jobs'[j].quiet >= StallTicks
  BY DEF LeaseKept, Running
<1> DEFINE Goal == /\ lease'.holder = j
                   /\ heartbeat' < HeartbeatTicks => lease'.left = LeaseTicks - heartbeat'
                   /\ lease'.left + jobs'[j].quiet >= StallTicks
<1>0. /\ LeaseTicks \in Nat \ {0} /\ HeartbeatTicks \in Nat \ {0} /\ HeartbeatTicks <= LeaseTicks
      /\ StallTicks = LeaseTicks - HeartbeatTicks + 1
      /\ lease \in [holder: Jobs \cup {Nobody, Lost}, left: 0..LeaseTicks]
      /\ heartbeat \in 0..HeartbeatTicks /\ jobs \in [Jobs -> Job]
  BY BackupConstants, BackupAssumption DEF BackupTyped, StallTicks
<1>t. ~stalled
  BY JobRest DEF BackupNext, JobAction, ReadSettings, SaveSettings, Restart, BackupTick, backupVars, otherVars
<1>1. ASSUME NEW i \in Running
      PROVE  /\ lease.holder = i /\ lease.left >= 1
             /\ heartbeat < HeartbeatTicks => lease.left = LeaseTicks - heartbeat
             /\ lease.left + jobs[i].quiet >= StallTicks
             /\ jobs[i].quiet \in Nat /\ jobs[i].quiet < StallTicks
  <2>1. jobs[i].quiet \in Nat
    BY <1>0 DEF Running, Job
  <2>2. jobs[i].quiet < StallTicks
    BY <1>t DEF BackupTyped
  <2>3. lease.holder = i /\ lease.left + jobs[i].quiet >= StallTicks
        /\ (heartbeat < HeartbeatTicks => lease.left = LeaseTicks - heartbeat)
    BY <1>t DEF LeaseKept
  <2> QED BY <1>0, <2>1, <2>2, <2>3
<1>2. ASSUME NEW i \in Jobs, Starts(i) PROVE Goal
  <2>1. Running = {}
    BY <1>0, <1>1, <1>2 DEF Starts
  <2>2. PICK n \in Job : Becomes(i, n) /\ n.quiet = 0
    BY <1>2 DEF Starts
  <2>3. i = j
    BY <1>0, <2>1, <2>2 DEF Becomes, Running
  <2>4. jobs'[j].quiet = 0
    BY <1>0, <2>2, <2>3 DEF Becomes
  <2>5. lease'.holder = j /\ lease'.left = LeaseTicks /\ heartbeat' = 0
    BY <1>2, <2>3 DEF Starts
  <2> QED BY <1>0, <2>4, <2>5
<1>3. ASSUME NEW i \in Jobs, Advances(i) PROVE Goal
  <2>1. PICK n \in Job : /\ Becomes(i, n) /\ n.quiet = 0
                         /\ IF n.step = "idle" THEN FinishJob(i) ELSE TouchJob(i)
    BY <1>3 DEF Advances
  <2>2. i \in Running
    BY <1>3 DEF Advances, Running
  <2>3. i = j
    <3>1. i # j => j \in Running
      BY <1>0, <2>1 DEF Becomes, Running
    <3> QED BY <1>1, <2>2, <3>1
  <2>4. jobs'[j] = n /\ n.step # "idle"
    BY <1>0, <2>1, <2>3 DEF Becomes
  <2>5. CASE heartbeat < HeartbeatTicks
    <3>1. lease' = lease /\ heartbeat' = heartbeat
      BY <2>1, <2>4, <2>5 DEF TouchJob
    <3>2. lease.holder = j /\ lease.left = LeaseTicks - heartbeat
      BY <1>1, <2>2, <2>3, <2>5
    <3> QED BY <1>0, <2>1, <2>4, <2>5, <3>1, <3>2
  <2>6. CASE ~(heartbeat < HeartbeatTicks)
    <3>1. lease' = Renewed /\ heartbeat' = 0
      BY <1>1, <2>1, <2>2, <2>4, <2>6 DEF TouchJob
    <3>2. lease'.holder = j /\ lease'.left = LeaseTicks
      BY <1>0, <1>1, <2>2, <2>3, <3>1 DEF Renewed
    <3> QED BY <1>0, <2>1, <2>4, <3>1, <3>2
  <2> QED BY <2>5, <2>6
<1>4. CASE \E i \in Jobs : JobAction(i)
  BY <1>2, <1>3, <1>4, JobMoves
<1>5. CASE ReadSettings \/ SaveSettings \/ UNCHANGED backupVars
  <2>1. UNCHANGED <<lease, heartbeat, jobs>>
    BY <1>5 DEF ReadSettings, SaveSettings, backupVars
  <2> QED BY <1>1, <2>1 DEF Running
<1>6. CASE Restart
  BY <1>6, NoJobOK DEF Restart
<1>7. CASE BackupTick
  <2>1. j \in Running /\ jobs'[j].quiet = jobs[j].quiet + 1
    <3>1. j \in Running
      BY <1>7 DEF BackupTick, Running
    <3>2. jobs'[j] = [jobs[j] EXCEPT !.quiet = @ + 1]
      BY <1>7, <3>1 DEF BackupTick
    <3> QED BY <1>0, <3>1, <3>2 DEF Job
  <2>2. lease'.holder = lease.holder /\ lease'.left = lease.left - 1
    BY <1>0, <1>1, <1>7, <2>1 DEF BackupTick
  <2>3. heartbeat' = IF heartbeat = HeartbeatTicks THEN heartbeat ELSE heartbeat + 1
    BY <1>7 DEF BackupTick
  <2> QED BY <1>0, <1>1, <2>1, <2>2, <2>3
<1>8. \/ \E i \in Jobs : JobAction(i)
      \/ ReadSettings \/ SaveSettings \/ UNCHANGED backupVars \/ Restart \/ BackupTick
  BY DEF BackupNext, JobAction
<1> QED BY <1>4, <1>5, <1>6, <1>7, <1>8

\* For every lease and heartbeat, two jobs are in flight together only after
\* one of them has let StallTicks pass without a touch: a touch that is skipped
\* leaves enough of the lease for the longest wait that is no stall.
THEOREM OverlapsNeedStalls == BackupSpec => []OverlapNeedsStall
<1>1. LeaseKept => OverlapNeedsStall
  <2> SUFFICES ASSUME LeaseKept, ~stalled PROVE ~(Cardinality(Running) > 1)
    BY DEF OverlapNeedsStall
  <2>1. Running \subseteq {lease.holder}
    BY DEF LeaseKept
  <2>2. IsFiniteSet({lease.holder}) /\ Cardinality({lease.holder}) = 1
    BY FS_Singleton
  <2>3. Cardinality(Running) <= 1 /\ Cardinality(Running) \in Nat
    BY <2>1, <2>2, FS_Subset, FS_CardinalityType
  <2> QED BY <2>3
<1> QED BY <1>1, BackupInitTyped, BackupStepTyped, LeaseKeptInit, LeaseKeptStep, PTL DEF BackupSpec

-----------------------------------------------------------------------------
(* What is on record is stored.  After a step, in terms of the new state:  *)
TentativeNext(f) == \E j \in Jobs : jobs'[j].step \in {"upload", "verify"} /\ jobs'[j].file = f

StoredNext(d, n) == n # 0 => /\ n <= uploaded'
                             /\ \E g \in remote'[d] \ broken' : g >= n /\ ~TentativeNext(g)

OwnNext(j) ==
  LET job == jobs'[j]
  IN  /\ job.file \in {0, uploaded'}
      /\ job.step \in {"scan", "pick", "attempt", "attempted", "failed", "failing", "restore"}
           => job.file = 0
      /\ job.step \in {"verify", "prune", "success", "succeeded"} => job.file # 0
      /\ job.step \in {"prune", "success", "succeeded"} => job.file \in remote'[job.destination] \ broken'

CopyNext(record) == \A d \in Destinations : StoredNext(d, record[d].file)

StoredStays == \A d \in Destinations : \A n \in Nat : StoredAt(d, n) => StoredNext(d, n)

KeptBy(j) == StoredStays /\ (jobs'[j].step # "idle" => OwnNext(j) /\ CopyNext(jobs'[j].copy))

LEMMA RecordStays ==
  ASSUME StoredStays, NEW record \in Record, RecordStored(record)
  PROVE  CopyNext(record)
BY BackupConstants DEF StoredStays, RecordStored, CopyNext

LEMMA NoRecordStays == CopyNext(NoRecord)
BY BackupConstants DEF CopyNext, StoredNext, Untried

\* A step that leaves the archives alone, and takes none for its own.
LEMMA QuietStep ==
  ASSUME BackupTyped, NEW j \in Jobs, NEW n, Becomes(j, n), UNCHANGED archiveVars,
         n.step \in {"upload", "verify"} =>
           n.file = 0 \/ (jobs[j].step \in {"upload", "verify"} /\ jobs[j].file = n.file)
  PROVE  StoredStays
<1>1. \A i \in Jobs : jobs'[i] = IF i = j THEN n ELSE jobs[i]
  BY DEF BackupTyped, Becomes
<1>2. ASSUME NEW g, g # 0, TentativeNext(g) PROVE Tentative(g)
  BY <1>1, <1>2 DEF TentativeNext, Tentative
<1>3. \A d \in Destinations : \A g \in remote[d] : g # 0
  BY BackupConstants DEF BackupTyped
<1> QED BY <1>2, <1>3 DEF StoredStays, StoredAt, StoredNext, archiveVars

\* The step of a job that is alone.
LEMMA JobKeepsRecords ==
  ASSUME BackupTyped, RecordStored(runtimes), NEW j \in Jobs, JobAction(j),
         jobs[j].step = "idle" => Running = {},
         jobs[j].step # "idle" => /\ OwnFile(j) /\ RecordStored(jobs[j].copy)
                                  /\ \A i \in Running : i = j
  PROVE  KeptBy(j)
<1> DEFINE job == jobs[j]
           n == jobs'[j]
<1>0. /\ job \in Job /\ JobOK(job, uploaded) /\ jobs \in [Jobs -> Job] /\ runtimes \in Record /\ uploaded \in Nat
      /\ remote \in [Destinations -> SUBSET (1..uploaded)]
  BY BackupConstants DEF BackupTyped
<1>c. ASSUME NEW m, Continue(j, m)
      PROVE  Becomes(j, [m EXCEPT !.quiet = 0]) /\ n = [m EXCEPT !.quiet = 0] /\ Becomes(j, n)
  <2>1. n = [m EXCEPT !.quiet = 0]
    BY <1>0, <1>c DEF Continue
  <2> QED BY <1>c, <2>1 DEF Continue, Becomes
<1>i. ASSUME FinishJob(j), UNCHANGED archiveVars PROVE KeptBy(j)
  <2>1. n = NoJob /\ Becomes(j, n) /\ n.step = "idle"
    BY <1>0, <1>i, NoJobOK DEF FinishJob, Becomes
  <2>2. StoredStays
    BY <1>i, <2>1, QuietStep
  <2> QED BY <2>1, <2>2 DEF KeptBy
<1>s. ASSUME Becomes(j, n), UNCHANGED archiveVars, n.file = 0,
             n.step \notin {"verify", "prune", "success", "succeeded"},
             n.copy \in {NoRecord, runtimes, job.copy}, n.copy = job.copy => job.step # "idle" \/ n.copy = NoRecord
      PROVE  KeptBy(j)
  <2>1. StoredStays
    BY <1>s, QuietStep
  <2>2. OwnNext(j)
    BY <1>s DEF OwnNext
  <2>3. CopyNext(n.copy)
    <3>1. CASE n.copy = NoRecord
      BY <3>1, NoRecordStays
    <3>2. CASE n.copy = runtimes
      BY <1>0, <2>1, <3>2, RecordStays
    <3>3. CASE n.copy = job.copy /\ job.step # "idle"
      BY <1>0, <2>1, <3>3, RecordStays DEF Job
    <3> QED BY <1>s, <3>1, <3>2, <3>3
  <2> QED BY <2>1, <2>2, <2>3 DEF KeptBy
<1> USE DEF JobAt
<1>1. ASSUME NEW m, StartJob(j, m), m.file = 0, m.copy = NoRecord, m.step \in {"scan", "attempt", "restore"}
      PROVE  KeptBy(j)
  <2>1. n = m /\ Becomes(j, n) /\ UNCHANGED archiveVars
    BY <1>0, <1>1 DEF StartJob, Becomes
  <2> QED BY <1>1, <1>s, <2>1
<1>2. CASE RunScheduled(j) \/ RestoreRemote(j) \/ \E d \in Destinations : RunManual(j, d)
  <2>1. CASE RunScheduled(j)
    BY <1>1, <2>1 DEF RunScheduled, NoJob
  <2>2. CASE RestoreRemote(j)
    BY <1>1, <2>2 DEF RestoreRemote, NoJob
  <2>3. ASSUME NEW d \in Destinations, RunManual(j, d) PROVE KeptBy(j)
    BY <1>1, <2>3 DEF RunManual, NoJob
  <2> QED BY <1>2, <2>1, <2>2, <2>3
<1>3. CASE Scan(j)
  <2> DEFINE due == {d \in Destinations : DueNow(d) \/ SlotBetween(d, jobs[j].scanned)}
             m == [job EXCEPT !.step = "pick", !.scanned = today, !.queue = due]
  <2>1. (FinishJob(j) \/ Continue(j, m)) /\ UNCHANGED archiveVars /\ job.step = "scan"
    BY <1>3 DEF Scan
  <2>2. CASE Continue(j, m)
    <3>1. Becomes(j, n) /\ n.step = "pick" /\ n.file = job.file /\ n.copy = job.copy
      BY <1>0, <2>2 DEF Continue, Becomes, Job
    <3>2. job.file = 0
      BY <2>1 DEF OwnFile
    <3> QED BY <1>s, <2>1, <3>1, <3>2
  <2> QED BY <1>i, <2>1, <2>2
<1>4. ASSUME NEW d \in Destinations, Pick(j, d) PROVE KeptBy(j)
  <2>1. Continue(j, [job EXCEPT !.step = "attempt", !.destination = d, !.queue = @ \ {d}])
        /\ UNCHANGED archiveVars /\ job.step = "pick"
    BY <1>4 DEF Pick
  <2>2. Becomes(j, n) /\ n.step = "attempt" /\ n.file = job.file /\ n.copy = job.copy
    BY <1>0, <2>1 DEF Continue, Becomes, Job
  <2>3. job.file = 0
    BY <2>1 DEF OwnFile
  <2> QED BY <1>s, <2>1, <2>2, <2>3
<1>5. CASE ReadRecord(j)
  <2>1. Continue(j, [job EXCEPT !.copy = runtimes, !.step = IF @ = "attempt" THEN "attempted" ELSE "failing"])
        /\ UNCHANGED archiveVars /\ job.step \in {"attempt", "failed"}
    BY <1>5 DEF ReadRecord
  <2>2. Becomes(j, n) /\ n.step \in {"attempted", "failing"} /\ n.file = job.file /\ n.copy = runtimes
    BY <1>0, <2>1 DEF Continue, Becomes, Job
  <2>3. job.file = 0
    BY <2>1 DEF OwnFile
  <2> QED BY <1>s, <2>1, <2>2, <2>3
<1>6. CASE WriteAttempt(j)
  <2>1. Continue(j, [job EXCEPT !.step = "upload", !.copy = NoRecord])
        /\ UNCHANGED archiveVars /\ job.step = "attempted"
    BY <1>6 DEF WriteAttempt
  <2>2. Becomes(j, n) /\ n.step = "upload" /\ n.file = job.file /\ n.copy = NoRecord
    BY <1>0, <2>1 DEF Continue, Becomes, Job
  <2>3. job.file = 0
    BY <2>1 DEF OwnFile
  <2> QED BY <1>s, <2>1, <2>2, <2>3
<1>f. ASSUME Fails(j), UNCHANGED archiveVars, job.step # "idle" PROVE KeptBy(j)
  <2>1. Continue(j, [job EXCEPT !.step = "failed", !.file = 0, !.tries = 0])
    BY <1>f DEF Fails
  <2>2. Becomes(j, n) /\ n.step = "failed" /\ n.file = 0 /\ n.copy = job.copy
    BY <1>0, <2>1 DEF Continue, Becomes, Job
  <2> QED BY <1>f, <1>s, <2>2
<1>7. CASE FailRun(j)
  BY <1>7, <1>f DEF FailRun
<1>8. CASE RestoreEnds(j)
  BY <1>8, <1>i DEF RestoreEnds
<1>9. CASE WriteSuccess(j) \/ WriteFailure(j)
  <2>1. PICK failed \in BOOLEAN : NextRun(j, failed)
    BY <1>9 DEF WriteSuccess, WriteFailure
  <2>2. UNCHANGED archiveVars
    BY <1>9 DEF WriteSuccess, WriteFailure
  <2> DEFINE m == [NoJob EXCEPT
         !.step = IF jobs[j].queue = {} THEN "scan" ELSE "pick", !.scheduled = TRUE,
         !.scanned = jobs[j].scanned, !.queue = jobs[j].queue, !.begun = jobs[j].begun,
         !.failure = failed \/ jobs[j].failure]
  <2>3. CASE Continue(j, m)
    <3>1. Becomes(j, n) /\ n.step \in {"scan", "pick"} /\ n.file = 0 /\ n.copy = NoRecord
      BY <1>0, <2>3 DEF Continue, Becomes, NoJob
    <3> QED BY <1>s, <2>2, <3>1
  <2>4. CASE FinishJob(j)
    BY <1>i, <2>2, <2>4
  <2> QED BY <2>1, <2>3, <2>4 DEF NextRun
<1>10. CASE KeepAlive(j)
  <2>1. Continue(j, [job EXCEPT !.step = job.step]) /\ UNCHANGED archiveVars /\ job.step \in {"upload", "restore"}
    BY <1>10 DEF KeepAlive, GoTo
  <2>2. /\ Becomes(j, n) /\ n.step = job.step /\ n.file = job.file /\ n.copy = job.copy
        /\ n.destination = job.destination
    BY <1>0, <2>1 DEF Continue, Becomes, Job
  <2>3. StoredStays
    BY <2>1, <2>2, QuietStep
  <2>4. OwnNext(j)
    BY <2>1, <2>2 DEF OwnNext, OwnFile, archiveVars
  <2> QED BY <1>0, <2>1, <2>2, <2>3, <2>4, RecordStays DEF KeptBy, Job
<1>11. CASE Verify(j)
  <2>1. /\ Continue(j, [job EXCEPT !.step = "prune", !.tries = 0]) /\ UNCHANGED archiveVars
        /\ job.step = "verify" /\ job.file \in remote[job.destination] \ broken
    BY <1>11 DEF Verify, Verified
  <2>2. /\ Becomes(j, n) /\ n.step = "prune" /\ n.file = job.file /\ n.copy = job.copy
        /\ n.destination = job.destination
    BY <1>0, <2>1 DEF Continue, Becomes, Job
  <2>3. StoredStays
    BY <2>1, <2>2, QuietStep
  <2>4. OwnNext(j)
    BY <2>1, <2>2 DEF OwnNext, OwnFile, archiveVars
  <2> QED BY <1>0, <2>1, <2>2, <2>3, <2>4, RecordStays DEF KeptBy, Job
<1>12. CASE ReadForSuccess(j)
  <2> DEFINE copy == [runtimes EXCEPT ![job.destination] = [success |-> today, file |-> job.file]]
  <2>1. /\ Continue(j, [job EXCEPT !.step = "succeeded", !.copy = copy]) /\ UNCHANGED archiveVars
        /\ job.step = "success"
    BY <1>12 DEF ReadForSuccess
  <2>2. /\ Becomes(j, n) /\ n.step = "succeeded" /\ n.file = job.file /\ n.copy = copy
        /\ n.destination = job.destination
    BY <1>0, <2>1 DEF Continue, Becomes, Job
  <2>3. StoredStays
    BY <2>2, <2>1, QuietStep
  <2>4. OwnNext(j)
    BY <2>1, <2>2 DEF OwnNext, OwnFile, archiveVars
  <2>5. StoredNext(job.destination, job.file)
    <3>1. job.file = uploaded /\ job.file \in remote[job.destination] \ broken
      BY <2>1 DEF OwnFile
    <3>2. ~TentativeNext(job.file)
      <4>1. \A i \in Jobs : i # j => jobs'[i].step = "idle"
        BY <1>0, <2>1, <2>2 DEF Becomes, Running
      <4> QED BY <2>2, <4>1 DEF TentativeNext
    <3> QED BY <1>0, <2>1, <3>1, <3>2 DEF StoredNext, archiveVars
  <2>6. CopyNext(n.copy)
    <3> SUFFICES ASSUME NEW d \in Destinations PROVE StoredNext(d, copy[d].file)
      BY <2>2 DEF CopyNext
    <3>1. CASE d = job.destination
      BY <1>0, <2>5, <3>1 DEF Record
    <3>2. CASE d # job.destination
      BY <1>0, <2>3, <3>2, RecordStays DEF CopyNext, Record
    <3> QED BY <3>1, <3>2
  <2> QED BY <2>3, <2>4, <2>6 DEF KeptBy
<1>13. CASE Upload(j)
  <2> DEFINE f == IF job.file = 0 THEN uploaded + 1 ELSE job.file
  <2>1. /\ Continue(j, [job EXCEPT !.step = "verify", !.file = f, !.tries = @ + 1])
        /\ remote' = [remote EXCEPT ![job.destination] = @ \cup {f}]
        /\ broken' \in {broken \cup {f}, broken \ {f}}
        /\ uploaded' = (IF job.file = 0 THEN uploaded + 1 ELSE uploaded)
        /\ job.step = "upload" /\ job.file \in {0, uploaded}
    BY <1>13 DEF Upload, OwnFile
  <2>2. f = uploaded' /\ f # 0 /\ uploaded <= uploaded'
    BY <1>0, <2>1
  <2>3. \A d \in Destinations : \A g \in remote[d] : ~Tentative(g) => g # f
    BY <1>0, <2>1 DEF Tentative
  <2> HIDE DEF f
  <2>4. Becomes(j, n) /\ n.step = "verify" /\ n.file = f /\ n.copy = job.copy
    BY <1>0, <2>1 DEF Continue, Becomes, Job
  <2>5. ASSUME NEW g, g # f, TentativeNext(g) PROVE Tentative(g)
    BY <1>0, <2>4, <2>5 DEF TentativeNext, Tentative, Becomes
  <2>6. \A d \in Destinations : remote[d] \subseteq remote'[d]
    BY <1>0, <2>1
  <2>7. StoredStays
    <3> SUFFICES ASSUME NEW d \in Destinations, NEW k \in Nat, k # 0, StoredAt(d, k)
                 PROVE  StoredNext(d, k)
      BY DEF StoredStays, StoredNext
    <3>1. PICK g \in remote[d] \ broken : g >= k /\ ~Tentative(g)
      BY DEF StoredAt
    <3>2. g # f
      BY <2>3, <3>1
    <3>3. g \in remote'[d] \ broken' /\ ~TentativeNext(g)
      BY <2>1, <2>5, <2>6, <3>1, <3>2
    <3>4. k <= uploaded'
      <4>1. k <= uploaded /\ uploaded' \in Nat
        BY <1>0, <2>1 DEF StoredAt
      <4> QED BY <1>0, <2>2, <4>1
    <3> QED BY <3>1, <3>3, <3>4 DEF StoredNext
  <2>8. OwnNext(j)
    BY <2>2, <2>4 DEF OwnNext
  <2> QED BY <1>0, <2>1, <2>4, <2>7, <2>8, RecordStays DEF KeptBy, Job
<1>14. CASE VerifyFails(j)
  <2>1. /\ job.step = "verify" /\ UNCHANGED <<uploaded, broken>>
        /\ remote' = remote \/ remote' = [remote EXCEPT ![job.destination] = @ \ {job.file}]
        /\ GoTo(j, "upload") \/ Fails(j)
    BY <1>14 DEF VerifyFails
  <2>2. /\ Becomes(j, n) /\ n.copy = job.copy
        /\ \/ n.step = "upload" /\ n.file = job.file
           \/ n.step = "failed" /\ n.file = 0
    <3>1. CASE GoTo(j, "upload")
      BY <1>0, <3>1 DEF Continue, Becomes, Job, GoTo
    <3>2. CASE Fails(j)
      BY <1>0, <3>2 DEF Continue, Becomes, Job, Fails
    <3> QED BY <2>1, <3>1, <3>2
  <2>3. Tentative(job.file)
    BY <2>1 DEF Tentative
  <2>4. ASSUME NEW g, TentativeNext(g) PROVE Tentative(g)
    BY <1>0, <2>1, <2>2, <2>4 DEF TentativeNext, Tentative, Becomes
  <2>5. \A d \in Destinations : \A g \in remote[d] : g # job.file => g \in remote'[d]
    BY <1>0, <2>1
  <2>6. StoredStays
    BY <2>1, <2>3, <2>4, <2>5 DEF StoredStays, StoredAt, StoredNext
  <2>7. OwnNext(j)
    BY <2>1, <2>2 DEF OwnNext, OwnFile
  <2> QED BY <1>0, <2>1, <2>2, <2>6, <2>7, RecordStays DEF KeptBy, Job
<1>15. CASE Prune(j) \/ PruneFails(j)
  <2> DEFINE d0 == job.destination
             own == job.file
  <2>1. /\ job.step = "prune" /\ UNCHANGED <<uploaded, broken>> /\ GoTo(j, "success")
        /\ own = uploaded /\ own # 0 /\ own \in remote[d0] \ broken /\ d0 \in Destinations
    BY <1>0, <1>15 DEF Prune, PruneFails, OwnFile, JobOK, RunSteps
  <2>2. /\ Becomes(j, n) /\ n.step = "success" /\ n.file = own /\ n.copy = job.copy
        /\ n.destination = d0
    BY <1>0, <2>1 DEF Continue, Becomes, Job, GoTo
  <2>3. Keeps(own, remote[d0], own)
    <3>1. {g \in remote[d0] : g # own /\ (g = own \/ (own # own /\ g > own))} = {}
      OBVIOUS
    <3>2. Retention \in Nat \ {0}
      BY BackupConstants
    <3> QED BY <3>1, <3>2, FS_EmptySet DEF Keeps
  <2>4. own \in remote'[d0] /\ \A d \in Destinations : d # d0 => remote'[d] = remote[d]
    <3>1. CASE Prune(j)
      BY <1>0, <2>1, <2>3, <3>1 DEF Prune
    <3>2. CASE PruneFails(j)
      BY <1>0, <2>1, <2>3, <3>2 DEF PruneFails
    <3> QED BY <1>15, <3>1, <3>2
  <2>5. \A g : ~TentativeNext(g)
    <3>1. \A i \in Jobs : i # j => jobs'[i].step = "idle"
      BY <1>0, <2>1, <2>2 DEF Becomes, Running
    <3> QED BY <2>2, <3>1 DEF TentativeNext
  <2>6. StoredStays
    <3> SUFFICES ASSUME NEW d \in Destinations, NEW k \in Nat, k # 0, StoredAt(d, k)
                 PROVE  StoredNext(d, k)
      BY DEF StoredStays, StoredNext
    <3>1. k <= uploaded
      BY DEF StoredAt
    <3>2. CASE d = d0
      BY <1>0, <2>1, <2>4, <2>5, <3>1, <3>2 DEF StoredNext
    <3>3. CASE d # d0
      BY <1>0, <2>1, <2>4, <2>5, <3>3 DEF StoredNext, StoredAt
    <3> QED BY <3>2, <3>3
  <2>7. OwnNext(j)
    BY <2>1, <2>2, <2>4 DEF OwnNext
  <2> QED BY <1>0, <2>1, <2>2, <2>6, <2>7, RecordStays DEF KeptBy, Job
<1> QED
  BY <1>2, <1>3, <1>4, <1>5, <1>6, <1>7, <1>8, <1>9, <1>10, <1>11, <1>12, <1>13, <1>14, <1>15
  DEF JobAction

LEMMA MixedGrows ==
  ASSUME [BackupNext]_backupVars
  PROVE  /\ mixed \subseteq mixed'
         /\ \A j \in Jobs : JobAction(j) /\ jobs[j].step = "idle" =>
              /\ "job" \notin mixed' => Running = {}
              /\ "save" \notin mixed' => saving = << >>
<1>1. ASSUME NEW j \in Jobs, NEW m, StartJob(j, m)
      PROVE  /\ mixed \subseteq mixed'
             /\ "job" \notin mixed' => Running = {}
             /\ "save" \notin mixed' => saving = << >>
  BY <1>1 DEF StartJob
<1>2. ASSUME NEW j \in Jobs, JobAction(j)
      PROVE  (mixed' = mixed /\ jobs[j].step # "idle") \/ \E m : StartJob(j, m)
  BY <1>2
  DEF JobAction, RunScheduled, RestoreRemote, RunManual, Scan, Pick, ReadRecord, JobAt,
      WriteAttempt, Upload, Verify, VerifyFails, Prune, PruneFails, ReadForSuccess, WriteSuccess,
      FailRun, WriteFailure, RestoreEnds, KeepAlive, otherVars
<1>3. (\A j \in Jobs : ~JobAction(j)) => mixed \subseteq mixed'
  BY DEF BackupNext, JobAction, ReadSettings, SaveSettings, Restart, BackupTick, backupVars, otherVars
<1> QED BY <1>1, <1>2, <1>3

\* Steps of no job leave the archives alone and begin no run.
LEMMA OtherKeepsRecords ==
  ASSUME BackupTyped, ReadSettings \/ SaveSettings \/ Restart \/ BackupTick \/ UNCHANGED backupVars
  PROVE  /\ StoredStays
         /\ UNCHANGED <<uploaded, remote, broken>>
         /\ \A j \in Jobs : jobs'[j].step # "idle" =>
              /\ jobs[j].step # "idle"
              /\ jobs'[j].step = jobs[j].step /\ jobs'[j].file = jobs[j].file
              /\ jobs'[j].copy = jobs[j].copy /\ jobs'[j].destination = jobs[j].destination
<1>1. UNCHANGED <<uploaded, remote, broken>>
  BY DEF ReadSettings, SaveSettings, Restart, BackupTick, backupVars, archiveVars
<1>2. ASSUME NEW j \in Jobs, jobs'[j].step # "idle"
      PROVE  /\ jobs[j].step # "idle"
             /\ jobs'[j].step = jobs[j].step /\ jobs'[j].file = jobs[j].file
             /\ jobs'[j].copy = jobs[j].copy /\ jobs'[j].destination = jobs[j].destination
  <2>1. CASE ReadSettings \/ SaveSettings \/ UNCHANGED backupVars
    BY <1>2, <2>1 DEF ReadSettings, SaveSettings, backupVars
  <2>2. CASE Restart
    BY <1>2, <2>2, NoJobOK DEF Restart
  <2>3. CASE BackupTick
    <3>1. jobs[j] \in Job
      BY DEF BackupTyped
    <3>2. jobs'[j] = jobs[j] \/ jobs'[j] = [jobs[j] EXCEPT !.quiet = @ + 1]
      BY <2>3 DEF BackupTick
    <3> QED BY <1>2, <3>1, <3>2 DEF Job
  <2> QED BY <2>1, <2>2, <2>3
<1>3. ASSUME NEW g, TentativeNext(g) PROVE Tentative(g)
  BY <1>2, <1>3 DEF TentativeNext, Tentative
<1> QED BY <1>1, <1>2, <1>3 DEF StoredStays, StoredAt, StoredNext

LEMMA RecordsKeptInit == BackupInit => RecordsKept
<1> SUFFICES ASSUME BackupInit PROVE RecordsKept
  OBVIOUS
<1>1. Running = {}
  BY NoJobOK DEF BackupInit, Running
<1>2. RecordStored(runtimes)
  BY BackupConstants DEF BackupInit, RecordStored, StoredAt, Untried
<1> QED BY <1>1, <1>2 DEF BackupInit, RecordsKept, Alone

LEMMA RecordsKeptStep == BackupTyped /\ RecordsKept /\ [BackupNext]_backupVars => RecordsKept'
<1> SUFFICES ASSUME BackupTyped, RecordsKept, [BackupNext]_backupVars, "job" \notin mixed'
             PROVE  /\ Alone'
                    /\ RecordStored(runtimes)'
                    /\ (saving # << >> => RecordStored(saving[1]))'
                    /\ \A j \in Jobs : jobs'[j].step # "idle" => OwnFile(j)' /\ RecordStored(jobs[j].copy)'
  BY DEF RecordsKept, Running
<1>0. /\ Alone /\ RecordStored(runtimes) /\ (saving # << >> => RecordStored(saving[1]))
      /\ \A j \in Running : OwnFile(j) /\ RecordStored(jobs[j].copy)
  BY MixedGrows DEF RecordsKept
<1>t. /\ runtimes \in Record /\ jobs \in [Jobs -> Job]
      /\ saving # << >> => saving[1] \in Record
  BY DEF BackupTyped
<1>p. /\ CopyNext(runtimes') => RecordStored(runtimes)'
      /\ CopyNext(saving'[1]) => RecordStored(saving[1])'
      /\ \A j \in Jobs : /\ OwnNext(j) => OwnFile(j)'
                         /\ CopyNext(jobs'[j].copy) => RecordStored(jobs[j].copy)'
  BY DEF CopyNext, RecordStored, StoredNext, StoredAt, TentativeNext, Tentative, OwnNext, OwnFile
<1>1. ASSUME NEW j \in Jobs, JobAction(j)
      PROVE  /\ Alone'
             /\ CopyNext(runtimes') /\ (saving' # << >> => CopyNext(saving'[1]))
             /\ \A i \in Jobs : jobs'[i].step # "idle" => OwnNext(i) /\ CopyNext(jobs'[i].copy)
  <2>1. KeptBy(j)
    <3>1. jobs[j].step = "idle" => Running = {}
      BY <1>1, MixedGrows
    <3>2. jobs[j].step # "idle" => /\ OwnFile(j) /\ RecordStored(jobs[j].copy)
                                   /\ \A i \in Running : i = j
      BY <1>0 DEF Running, Alone
    <3> QED BY <1>0, <1>1, <3>1, <3>2, JobKeepsRecords
  <2>2. \A i \in Jobs : i # j => jobs'[i].step = "idle"
    <3>1. PICK n \in Job : Becomes(j, n)
      BY <1>1, JobMoves DEF Starts, Advances
    <3>2. \A i \in Jobs : i # j => jobs[i].step = "idle"
      BY <1>0, <1>1, MixedGrows DEF Running, Alone
    <3> QED BY <1>t, <3>1, <3>2 DEF Becomes
  <2>3. StoredStays
    BY <2>1 DEF KeptBy
  <2>4. CopyNext(runtimes')
    <3>1. CASE runtimes' = runtimes
      BY <1>0, <1>t, <2>3, <3>1, RecordStays
    <3>2. CASE runtimes' # runtimes
      <4>1. runtimes' = jobs[j].copy /\ jobs[j].copy \in Record
        BY <1>1, <1>t, <3>2, JobRest DEF Job
      <4>2. jobs[j].step # "idle"
        BY <1>1, <3>2
        DEF JobAction, RunScheduled, RestoreRemote, RunManual, StartJob, Scan, Pick, ReadRecord, JobAt,
            WriteAttempt, Upload, Verify, VerifyFails, Prune, PruneFails, ReadForSuccess, WriteSuccess,
            FailRun, WriteFailure, RestoreEnds, KeepAlive
      <4> QED BY <1>0, <2>3, <4>1, <4>2, RecordStays DEF Running
    <3> QED BY <3>1, <3>2
  <2>5. saving' # << >> => CopyNext(saving'[1])
    BY <1>0, <1>1, <1>t, <2>3, JobRest, RecordStays
  <2>6. Alone'
    BY <2>2 DEF Alone, Running
  <2> QED BY <2>1, <2>2, <2>4, <2>5, <2>6 DEF KeptBy
<1>2. ASSUME ReadSettings \/ SaveSettings \/ Restart \/ BackupTick \/ UNCHANGED backupVars
      PROVE  /\ Alone'
             /\ CopyNext(runtimes') /\ (saving' # << >> => CopyNext(saving'[1]))
             /\ \A i \in Jobs : jobs'[i].step # "idle" => OwnNext(i) /\ CopyNext(jobs'[i].copy)
  <2>1. StoredStays
    BY <1>2, OtherKeepsRecords
  <2>2. Alone'
    BY <1>0, <1>2, OtherKeepsRecords DEF Alone, Running
  <2>3. runtimes' = runtimes \/ (saving # << >> /\ runtimes' = saving[1])
    BY <1>2 DEF ReadSettings, SaveSettings, Restart, BackupTick, backupVars
  <2>4. CopyNext(runtimes')
    BY <1>0, <1>t, <2>1, <2>3, RecordStays
  <2>5. saving' = saving \/ saving' = << >> \/ saving' = <<runtimes>>
    BY <1>2 DEF ReadSettings, SaveSettings, Restart, BackupTick, backupVars, otherVars
  <2>6. saving' # << >> => CopyNext(saving'[1])
    BY <1>0, <1>t, <2>1, <2>5, RecordStays
  <2>7. ASSUME NEW i \in Jobs, jobs'[i].step # "idle" PROVE OwnNext(i) /\ CopyNext(jobs'[i].copy)
    <3>1. /\ i \in Running /\ OwnFile(i) /\ RecordStored(jobs[i].copy) /\ jobs[i].copy \in Record
          /\ jobs'[i].copy = jobs[i].copy
      BY <1>0, <1>2, <1>t, <2>7, OtherKeepsRecords DEF Running, Job
    <3>2. OwnNext(i)
      BY <1>2, <2>7, <3>1, OtherKeepsRecords DEF OwnFile, OwnNext
    <3> QED BY <2>1, <3>1, <3>2, RecordStays
  <2> QED BY <2>2, <2>4, <2>6, <2>7
<1>3. \/ \E j \in Jobs : JobAction(j)
      \/ ReadSettings \/ SaveSettings \/ Restart \/ BackupTick \/ UNCHANGED backupVars
  BY DEF BackupNext, JobAction
<1> QED BY <1>1, <1>2, <1>3, <1>p

\* As long as no two jobs met, what is on record as a success can be restored:
\* no upload, refusal, repetition or clean-up of later runs, no save of the
\* settings and no restart leaves a destination without an archive that is
\* whole and as new.  An archive deleted by hand, and a restore that replaces
\* the settings, are left out of the model.
THEOREM RecordsAreStored == BackupSpec => []RecordedIsStored
<1>1. RecordsKept => RecordedIsStored
  BY DEF RecordsKept, RecordedIsStored, RecordStored, StoredAt
<1> QED
  BY <1>1, BackupInitTyped, BackupStepTyped, RecordsKeptInit, RecordsKeptStep, PTL DEF BackupSpec

-----------------------------------------------------------------------------
(* Slots are served.  After a step, in terms of the new state:             *)
CoveredNext(d, from, to) == \A s \in Slots[d] : from <= s /\ s < to => runtimes'[d].success >= s

ServedNext(j) ==
  LET job == jobs'[j]
  IN  /\ job.begun <= job.scanned /\ job.scanned <= today'
      /\ job.step \in {"scan", "pick"} => job.destination = NoDestination
      /\ job.step = "scan" => job.queue = {}
      /\ job.step # "restore"
      /\ \A d \in Destinations \ (job.queue \cup {job.destination}) :
           CoveredNext(d, job.begun, job.scanned)
      /\ job.step = "attempted" => job.copy = runtimes'
      /\ job.step = "succeeded" =>
           /\ \A d \in Destinations \ {job.destination} : job.copy[d] = runtimes'[d]
           /\ job.copy[job.destination].success >= job.scanned

\* What a scan that finds nothing due has seen: the slots since the scan
\* before are served as well, and the one of this tick.
LEMMA NothingDue ==
  ASSUME BackupTyped, NEW j \in Jobs, NEW d \in Destinations, Served(j), JobAt(j, "scan"),
         ~DueNow(d), ~SlotBetween(d, jobs[j].scanned)
  PROVE  \A s \in Slots[d] : jobs[j].begun <= s /\ s <= today => runtimes[d].success >= s
<1>1. /\ Slots[d] \subseteq Nat /\ today \in Nat /\ runtimes[d].success \in Int /\ WindowTicks \in Nat \ {0}
      /\ jobs[j].scanned \in Nat /\ jobs[j].begun \in Nat
  BY BackupConstants, BackupAssumption DEF BackupTyped, Job
<1>2. Covered(d, jobs[j].begun, jobs[j].scanned)
  <2>1. d \notin jobs[j].queue \cup {jobs[j].destination}
    BY BackupAssumption DEF Served, JobAt
  <2> QED BY <2>1 DEF Served
<1> SUFFICES ASSUME NEW s \in Slots[d], jobs[j].begun <= s, s <= today PROVE runtimes[d].success >= s
  OBVIOUS
<1>3. CASE s < jobs[j].scanned
  BY <1>2, <1>3 DEF Covered
<1>4. CASE jobs[j].scanned <= s /\ s < today
  BY <1>1, <1>4 DEF SlotBetween
<1>5. CASE s = today
  <2>1. Midnights[d] \subseteq Nat
    BY BackupConstants, BackupAssumption
  <2> QED BY <1>1, <1>5, <2>1 DEF DueNow, SameDay
<1> QED BY <1>1, <1>3, <1>4, <1>5

\* A scheduled job without a failure keeps its slots served: as long as it is
\* alone the record is what it has read and written itself.
LEMMA JobServes ==
  ASSUME BackupTyped, NEW j \in Jobs, JobAction(j),
         jobs[j].step # "idle" /\ jobs[j].scheduled /\ ~jobs[j].failure => Served(j),
         jobs'[j].step # "idle", jobs'[j].scheduled, ~jobs'[j].failure
  PROVE  ServedNext(j)
<1> DEFINE job == jobs[j]
           n == jobs'[j]
<1>0. /\ job \in Job /\ JobOK(job, uploaded) /\ jobs \in [Jobs -> Job] /\ runtimes \in Record
      /\ today \in Nat /\ job.scanned \in Nat /\ job.begun \in Nat /\ today' = today
  BY BackupConstants, JobRest DEF BackupTyped, Job
<1>s. ASSUME job.scheduled, ~job.failure, job.step # "idle" PROVE Served(j)
  BY <1>s
<1>k. ASSUME job.step # "idle", runtimes' = runtimes, n.scheduled = job.scheduled, n.failure = job.failure,
             n.begun = job.begun, n.scanned = job.scanned, n.destination = job.destination,
             n.queue = job.queue, n.step \notin {"scan", "pick", "attempted", "succeeded"},
             n.step = "restore" => job.step = "restore"
      PROVE  ServedNext(j)
  BY <1>0, <1>k, <1>s DEF Served, ServedNext, Covered, CoveredNext
<1> USE DEF JobAt
<1>1. CASE RunScheduled(j)
  <2>1. /\ n = [NoJob EXCEPT !.step = "scan", !.scheduled = TRUE, !.scanned = today, !.begun = today]
        /\ runtimes' = runtimes
    BY <1>0, <1>1 DEF RunScheduled, StartJob
  <2>2. n.step = "scan" /\ n.scanned = today /\ n.begun = today /\ n.queue = {} /\ n.destination = NoDestination
    BY <2>1 DEF NoJob
  <2>3. \A d \in Destinations : CoveredNext(d, n.begun, n.scanned)
    <3>1. \A d \in Destinations : Slots[d] \subseteq Nat
      BY BackupAssumption
    <3> QED BY <1>0, <2>2, <3>1 DEF CoveredNext
  <2> QED BY <1>0, <2>2, <2>3 DEF ServedNext
<1>2. CASE RestoreRemote(j)
  <2>1. n = [NoJob EXCEPT !.step = "restore"]
    BY <1>0, <1>2 DEF RestoreRemote, StartJob
  <2>2. ~n.scheduled
    BY <2>1 DEF NoJob
  <2> QED BY <2>2
<1>3. ASSUME NEW d \in Destinations, RunManual(j, d) PROVE ServedNext(j)
  <2>1. n = [NoJob EXCEPT !.step = "attempt", !.destination = d]
    BY <1>0, <1>3 DEF RunManual, StartJob
  <2>2. ~n.scheduled
    BY <2>1 DEF NoJob
  <2> QED BY <2>2
<1>4. CASE Scan(j)
  <2> DEFINE due == {d \in Destinations : DueNow(d) \/ SlotBetween(d, jobs[j].scanned)}
             m == [job EXCEPT !.step = "pick", !.scanned = today, !.queue = due]
  <2>1. Continue(j, m) /\ runtimes' = runtimes /\ job.step = "scan"
    BY <1>0, <1>4, NoJobOK DEF Scan, FinishJob
  <2>2. /\ n.step = "pick" /\ n.scanned = today /\ n.begun = job.begun /\ n.queue = due
        /\ n.destination = job.destination /\ n.scheduled = job.scheduled /\ n.failure = job.failure
    BY <1>0, <2>1 DEF Continue, Job
  <2>3. Served(j)
    BY <1>s, <2>1, <2>2
  <2>4. ASSUME NEW d \in Destinations, d \notin due PROVE CoveredNext(d, n.begun, n.scanned)
    <3>1. \A s \in Slots[d] : job.begun <= s /\ s <= today => runtimes[d].success >= s
      BY <2>1, <2>3, <2>4, NothingDue
    <3>2. Slots[d] \subseteq Nat
      BY BackupAssumption
    <3> QED BY <1>0, <2>1, <2>2, <3>1, <3>2 DEF CoveredNext
  <2>5. job.begun <= job.scanned /\ job.scanned <= today /\ job.destination = NoDestination
    BY <2>1, <2>3 DEF Served
  <2> HIDE DEF due, m
  <2> QED BY <1>0, <2>2, <2>4, <2>5 DEF ServedNext
<1>5. ASSUME NEW d \in Destinations, Pick(j, d) PROVE ServedNext(j)
  <2> DEFINE m == [job EXCEPT !.step = "attempt", !.destination = d, !.queue = @ \ {d}]
  <2>1. Continue(j, m) /\ runtimes' = runtimes /\ job.step = "pick"
    BY <1>5 DEF Pick
  <2>2. /\ n.step = "attempt" /\ n.scanned = job.scanned /\ n.begun = job.begun /\ n.queue = job.queue \ {d}
        /\ n.destination = d /\ n.scheduled = job.scheduled /\ n.failure = job.failure
    BY <1>0, <2>1 DEF Continue, Job
  <2>3. Served(j) /\ job.destination = NoDestination
    BY <1>s, <2>1, <2>2 DEF Served
  <2>4. ASSUME NEW e \in Destinations \ (n.queue \cup {n.destination})
        PROVE  CoveredNext(e, n.begun, n.scanned)
    <3>1. e \in Destinations \ (job.queue \cup {job.destination})
      BY <2>2, <2>3, BackupAssumption
    <3> QED BY <2>1, <2>2, <2>3, <3>1 DEF Served, Covered, CoveredNext
  <2> QED BY <1>0, <2>2, <2>3, <2>4 DEF Served, ServedNext
<1>6. CASE ReadRecord(j)
  <2> DEFINE m == [job EXCEPT !.copy = runtimes, !.step = IF @ = "attempt" THEN "attempted" ELSE "failing"]
  <2>1. Continue(j, m) /\ runtimes' = runtimes /\ job.step \in {"attempt", "failed"}
    BY <1>6 DEF ReadRecord
  <2>2. /\ n.step \in {"attempted", "failing"} /\ n.scanned = job.scanned /\ n.begun = job.begun
        /\ n.queue = job.queue /\ n.copy = runtimes
        /\ n.destination = job.destination /\ n.scheduled = job.scheduled /\ n.failure = job.failure
    BY <1>0, <2>1 DEF Continue, Job
  <2>3. Served(j)
    BY <1>s, <2>1, <2>2
  <2> QED BY <1>0, <2>1, <2>2, <2>3 DEF Served, ServedNext, Covered, CoveredNext
<1>7. CASE WriteAttempt(j)
  <2> DEFINE m == [job EXCEPT !.step = "upload", !.copy = NoRecord]
  <2>1. Continue(j, m) /\ runtimes' = job.copy /\ job.step = "attempted"
    BY <1>7 DEF WriteAttempt
  <2>2. /\ n.step = "upload" /\ n.scanned = job.scanned /\ n.begun = job.begun /\ n.queue = job.queue
        /\ n.destination = job.destination /\ n.scheduled = job.scheduled /\ n.failure = job.failure
    BY <1>0, <2>1 DEF Continue, Job
  <2>3. runtimes' = runtimes
    BY <1>s, <2>1, <2>2 DEF Served
  <2> QED BY <1>k, <2>1, <2>2, <2>3
<1>8. CASE Upload(j)
  <2> DEFINE f == IF job.file = 0 THEN uploaded + 1 ELSE job.file
             m == [job EXCEPT !.step = "verify", !.file = f, !.tries = @ + 1]
  <2>1. Continue(j, m) /\ runtimes' = runtimes /\ job.step = "upload"
    BY <1>8 DEF Upload
  <2> HIDE DEF f
  <2>2. /\ n.step = "verify" /\ n.scanned = job.scanned /\ n.begun = job.begun /\ n.queue = job.queue
        /\ n.destination = job.destination /\ n.scheduled = job.scheduled /\ n.failure = job.failure
    BY <1>0, <2>1 DEF Continue, Job
  <2> QED BY <1>k, <2>1, <2>2
<1>9. CASE Verify(j)
  <2> DEFINE m == [job EXCEPT !.step = "prune", !.tries = 0]
  <2>1. Continue(j, m) /\ runtimes' = runtimes /\ job.step = "verify"
    BY <1>9 DEF Verify
  <2>2. /\ n.step = "prune" /\ n.scanned = job.scanned /\ n.begun = job.begun /\ n.queue = job.queue
        /\ n.destination = job.destination /\ n.scheduled = job.scheduled /\ n.failure = job.failure
    BY <1>0, <2>1 DEF Continue, Job
  <2> QED BY <1>k, <2>1, <2>2
<1>f. ASSUME Fails(j), runtimes' = runtimes, job.step # "idle" PROVE ServedNext(j)
  <2> DEFINE m == [job EXCEPT !.step = "failed", !.file = 0, !.tries = 0]
  <2>1. Continue(j, m)
    BY <1>f DEF Fails
  <2>2. /\ n.step = "failed" /\ n.scanned = job.scanned /\ n.begun = job.begun /\ n.queue = job.queue
        /\ n.destination = job.destination /\ n.scheduled = job.scheduled /\ n.failure = job.failure
    BY <1>0, <2>1 DEF Continue, Job
  <2> QED BY <1>f, <1>k, <2>2
<1>g. ASSUME NEW s \in {"upload", "success", "restore"}, GoTo(j, s), runtimes' = runtimes, job.step # "idle",
             s = "restore" => job.step = "restore"
      PROVE  ServedNext(j)
  <2> DEFINE m == [job EXCEPT !.step = s]
  <2>1. Continue(j, m)
    BY <1>g DEF GoTo
  <2>2. /\ n.step = s /\ n.scanned = job.scanned /\ n.begun = job.begun /\ n.queue = job.queue
        /\ n.destination = job.destination /\ n.scheduled = job.scheduled /\ n.failure = job.failure
    BY <1>0, <2>1 DEF Continue, Job
  <2> QED BY <1>g, <1>k, <2>2
<1>10. CASE VerifyFails(j) \/ FailRun(j)
  <2>1. (GoTo(j, "upload") \/ Fails(j)) /\ runtimes' = runtimes /\ job.step # "idle"
    BY <1>10 DEF VerifyFails, FailRun
  <2> QED BY <1>f, <1>g, <2>1
<1>11. CASE Prune(j) \/ PruneFails(j)
  <2>1. GoTo(j, "success") /\ runtimes' = runtimes /\ job.step # "idle"
    BY <1>11 DEF Prune, PruneFails
  <2> QED BY <1>g, <2>1
<1>12. CASE ReadForSuccess(j)
  <2> DEFINE copy == [runtimes EXCEPT ![job.destination] = [success |-> today, file |-> job.file]]
             m == [job EXCEPT !.step = "succeeded", !.copy = copy]
  <2>1. Continue(j, m) /\ runtimes' = runtimes /\ job.step = "success"
    BY <1>12 DEF ReadForSuccess
  <2>2. /\ n.step = "succeeded" /\ n.scanned = job.scanned /\ n.begun = job.begun
        /\ n.queue = job.queue /\ n.copy = copy
        /\ n.destination = job.destination /\ n.scheduled = job.scheduled /\ n.failure = job.failure
    BY <1>0, <2>1 DEF Continue, Job
  <2>3. Served(j) /\ job.scanned <= today
    BY <1>s, <2>1, <2>2 DEF Served
  <2>4. job.destination \in Destinations
    BY <1>0, <2>1 DEF JobOK, RunSteps
  <2>5. /\ copy[job.destination].success = today
        /\ \A d \in Destinations \ {job.destination} : copy[d] = runtimes[d]
    BY <1>0, <2>4 DEF Record
  <2> HIDE DEF copy
  <2> QED BY <1>0, <2>1, <2>2, <2>3, <2>5 DEF Served, ServedNext, Covered, CoveredNext
<1>13. CASE WriteSuccess(j) \/ WriteFailure(j)
  <2>1. PICK failed \in BOOLEAN : NextRun(j, failed) /\ (failed \/ WriteSuccess(j))
    BY <1>13 DEF WriteSuccess, WriteFailure
  <2> DEFINE m == [NoJob EXCEPT
         !.step = IF jobs[j].queue = {} THEN "scan" ELSE "pick", !.scheduled = TRUE,
         !.scanned = jobs[j].scanned, !.queue = jobs[j].queue, !.begun = jobs[j].begun,
         !.failure = failed \/ jobs[j].failure]
  <2>2. ~FinishJob(j)
    BY <1>0, NoJobOK DEF FinishJob
  <2>3. Continue(j, m) /\ job.scheduled
    BY <2>1, <2>2 DEF NextRun
  <2>4. /\ n.step = (IF job.queue = {} THEN "scan" ELSE "pick") /\ n.scanned = job.scanned
        /\ n.begun = job.begun /\ n.queue = job.queue /\ n.destination = NoDestination
        /\ n.failure = (failed \/ job.failure)
    BY <1>0, <2>3 DEF Continue, NoJob
  <2>5. /\ WriteSuccess(j) /\ job.step = "succeeded" /\ runtimes' = job.copy /\ ~job.failure
    BY <2>1, <2>4 DEF WriteSuccess
  <2>6. Served(j)
    BY <1>s, <2>3, <2>5
  <2>7. ASSUME NEW d \in Destinations \ job.queue PROVE CoveredNext(d, n.begun, n.scanned)
    <3>1. CASE d = job.destination
      <4>1. job.copy[d].success >= job.scanned
        BY <2>5, <2>6, <3>1 DEF Served
      <4>2. job.copy[d].success \in Int /\ Slots[d] \subseteq Nat
        BY <1>0, BackupConstants, BackupAssumption DEF Job
      <4> QED BY <1>0, <2>4, <2>5, <4>1, <4>2 DEF CoveredNext
    <3>2. CASE d # job.destination
      <4>1. job.copy[d] = runtimes[d] /\ Covered(d, job.begun, job.scanned)
        BY <2>5, <2>6, <3>2 DEF Served
      <4> QED BY <2>4, <2>5, <4>1 DEF Covered, CoveredNext
    <3> QED BY <3>1, <3>2
  <2>8. job.begun <= job.scanned /\ job.scanned <= today
    BY <2>6 DEF Served
  <2> QED BY <1>0, <2>4, <2>7, <2>8 DEF ServedNext
<1>14. CASE RestoreEnds(j)
  BY <1>0, <1>14, NoJobOK DEF RestoreEnds, FinishJob
<1>15. CASE KeepAlive(j)
  <2>1. GoTo(j, job.step) /\ job.step \in {"upload", "restore"} /\ runtimes' = runtimes
    BY <1>15 DEF KeepAlive
  <2> QED BY <1>g, <2>1
<1> QED
  BY <1>1, <1>2, <1>3, <1>4, <1>5, <1>6, <1>7, <1>8, <1>9, <1>10, <1>11, <1>12, <1>13, <1>14, <1>15
  DEF JobAction

LEMMA SlotsServedInit == BackupInit => SlotsServed
<1> SUFFICES ASSUME BackupInit PROVE SlotsServed
  OBVIOUS
<1>1. Running = {}
  BY NoJobOK DEF BackupInit, Running
<1> QED BY <1>1 DEF SlotsServed, Alone

LEMMA SlotsServedStep == BackupTyped /\ SlotsServed /\ [BackupNext]_backupVars => SlotsServed'
<1> SUFFICES ASSUME BackupTyped, SlotsServed, [BackupNext]_backupVars, mixed' = {}
             PROVE  /\ Alone'
                    /\ Running' # {} => saving' = << >>
                    /\ \A j \in Jobs : jobs'[j].step # "idle" /\ jobs'[j].scheduled /\ ~jobs'[j].failure
                                         => Served(j)'
  BY DEF SlotsServed, Running
<1>0. /\ mixed = {} /\ Alone /\ (Running # {} => saving = << >>)
      /\ \A j \in Jobs : jobs[j].step # "idle" /\ jobs[j].scheduled /\ ~jobs[j].failure => Served(j)
  BY MixedGrows DEF SlotsServed, Running
<1>t. jobs \in [Jobs -> Job] /\ today \in Nat
  BY BackupConstants DEF BackupTyped
<1>p. \A j \in Jobs : ServedNext(j) => Served(j)'
  BY DEF Served, ServedNext, Covered, CoveredNext
<1>1. ASSUME NEW j \in Jobs, JobAction(j)
      PROVE  /\ Alone'
             /\ Running' # {} => saving' = << >>
             /\ \A i \in Jobs : jobs'[i].step # "idle" /\ jobs'[i].scheduled /\ ~jobs'[i].failure
                                  => Served(i)'
  <2>1. \A i \in Jobs : i # j => jobs'[i].step = "idle"
    <3>1. PICK n \in Job : Becomes(j, n)
      BY <1>1, JobMoves DEF Starts, Advances
    <3>2. \A i \in Jobs : i # j => jobs[i].step = "idle"
      BY <1>0, <1>1, MixedGrows DEF Running, Alone
    <3> QED BY <1>t, <3>1, <3>2 DEF Becomes
  <2>2. saving = << >>
    BY <1>0, <1>1, MixedGrows DEF Running
  <2>3. saving' = saving
    BY <1>1, JobRest
  <2>4. jobs'[j].step # "idle" /\ jobs'[j].scheduled /\ ~jobs'[j].failure => Served(j)'
    BY <1>0, <1>1, <1>p, JobServes
  <2> QED BY <2>1, <2>2, <2>3, <2>4 DEF Alone, Running
<1>2. ASSUME NEW j \in Jobs, ReadSettings \/ SaveSettings \/ Restart \/ BackupTick \/ UNCHANGED backupVars,
             jobs'[j].step # "idle"
      PROVE  /\ saving' = << >> /\ jobs[j].step # "idle"
             /\ jobs'[j].scheduled /\ ~jobs'[j].failure => Served(j)'
  <2>1. jobs[j].step # "idle" /\ saving = << >>
    BY <1>0, <1>2, OtherKeepsRecords DEF Running
  <2>2. CASE ReadSettings
    BY <1>2, <2>1, <2>2 DEF ReadSettings, Running
  <2>3. CASE SaveSettings
    BY <2>1, <2>3 DEF SaveSettings
  <2>4. CASE Restart
    BY <1>2, <2>4, NoJobOK DEF Restart
  <2>5. CASE BackupTick
    <3>1. jobs'[j] = jobs[j] \/ jobs'[j] = [jobs[j] EXCEPT !.quiet = @ + 1]
      BY <2>5 DEF BackupTick
    <3>2. /\ jobs'[j].step = jobs[j].step /\ jobs'[j].scheduled = jobs[j].scheduled
          /\ jobs'[j].failure = jobs[j].failure /\ jobs'[j].begun = jobs[j].begun
          /\ jobs'[j].scanned = jobs[j].scanned /\ jobs'[j].queue = jobs[j].queue
          /\ jobs'[j].destination = jobs[j].destination /\ jobs'[j].copy = jobs[j].copy
          /\ jobs[j].scanned \in Nat
      BY <1>t, <3>1, BackupConstants DEF Job
    <3>3. saving' = << >> /\ runtimes' = runtimes /\ today' = today + 1
      BY <2>1, <2>5 DEF BackupTick
    <3>4. ASSUME Served(j) PROVE ServedNext(j)
      <4>1. jobs[j].scanned <= today'
        BY <1>t, <3>2, <3>3, <3>4 DEF Served
      <4> QED BY <3>2, <3>3, <3>4, <4>1 DEF Served, ServedNext, Covered, CoveredNext
    <3> QED BY <1>0, <1>p, <2>1, <3>2, <3>3, <3>4
  <2>6. CASE UNCHANGED backupVars
    <3>1. Served(j) => ServedNext(j)
      BY <2>6 DEF backupVars, Served, ServedNext, Covered, CoveredNext
    <3> QED BY <1>0, <1>p, <2>1, <2>6, <3>1 DEF backupVars
  <2> QED BY <1>2, <2>2, <2>3, <2>4, <2>5, <2>6
<1>3. \/ \E j \in Jobs : JobAction(j)
      \/ ReadSettings \/ SaveSettings \/ Restart \/ BackupTick \/ UNCHANGED backupVars
  BY DEF BackupNext, JobAction
<1>4. CASE ReadSettings \/ SaveSettings \/ Restart \/ BackupTick \/ UNCHANGED backupVars
  BY <1>0, <1>2, <1>4 DEF Alone, Running
<1> QED BY <1>1, <1>3, <1>4

SlotsKept ==
  \A j \in Jobs :
    Scan(j) /\ jobs'[j].step = "idle" /\ ~jobs[j].failure /\ mixed = {} =>
      \A d \in Destinations : \A s \in Slots[d] :
        jobs[j].begun <= s /\ s <= today => runtimes[d].success >= s

\* A scheduled job that ends after runs that all went well, alone from its
\* start to its end, leaves no slot of that time without a backup, however
\* long a run kept it from the other destinations.
THEOREM NoSlotIsLost == BackupSpec => NoSlotLost
<1>1. ASSUME BackupTyped, SlotsServed PROVE SlotsKept
  <2> SUFFICES ASSUME NEW j \in Jobs, Scan(j), jobs'[j].step = "idle", ~jobs[j].failure, mixed = {},
                      NEW d \in Destinations
               PROVE  \A s \in Slots[d] :
                        jobs[j].begun <= s /\ s <= today => runtimes[d].success >= s
    BY DEF SlotsKept
  <2> DEFINE due == {e \in Destinations : DueNow(e) \/ SlotBetween(e, jobs[j].scanned)}
             m == [jobs[j] EXCEPT !.step = "pick", !.scanned = today, !.queue = due]
  <2>1. jobs[j] \in Job /\ jobs \in [Jobs -> Job] /\ JobOK(jobs[j], uploaded) /\ jobs[j].step = "scan"
    BY <1>1 DEF BackupTyped, Scan, JobAt
  <2>2. ~Continue(j, m)
    BY <2>1 DEF Continue, Job
  <2>3. due = {}
    BY <2>2 DEF Scan
  <2>4. Served(j)
    BY <1>1, <2>1 DEF SlotsServed, Running, JobOK
  <2> QED BY <1>1, <2>1, <2>3, <2>4, NothingDue DEF JobAt
<1>2. ASSUME BackupTyped, SlotsServed, [BackupNext]_backupVars PROVE [SlotsKept]_backupVars
  BY <1>1, <1>2
<1>3. BackupSpec => [][SlotsKept]_backupVars
  BY <1>2, BackupInitTyped, BackupStepTyped, SlotsServedInit, SlotsServedStep, PTL DEF BackupSpec
<1> QED BY <1>3 DEF NoSlotLost, SlotsKept
=============================================================================
