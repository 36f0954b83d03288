--------------------------- MODULE DownloadLinks ---------------------------
(***************************************************************************)
(* The single-use links under which attachments and the files of Sends are *)
(* downloaded.  A link is a signed token with an identifier (jti) and an   *)
(* expiry in whole seconds; its first use inserts the identifier into      *)
(* "used_attachment_download_tokens", from which an occasional clean-up    *)
(* deletes the expired ones by a comparison in milliseconds.               *)
(*                                                                         *)
(* The clock counts half-seconds, so that the two roundings differ.        *)
(***************************************************************************)
EXTENDS Integers

CONSTANTS
  Links,     \* the links issued for one file
  Requests,  \* slots for downloads in flight
  NoLink,
  Ttl,       \* fileDownloadTokenTtlSeconds
  MaxTime    \* bound on the clock, in half-seconds

ASSUME LinksAssumption == NoLink \notin Links /\ Ttl \in Nat \ {0} /\ MaxTime \in Nat

VARIABLES
  now,     \* Date.now()
  exp,     \* the exp claim of each link in seconds, 0 before it is issued
  used,    \* the identifiers in the table
  row,     \* whether the metadata row exists
  blob,    \* whether the object exists
  req,     \* the link and the next step of each download
  firsts   \* history: how often each link passed as unused, up to twice

vars == <<now, exp, used, row, blob, req, firsts>>

Steps   == {"idle", "read", "consume", "fetch"}
Request == [step: Steps, link: Links \cup {NoLink}]
Idle    == [step |-> "idle", link |-> NoLink]

Seconds(halves) == halves \div 2
Issued(l)       == exp[l] # 0
ExpiresAt(l)    == 2 * exp[l]  \* expiresAtMs

verifyToken(l) == Issued(l) /\ ~(exp[l] < Seconds(now))

At(r, step)   == req[r].step = step
Goto(r, step) == req' = [req EXCEPT ![r].step = step]
Finish(r)     == req' = [req EXCEPT ![r] = Idle]
Counted(l)    == [firsts EXCEPT ![l] = IF @ = 2 THEN 2 ELSE @ + 1]

-----------------------------------------------------------------------------
Init == /\ now = 0
        /\ exp = [l \in Links |-> 0]
        /\ used = {}
        /\ row = TRUE
        /\ blob = TRUE
        /\ req = [r \in Requests |-> Idle]
        /\ firsts = [l \in Links |-> 0]

\* createFileDownloadToken, createSendFileDownloadToken.
Issue(l) == /\ row
            /\ ~Issued(l)
            /\ exp' = [exp EXCEPT ![l] = Seconds(now) + Ttl]
            /\ UNCHANGED <<now, used, row, blob, req, firsts>>

(* handlePublicDownloadAttachment, handleDownloadSendFile.                 *)

\* The signature, the expiry and the path are checked without the database.
Verify(r, l) == /\ req[r] = Idle
                /\ verifyToken(l)
                /\ req' = [req EXCEPT ![r] = [step |-> "read", link |-> l]]
                /\ UNCHANGED <<now, exp, used, row, blob, firsts>>

ReadRow(r) == /\ At(r, "read")
              /\ IF row THEN Goto(r, "consume") ELSE Finish(r)
              /\ UNCHANGED <<now, exp, used, row, blob, firsts>>

\* Mutant of CleanUp: the expiry is stored in seconds and compared as it is.
CleanUpBySeconds(r) == /\ At(r, "consume")
                       /\ used' = {l \in used : ~(exp[l] < now)}
                       /\ UNCHANGED <<now, exp, row, blob, req, firsts>>

\* Now and then the request first deletes what has expired.
CleanUp(r) == /\ At(r, "consume")
              /\ used' = {l \in used : ~(ExpiresAt(l) < now)}
              /\ UNCHANGED <<now, exp, row, blob, req, firsts>>

\* INSERT .. ON CONFLICT DO NOTHING: the first use is the one that inserts.
Consume(r) ==
  /\ At(r, "consume")
  /\ IF req[r].link \in used
       THEN Finish(r) /\ UNCHANGED <<used, firsts>>
       ELSE /\ used' = used \cup {req[r].link}
            /\ firsts' = Counted(req[r].link)
            /\ Goto(r, "fetch")
  /\ UNCHANGED <<now, exp, row, blob>>

\* The object is sent, or missing by now; the link is spent either way.
Fetch(r) == /\ At(r, "fetch")
            /\ Finish(r)
            /\ UNCHANGED <<now, exp, used, row, blob, firsts>>

(* The owner deletes the file: the object, then the row.                   *)
DeleteBlob == blob /\ blob' = FALSE /\ UNCHANGED <<now, exp, used, row, req, firsts>>
DeleteRow  == ~blob /\ row /\ row' = FALSE /\ UNCHANGED <<now, exp, used, blob, req, firsts>>

Tick == now < MaxTime /\ now' = now + 1 /\ UNCHANGED <<exp, used, row, blob, req, firsts>>

Next == \/ \E l \in Links : Issue(l)
        \/ \E r \in Requests : \/ \E l \in Links : Verify(r, l)
                               \/ ReadRow(r) \/ CleanUp(r) \/ Consume(r) \/ Fetch(r)
        \/ DeleteBlob \/ DeleteRow
        \/ Tick

Spec == Init /\ [][Next]_vars

-----------------------------------------------------------------------------
\* Clock, table and requests have their types; what is in the table was
\* issued and used.
TypeOK == /\ now \in 0..MaxTime
          /\ exp \in [Links -> Nat]
          /\ used \in SUBSET {l \in Links : Issued(l) /\ firsts[l] > 0}
          /\ row \in BOOLEAN /\ blob \in BOOLEAN
          /\ req \in [Requests -> Request]
          /\ \A r \in Requests : req[r] # Idle => req[r].link \in Links
          /\ firsts \in [Links -> 0..2]

\* Until a link expires, to the millisecond, it passes as unused once only:
\* downloads in parallel and clean-ups in between do not matter.
UsedOnceWhileValid == \A l \in Links : now <= ExpiresAt(l) => firsts[l] <= 1

\* The documented "Returns true only on first use. Reuse returns false.",
\* without the restriction to the time before the expiry.
UsedOnce == \A l \in Links : firsts[l] <= 1
=============================================================================
