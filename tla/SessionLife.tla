---------------------------- MODULE SessionLife ----------------------------
(***************************************************************************)
(* What the server promises of the session behind a refresh token.  It is  *)
(* opened once, signs access tokens only while it lives, all of them with  *)
(* the stamps it was opened with, and does not come back once it has       *)
(* ended.  A session from before stamps were stored has them filled in.    *)
(***************************************************************************)
EXTENDS Naturals

CONSTANTS
  Ids,       \* refresh tokens
  Old,       \* those whose sessions were open before stamps were stored
  Marks,     \* device, device stamp and security stamp of a session
  Unmarked   \* of a session that does not live

VARIABLES
  phase,     \* "new", "live" or "ended"
  marks,     \* the mark of each session
  signed     \* the access tokens signed so far, each with its session

LifeInit == /\ phase = [i \in Ids |-> IF i \in Old THEN "live" ELSE "new"]
            /\ marks \in [Ids -> Marks] /\ \A i \in Ids \ Old : marks[i] = Unmarked
            /\ signed = {}

\* Only the mark of session i moves.
OthersKeep(i) == marks' \in [Ids -> Marks] /\ \A j \in Ids \ {i} : marks'[j] = marks[j]

Open(i) == /\ phase[i] = "new"
           /\ phase' = [phase EXCEPT ![i] = "live"]
           /\ OthersKeep(i)
           /\ signed' = signed \cup {[id |-> i, mark |-> marks'[i]]}

\* A stamp that is there stays.
Fill(i) == /\ i \in Old /\ phase[i] = "live"
           /\ OthersKeep(i)
           /\ marks'[i].dev = marks[i].dev
           /\ marks[i].dst # 0 => marks'[i].dst = marks[i].dst
           /\ marks[i].sst # 0 => marks'[i].sst = marks[i].sst
           /\ UNCHANGED <<phase, signed>>

\* Of an old session only the device is certain: its stamps are those the
\* signing request has read.
Sign(i) == /\ phase[i] = "live"
           /\ \E s \in signed' :
                /\ s.id = i
                /\ IF i \in Old THEN s.mark.dev = marks[i].dev ELSE s.mark = marks[i]
                /\ signed' = signed \cup {s}
           /\ UNCHANGED <<phase, marks>>

End(ids) == /\ \A i \in ids : phase[i] = "live"
            /\ phase' = [i \in Ids |-> IF i \in ids THEN "ended" ELSE phase[i]]
            /\ marks' = [i \in Ids |-> IF i \in ids THEN Unmarked ELSE marks[i]]
            /\ UNCHANGED signed

LifeNext == \/ \E i \in Ids : Open(i) \/ Fill(i) \/ Sign(i)
            \/ \E ids \in SUBSET Ids : End(ids)

LifeSpec == LifeInit /\ [][LifeNext]_<<phase, marks, signed>>
=============================================================================
