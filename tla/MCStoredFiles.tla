--------------------------- MODULE MCStoredFiles ---------------------------
(* Small instances of the components that keep files: Sends, attachments,  *)
(* remote backups.  They share no state: the first state says which of     *)
(* them runs.                                                              *)
EXTENDS Sends, Attachments, BackupJobs, TLC

\* Visitors, attachments or jobs; owners or changes; a purge; destinations.
CONSTANTS v1, v2, o1, o2, q1, t1, t2

TwoVisitors     == {v1, v2}
TwoOwners       == {o1, o2}
OnePurge        == {q1}
TwoDestinations == {t1, t2}
SlotTable       == t1 :> {0} @@ t2 :> {1}
MidnightTable   == t1 :> {} @@ t2 :> {2}

HostSymmetry == Permutations(TwoVisitors) \cup Permutations(TwoOwners)

VARIABLE component

HostInit == /\ component \in {"sends", "attachments", "backups"}
            /\ Init /\ AttachmentInit /\ BackupInit
            /\ component # "sends" => ~blob

HostNext ==
  \/ component = "sends" /\ Next /\ UNCHANGED <<component, attachmentVars, backupVars>>
  \/ component = "attachments" /\ AttachmentNext /\ UNCHANGED <<component, vars, backupVars>>
  \/ component = "backups" /\ BackupNext /\ UNCHANGED <<component, vars, attachmentVars>>

HostSpec == HostInit /\ [][HostNext]_<<component, vars, attachmentVars, backupVars>>
=============================================================================
