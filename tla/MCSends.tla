------------------------------ MODULE MCSends ------------------------------
(* Small instances of Sends.                                               *)
EXTENDS Sends

CONSTANTS v1, v2, o1, o2

TwoVisitors == {v1, v2}
TwoOwners   == {o1, o2}
OneOwner    == {o1}
EditKinds   == {"update"}
=============================================================================
