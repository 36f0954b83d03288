-------------------------- MODULE MCDownloadLinks --------------------------
(* Small instances of DownloadLinks.                                       *)
EXTENDS DownloadLinks, TLC

CONSTANTS l1, l2, r1, r2

BothLinks   == {l1, l2}
TwoRequests == {r1, r2}

LinkSymmetry == Permutations(Links) \cup Permutations(Requests)
=============================================================================
