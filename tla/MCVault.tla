------------------------------ MODULE MCVault ------------------------------
(* Instances of Vault for TLC.                                             *)
EXTENDS Vault, TLC

CONSTANTS w1, w2, s1
TwoWriters == {w1, w2}
OneReader  == {s1}
WriterSymmetry == Permutations(TwoWriters)
=============================================================================
