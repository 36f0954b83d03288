------------------------------ MODULE MCCaches ------------------------------
(* Small instances of AuthCache and VaultCache: what a process of the      *)
(* server and what the web vault keep in memory.  They share no state: the *)
(* first state says which of them runs.                                    *)
EXTENDS AuthCache, VaultCache, TLC

\* Verifications or loads.
CONSTANTS r1, r2

TwoRequests  == {r1, r2}
HostSymmetry == Permutations(TwoRequests)

VARIABLE component

HostInit == /\ component \in {"server", "browser"}
            /\ Init /\ CacheInit
            /\ component = "server" => disk = NoCopy

\* A run of the web vault ends with a covering stamp: deadlock is checked of
\* AuthCache.
HostStops == component = "browser" /\ UNCHANGED <<component, vars, cacheVars>>

HostNext == \/ component = "server" /\ Next /\ UNCHANGED <<component, cacheVars>>
            \/ component = "browser" /\ CacheNext /\ UNCHANGED <<component, vars>>
            \/ HostStops

HostSpec == HostInit /\ [][HostNext]_<<component, vars, cacheVars>>
=============================================================================
