----------------------------- MODULE MCOneTime -----------------------------
(* Small instances of the components that hand out something to be used    *)
(* once: download links and passkey challenges.  They share no state: the  *)
(* first state says which of them runs.                                    *)
EXTENDS DownloadLinks, Passkeys, TLC

\* Requests; links or challenges; credentials.
CONSTANTS r1, r2, t1, t2, k1, k2, k3

TwoRequests      == {r1, r2}
TwoTokens        == {t1, t2}
ThreeCredentials == {k1, k2, k3}
\* UpdateKeySet runs the statements of Authentication, the last one twice.
DistinctScopes   == AllScopes \ {"UpdateKeySet"}

HostSymmetry == Permutations(TwoRequests) \cup Permutations(TwoTokens)
                \cup Permutations(ThreeCredentials)

VARIABLE component

HostInit == /\ component \in {"links", "passkeys"}
            /\ Init /\ PasskeyInit
            /\ component = "links" => credentials = [k \in Credentials |-> "new"]

HostNext == \/ component = "links" /\ Next /\ UNCHANGED <<component, passkeyVars>>
            \/ component = "passkeys" /\ PasskeyNext /\ UNCHANGED <<component, vars>>

HostSpec == HostInit /\ [][HostNext]_<<component, vars, passkeyVars>>
=============================================================================
