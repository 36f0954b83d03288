--------------------------- MODULE MCLoginFactors ---------------------------
(* Small instances of the throttle of log-ins and of two second factors:   *)
(* authenticator codes, and the bootstrap of Yubico.  They share no state: *)
(* the first state says which of them runs.                                *)
EXTENDS LoginThrottle, TotpReplays, YubicoBootstrap

CONSTANTS r1, r2, r3

ThreeRequests == {r1, r2, r3}
TwoRequests   == {r1, r2}
AnyOutcome    == {"wrong", "right", "challenge"}

VARIABLE component

HostInit == /\ component \in {"throttle", "codes", "bootstrap"}
            /\ Init /\ TotpInit /\ YubicoInit

\* Steps and claims run out: deadlock is checked of the throttle.
HostStops == component # "throttle" /\ UNCHANGED <<component, vars, totpVars, yubicoVars>>

HostNext ==
  \/ component = "throttle" /\ Next /\ UNCHANGED <<component, totpVars, yubicoVars>>
  \/ component = "codes" /\ TotpNext /\ UNCHANGED <<component, vars, yubicoVars>>
  \/ component = "bootstrap" /\ YubicoNext /\ UNCHANGED <<component, vars, totpVars>>
  \/ HostStops

\* The fairness of LoginThrottle, where it runs.
HostSpec ==
  /\ HostInit /\ [][HostNext]_<<component, vars, totpVars, yubicoVars>>
  /\ WF_vars(component = "throttle" /\ Tick /\ UNCHANGED <<component, totpVars, yubicoVars>>)
=============================================================================
