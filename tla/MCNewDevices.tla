---------------------------- MODULE MCNewDevices ----------------------------
(* Small instances of AuthRequests and Registration: how a device and how  *)
(* an account comes to be known.  They share no state: the first state     *)
(* says which of them runs.                                                *)
EXTENDS AuthRequests, Registration, TLC

\* Ids or emails; creators or registrars; approvers or two of the accounts.
CONSTANTS i1, i2, d1, c1, c2, a1, a2, a3, a4, l1, l2

TwoIds       == {i1, i2}
OneDevice    == {d1}
TwoCreators  == {c1, c2}
TwoApprovers == {a1, a2}
TwoLogins    == {l1, l2}
LoginTypes   == {0, 1}
FourAccounts == {a1, a2, a3, a4}

HostSymmetry == Permutations(TwoIds) \cup Permutations(TwoCreators)
                \cup Permutations(TwoApprovers) \cup Permutations(TwoLogins)

VARIABLE component

HostInit == component \in {"requests", "registration"} /\ Init /\ RegistrationInit

\* The ids of registrations run out: deadlock is checked of auth requests.
HostStops == component = "registration" /\ UNCHANGED <<component, vars, registrationVars>>

HostNext ==
  \/ component = "requests" /\ Next /\ UNCHANGED <<component, registrationVars>>
  \/ component = "registration" /\ RegistrationNext /\ UNCHANGED <<component, vars>>
  \/ HostStops

HostSpec == HostInit /\ [][HostNext]_<<component, vars, registrationVars>>
=============================================================================
