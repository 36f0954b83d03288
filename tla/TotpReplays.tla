---------------------------- MODULE TotpReplays ----------------------------
(***************************************************************************)
(* Authenticator codes: a code stands for a counter, the number of a       *)
(* 30-second step, and is accepted within TOTP_WINDOW steps of the clock.  *)
(* What makes it good for one log-in is a marker in "totp_login_replays";  *)
(* a clean-up of another request deletes markers that are old.             *)
(*                                                                         *)
(* One account, time in steps.  Between the clock a log-in has read and    *)
(* its insertion lie at most MaxLatency steps: a marker must outlive that, *)
(* which TotpAssumption says of the constants of the code.                 *)
(***************************************************************************)
EXTENDS Integers

CONSTANTS
  CodeLogins,    \* slots for requests that verify a code
  CodeWindow,    \* TOTP_WINDOW
  MarkerTicks,   \* TOTP_REPLAY_MARKER_TTL_MS: ten steps
  MaxLatency,    \* bound on the age of a request
  LastStep       \* bound on the clock

ASSUME TotpAssumption ==
  /\ CodeWindow \in Nat /\ MarkerTicks \in Nat /\ MaxLatency \in Nat /\ LastStep \in Nat
  /\ 2 * CodeWindow + MaxLatency <= MarkerTicks

VARIABLES
  clock,      \* the current step
  markers,    \* consumed_at of each counter, Never without a row
  codeLogins, \* the requests in flight
  passes      \* history: the log-ins each counter has served

totpVars == <<clock, markers, codeLogins, passes>>

Counters == 0..(LastStep + CodeWindow)
Never    == -1

\* counter: what findMatchingTotpCounter returned; at: consumedAtMs.
CodeLogin == [busy: BOOLEAN, counter: Counters, at: 0..LastStep]
NoLogin   == [busy |-> FALSE, counter |-> 0, at |-> 0]

EndLogin(r) == codeLogins' = [codeLogins EXCEPT ![r] = NoLogin]

-----------------------------------------------------------------------------
TotpInit == /\ clock = 0
            /\ markers = [c \in Counters |-> Never]
            /\ codeLogins = [r \in CodeLogins |-> NoLogin]
            /\ passes = [c \in Counters |-> 0]

\* findMatchingTotpCounter, and the clock for what follows.
MatchCode(r, c) ==
  /\ ~codeLogins[r].busy
  /\ clock - CodeWindow <= c /\ c <= clock + CodeWindow
  /\ codeLogins' = [codeLogins EXCEPT ![r] = [busy |-> TRUE, counter |-> c, at |-> clock]]
  /\ UNCHANGED <<clock, markers, passes>>

\* Mutant of Outdated: markers are kept as long as a code is shown.
OutdatedStep(at, now) == at < now - CodeWindow

Outdated(at, now) == at < now - MarkerTicks

\* Now and then the request first deletes the old markers.
PurgeMarkers(r) ==
  /\ codeLogins[r].busy
  /\ markers' = [c \in Counters |-> IF Outdated(markers[c], codeLogins[r].at) THEN Never
                                    ELSE markers[c]]
  /\ UNCHANGED <<clock, codeLogins, passes>>

ConsumedAt(r) == codeLogins[r].at

\* INSERT .. ON CONFLICT DO NOTHING: the log-in that inserts passes.
ConsumeCounter(r) ==
  /\ codeLogins[r].busy
  /\ LET c == codeLogins[r].counter
     IN  IF markers[c] = Never
           THEN /\ markers' = [markers EXCEPT ![c] = ConsumedAt(r)]
                /\ passes' = [passes EXCEPT ![c] = @ + 1]
           ELSE UNCHANGED <<markers, passes>>
  /\ EndLogin(r)
  /\ UNCHANGED clock

DropLogin(r) == codeLogins[r].busy /\ EndLogin(r) /\ UNCHANGED <<clock, markers, passes>>

\* The next step begins, while no request gets too old.
ClockTick == /\ clock < LastStep
             /\ \A r \in CodeLogins : codeLogins[r].busy => clock - codeLogins[r].at < MaxLatency
             /\ clock' = clock + 1
             /\ UNCHANGED <<markers, codeLogins, passes>>

TotpNext == \/ \E r \in CodeLogins : \/ \E c \in Counters : MatchCode(r, c)
                                     \/ PurgeMarkers(r) \/ ConsumeCounter(r) \/ DropLogin(r)
            \/ ClockTick

TotpSpec == TotpInit /\ [][TotpNext]_totpVars

-----------------------------------------------------------------------------
\* Clock, markers and requests have their types.
TotpTypeOK == /\ clock \in 0..LastStep
              /\ markers \in [Counters -> {Never} \cup (0..LastStep)]
              /\ codeLogins \in [CodeLogins -> CodeLogin]
              /\ passes \in [Counters -> Nat]

Codes == INSTANCE OneTimeTokens WITH
  Tokens <- Counters,
  open   <- {c \in Counters : passes[c] = 0 /\ clock <= c + CodeWindow + MaxLatency},
  uses   <- passes

\* No code passes twice, although markers are deleted: one that is gone was
\* so old that no request can still hold its counter.  Consuming counters
\* implements OneTimeTokens.
CodesPassOnce == Codes!OneTimeSpec
=============================================================================
