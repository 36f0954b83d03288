-------------------------- MODULE YubicoBootstrap --------------------------
(***************************************************************************)
(* The first use of a YubiKey requests the API credentials of the server   *)
(* from Yubico and stores them in "config".  A claim, a row with an expiry *)
(* and a random value, keeps two requests from doing it at once; it can    *)
(* run out under a request whose call to Yubico takes long, for that call  *)
(* has no timeout.                                                         *)
(***************************************************************************)
EXTENDS Integers

CONSTANTS
  Bootstraps,  \* slots for initializeYubicoCredentialsOnce
  ClaimTicks,  \* YUBICO_BOOTSTRAP_CLAIM_TTL_MS, in ticks
  MaxClaims    \* bound on the claims taken

ASSUME YubicoAssumption == ClaimTicks \in Nat \ {0} /\ MaxClaims \in Nat

VARIABLES
  yubico,     \* whether the credentials are stored
  claim,      \* the row of the claim
  bootstraps, \* the next step of each request, and the claim it took
  claims,     \* claims taken so far: randomUUID repeats none
  created     \* history: credentials stored before the own claim ran out

yubicoVars == <<yubico, claim, bootstraps, claims, created>>

\* value: the number of the claim, 0 without a row.
BootstrapClaim == [value: 0..MaxClaims, left: 0..ClaimTicks]
NoClaim        == [value |-> 0, left |-> 0]

BootstrapSteps == {"idle", "expire", "insert", "recheck", "request", "again", "store", "release"}
\* left (history): the ticks until the claim it took runs out.
Bootstrap      == [step: BootstrapSteps, value: 0..MaxClaims, left: 0..ClaimTicks]
NoBootstrap    == [step |-> "idle", value |-> 0, left |-> 0]

Is(r, s)   == bootstraps[r].step = s
Move(r, s) == bootstraps' = [bootstraps EXCEPT ![r].step = s]
Leave(r)   == bootstraps' = [bootstraps EXCEPT ![r] = NoBootstrap]
Holds(r)   == claim.value # 0 /\ claim.value = bootstraps[r].value

-----------------------------------------------------------------------------
YubicoInit == /\ yubico = FALSE
              /\ claim = NoClaim
              /\ bootstraps = [r \in Bootstraps |-> NoBootstrap]
              /\ claims = 0
              /\ created = 0

\* getYubicoCredentials, before, during and after: with credentials in place
\* there is nothing to create.
FindNone(r) == /\ Is(r, "idle") /\ ~yubico
               /\ Move(r, "expire")
               /\ UNCHANGED <<yubico, claim, claims, created>>

\* acquireBootstrapClaim: the DELETE of a claim that has run out,
ExpireClaim(r) == /\ Is(r, "expire")
                  /\ claim' = IF claim.left = 0 THEN NoClaim ELSE claim
                  /\ Move(r, "insert")
                  /\ UNCHANGED <<yubico, claims, created>>

\* ... and INSERT OR IGNORE: who finds a row there leaves with what it finds.
InsertClaim(r) ==
  /\ Is(r, "insert")
  /\ IF claim = NoClaim
       THEN /\ claims < MaxClaims
            /\ claims' = claims + 1
            /\ claim' = [value |-> claims', left |-> ClaimTicks]
            /\ bootstraps' = [bootstraps EXCEPT ![r] =
                              [step |-> "recheck", value |-> claims', left |-> ClaimTicks]]
       ELSE Leave(r) /\ UNCHANGED <<claim, claims>>
  /\ UNCHANGED <<yubico, created>>

\* The check under the claim, and the one after the call to Yubico.
Recheck(r) == /\ Is(r, "recheck")
              /\ Move(r, IF yubico THEN "release" ELSE "request")
              /\ UNCHANGED <<yubico, claim, claims, created>>

\* requestYubicoApiCredentials, which may fail.
AskYubico(r) == /\ Is(r, "request")
                /\ Move(r, "again") \/ Move(r, "release")
                /\ UNCHANGED <<yubico, claim, claims, created>>

CheckAgain(r) == /\ Is(r, "again")
                 /\ Move(r, IF yubico THEN "release" ELSE "store")
                 /\ UNCHANGED <<yubico, claim, claims, created>>

\* replaceYubicoCredentials: both values in one batch.
StoreCredentials(r) == /\ Is(r, "store")
                       /\ yubico' = TRUE
                       /\ created' = IF bootstraps[r].left > 0 THEN created + 1 ELSE created
                       /\ Move(r, "release")
                       /\ UNCHANGED <<claim, claims>>

\* Mutant of Released: the claim is deleted by its key alone.
ReleasedByKey(r) == NoClaim

\* releaseBootstrapClaim: only the claim with the value it took.
Released(r) == IF Holds(r) THEN NoClaim ELSE claim

ReleaseClaim(r) == /\ Is(r, "release")
                   /\ claim' = Released(r)
                   /\ Leave(r)
                   /\ UNCHANGED <<yubico, claims, created>>

\* A worker that stops leaves its claim behind.
Stop(r) == ~Is(r, "idle") /\ Leave(r) /\ UNCHANGED <<yubico, claim, claims, created>>

\* The administrator stores or requests credentials without any claim.
AdminStores == yubico' = TRUE /\ UNCHANGED <<claim, bootstraps, claims, created>>

Nearer(left) == IF left = 0 THEN 0 ELSE left - 1

ClaimTick ==
  /\ claim.left > 0 \/ \E r \in Bootstraps : bootstraps[r].left > 0
  /\ claim' = [claim EXCEPT !.left = Nearer(@)]
  /\ bootstraps' = [r \in Bootstraps |-> [bootstraps[r] EXCEPT !.left = Nearer(@)]]
  /\ UNCHANGED <<yubico, claims, created>>

YubicoNext ==
  \/ \E r \in Bootstraps :
       \/ FindNone(r) \/ ExpireClaim(r) \/ InsertClaim(r) \/ Recheck(r) \/ AskYubico(r)
       \/ CheckAgain(r) \/ StoreCredentials(r) \/ ReleaseClaim(r) \/ Stop(r)
  \/ AdminStores
  \/ ClaimTick

YubicoSpec == YubicoInit /\ [][YubicoNext]_yubicoVars

-----------------------------------------------------------------------------
\* The claim, the requests and the counters have their types.
YubicoTypeOK == /\ yubico \in BOOLEAN
                /\ claim \in BootstrapClaim
                /\ bootstraps \in [Bootstraps -> Bootstrap]
                /\ claims \in 0..MaxClaims
                /\ created \in Nat

\* Of all requests that store credentials before the claim they took runs out
\* there is one at most, whatever others expire or release in between: only a
\* request that outlived its claim, or the administrator, replaces them.
BootstrapsOnce == created <= 1
=============================================================================
