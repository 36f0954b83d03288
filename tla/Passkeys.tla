------------------------------ MODULE Passkeys ------------------------------
(***************************************************************************)
(* The passkeys of one account, for log-in and as second factor, and the   *)
(* WebAuthn challenges with which they are created and used: the tables    *)
(* webauthn_credentials and webauthn_challenges, one action per statement. *)
(*                                                                         *)
(* A challenge is 32 random bytes, so each is issued once; its scope       *)
(* stands for the pair of scope and account that the statements compare.   *)
(* Signatures are external: a verification that fails is an Abandon.  The  *)
(* signature counter and the sealed keys of a passkey are left out: they   *)
(* are written by UPDATEs that touch an existing row only.                 *)
(***************************************************************************)
EXTENDS Integers, FiniteSets, Sequences

CONSTANTS
  PasskeyCalls,    \* slots for requests in flight
  Challenges, NoChallenge,
  Credentials, NoCredential,  \* credential ids: an authenticator repeats none
  Scopes,          \* the scopes in use
  MaxPasskeys,     \* MAX_ACCOUNT_PASSKEYS, MAX_TWO_FACTOR_PASSKEYS
  ChallengeTicks   \* accountPasskeyTokenTtlMs, in ticks

AllScopes == {"Authentication", "UpdateKeySet", "CreateCredential",
              "TwoFactorAuthentication", "TwoFactorCreate"}

ASSUME PasskeysAssumption ==
  /\ IsFiniteSet(PasskeyCalls) /\ PasskeyCalls # {} /\ IsFiniteSet(Credentials)
  /\ NoChallenge \notin Challenges /\ NoCredential \notin Credentials
  /\ Scopes \subseteq AllScopes
  /\ MaxPasskeys \in Nat \ {0} /\ ChallengeTicks \in Nat \ {0}

VARIABLES
  challenges,   \* the row of each challenge, and what became of it
  credentials,  \* the purpose of each passkey, "new" before it, "gone" after
  passkeyCalls, \* the requests in flight
  accepted      \* history: how often each challenge was accepted

passkeyVars == <<challenges, credentials, passkeyCalls, accepted>>

\* state: not issued, in the table unused, in the table used, deleted;
\* left: ticks until it expires.
ChallengeRow == [state: {"new", "there", "used", "gone"},
                 scope: AllScopes \cup {"none"}, left: 0..ChallengeTicks]
\* Of one that is used or deleted nothing is compared any more.
Ended(state) == [state |-> state, scope |-> "none", left |-> 0]
Unissued     == Ended("new")

PurposeOf(scope) == IF scope \in {"TwoFactorAuthentication", "TwoFactorCreate"}
                    THEN "twoFactor" ELSE "login"
OfPurpose(p)     == {k \in Credentials : credentials[k] = p}

\* The statements of each handler, in its order.
Path(scope) ==
  CASE scope = "Authentication"          -> <<"select", "claim", "read", "touch">>
    [] scope = "UpdateKeySet"            -> <<"select", "claim", "read", "touch", "touch">>
    [] scope = "TwoFactorAuthentication" -> <<"read", "select", "claim", "touch">>
    [] scope = "CreateCredential"        -> <<"select", "claim", "count", "absent", "save">>
    [] scope = "TwoFactorCreate"         -> <<"count", "select", "claim", "absent", "save">>

PathSteps == {"sweep", "insert", "select", "claim", "read", "touch", "count",
              "absent", "save", "remove", "drop"}

\* listed: the passkeys a removal or a recovery has read; stale: whether the
\* passkey was gone already when the request began.
Call   == [path: Seq(PathSteps), scope: AllScopes \cup {"none"},
           challenge: Challenges \cup {NoChallenge},
           credential: Credentials \cup {NoCredential},
           listed: SUBSET Credentials, stale: BOOLEAN]
NoCall == [path |-> << >>, scope |-> "none", challenge |-> NoChallenge,
           credential |-> NoCredential, listed |-> {}, stale |-> FALSE]

Free(r)       == passkeyCalls[r] = NoCall
Reaches(r, s) == passkeyCalls[r].path # << >> /\ Head(passkeyCalls[r].path) = s
StartCall(r, c) == Free(r) /\ passkeyCalls' = [passkeyCalls EXCEPT ![r] = c]
EndCall(r)      == passkeyCalls' = [passkeyCalls EXCEPT ![r] = NoCall]
Advance(r)    == IF Len(passkeyCalls[r].path) = 1 THEN EndCall(r)
                 ELSE passkeyCalls' = [passkeyCalls EXCEPT ![r].path = Tail(@)]
AdvanceIf(r, condition) == IF condition THEN Advance(r) ELSE EndCall(r)

-----------------------------------------------------------------------------
\* An account with some passkeys, within the limits.
PasskeyInit ==
  /\ challenges = [c \in Challenges |-> Unissued]
  /\ credentials \in [Credentials -> {"new", "login", "twoFactor"}]
  /\ \A p \in {"login", "twoFactor"} : Cardinality(OfPurpose(p)) <= MaxPasskeys
  /\ passkeyCalls = [r \in PasskeyCalls |-> NoCall]
  /\ accepted = [c \in Challenges |-> 0]

(* The options: saveAccountPasskeyChallenge after a look at the passkeys.  *)

\* Mutant of BelowLimit: one passkey too many.
AtLimit(p) == Cardinality(OfPurpose(p)) <= MaxPasskeys

BelowLimit(p) == Cardinality(OfPurpose(p)) < MaxPasskeys

MayAsk(scope) ==
  CASE scope = "Authentication" -> TRUE
    [] scope \in {"UpdateKeySet", "TwoFactorAuthentication"} -> OfPurpose(PurposeOf(scope)) # {}
    [] OTHER -> BelowLimit(PurposeOf(scope))

AskOptions(r, scope) ==
  /\ MayAsk(scope)
  /\ StartCall(r, [NoCall EXCEPT !.path = <<"sweep", "insert">>, !.scope = scope])
  /\ UNCHANGED <<challenges, credentials, accepted>>

\* The DELETE of expired and of used challenges, whoever's they are.
Sweep(r) ==
  /\ Reaches(r, "sweep")
  /\ challenges' = [c \in Challenges |->
       IF challenges[c].state = "used" \/ (challenges[c].state = "there" /\ challenges[c].left = 0)
       THEN Ended("gone") ELSE challenges[c]]
  /\ Advance(r)
  /\ UNCHANGED <<credentials, accepted>>

Lifetime == ChallengeTicks

InsertChallenge(r, c) ==
  /\ Reaches(r, "insert")
  /\ challenges[c] = Unissued
  /\ challenges' = [challenges EXCEPT ![c] =
       [state |-> "there", scope |-> passkeyCalls[r].scope, left |-> Lifetime]]
  /\ Advance(r)
  /\ UNCHANGED <<credentials, accepted>>

(* The answers: a client presents a challenge it was given, whatever it is *)
(* for, and a passkey.                                                     *)
Present(r, scope, c, k) ==
  /\ challenges[c].state # "new"
  /\ StartCall(r, [NoCall EXCEPT !.path = Path(scope), !.scope = scope, !.challenge = c,
                             !.credential = k, !.stale = credentials[k] = "gone"])
  /\ UNCHANGED <<challenges, credentials, accepted>>

\* consumeAccountPasskeyChallenge: the SELECT,
SelectChallenge(r) ==
  /\ Reaches(r, "select")
  /\ LET row == challenges[passkeyCalls[r].challenge]
     IN  AdvanceIf(r, row.state = "there" /\ row.scope = passkeyCalls[r].scope /\ row.left > 0)
  /\ UNCHANGED <<challenges, credentials, accepted>>

\* Mutant of Claimable: the UPDATE does not repeat "used_at IS NULL".
ClaimableTwice(c) == challenges[c].state \in {"there", "used"}

\* ... and the UPDATE, which changes a row that is still there and unused.
Claimable(c) == challenges[c].state = "there"

Claim(r) ==
  /\ Reaches(r, "claim")
  /\ LET c == passkeyCalls[r].challenge
     IN  IF Claimable(c)
           THEN /\ challenges' = [challenges EXCEPT ![c] = Ended("used")]
                /\ accepted' = [accepted EXCEPT ![c] = @ + 1]
                /\ Advance(r)
           ELSE EndCall(r) /\ UNCHANGED <<challenges, accepted>>
  /\ UNCHANGED credentials

\* Mutant of Registered: the row is cached from before its removal.
RegisteredOnce(k, purpose) == credentials[k] \in {purpose, "gone"}

Registered(k, purpose) == credentials[k] = purpose

ReadCredential(r) ==
  /\ Reaches(r, "read")
  /\ AdvanceIf(r, Registered(passkeyCalls[r].credential, PurposeOf(passkeyCalls[r].scope)))
  /\ UNCHANGED <<challenges, credentials, accepted>>

\* updateAccountPasskeyCounter, updateAccountPasskeyEncryption.
Touch(r) == /\ Reaches(r, "touch")
            /\ Advance(r)
            /\ UNCHANGED <<challenges, credentials, accepted>>

CountCredentials(r) ==
  /\ Reaches(r, "count")
  /\ AdvanceIf(r, BelowLimit(PurposeOf(passkeyCalls[r].scope)))
  /\ UNCHANGED <<challenges, credentials, accepted>>

\* A credential id that is registered already is refused,
Absent(r) ==
  /\ Reaches(r, "absent")
  /\ AdvanceIf(r, credentials[passkeyCalls[r].credential] = "new")
  /\ UNCHANGED <<challenges, credentials, accepted>>

\* ... and if it came in between, by the unique index.
SaveCredential(r) ==
  /\ Reaches(r, "save")
  /\ LET k == passkeyCalls[r].credential
     IN  credentials' = IF credentials[k] = "new"
                          THEN [credentials EXCEPT ![k] = PurposeOf(passkeyCalls[r].scope)]
                          ELSE credentials
  /\ EndCall(r)
  /\ UNCHANGED <<challenges, accepted>>

-----------------------------------------------------------------------------
\* handleDeleteAccountPasskeyCredential: one conditional DELETE.
RemoveLoginPasskey(k) ==
  /\ credentials[k] = "login"
  /\ credentials' = [credentials EXCEPT ![k] = "gone"]
  /\ UNCHANGED <<challenges, passkeyCalls, accepted>>

\* Mutant of Spare: the last one may go too.
NoSpare == OfPurpose("twoFactor") # {}

\* handleDeleteTwoFactorWebAuthn refuses to delete the only one it lists.
Spare == Cardinality(OfPurpose("twoFactor")) >= 2

ListFactors(r, k) ==
  /\ Spare
  /\ credentials[k] = "twoFactor"
  /\ StartCall(r, [NoCall EXCEPT !.path = <<"remove">>, !.credential = k,
                             !.listed = OfPurpose("twoFactor")])
  /\ UNCHANGED <<challenges, credentials, accepted>>

DeleteFactor(k) == credentials' = [credentials EXCEPT ![k] = IF @ = "twoFactor" THEN "gone" ELSE @]

RemoveFactor(r) == /\ Reaches(r, "remove")
                   /\ DeleteFactor(passkeyCalls[r].credential)
                   /\ EndCall(r)
                   /\ UNCHANGED <<challenges, accepted>>

\* A log-in with the recovery code removes the passkeys it has listed, one
\* by one; the rest of what it does is Recover in Sessions.tla.
ListForRecovery(r) ==
  /\ OfPurpose("twoFactor") # {}
  /\ StartCall(r, [NoCall EXCEPT !.path = <<"drop">>, !.listed = OfPurpose("twoFactor")])
  /\ UNCHANGED <<challenges, credentials, accepted>>

DropFactor(r, k) ==
  /\ Reaches(r, "drop")
  /\ k \in passkeyCalls[r].listed
  /\ DeleteFactor(k)
  /\ IF passkeyCalls[r].listed = {k} THEN EndCall(r)
     ELSE passkeyCalls' = [passkeyCalls EXCEPT ![r].listed = @ \ {k}]
  /\ UNCHANGED <<challenges, accepted>>

-----------------------------------------------------------------------------
\* A refused verification, a failed statement, a worker that stops.
Abandon(r) == ~Free(r) /\ EndCall(r) /\ UNCHANGED <<challenges, credentials, accepted>>

ChallengeTick ==
  /\ \E c \in Challenges : challenges[c].left > 0
  /\ challenges' = [c \in Challenges |->
       IF challenges[c].left > 0 THEN [challenges[c] EXCEPT !.left = @ - 1] ELSE challenges[c]]
  /\ UNCHANGED <<credentials, passkeyCalls, accepted>>

PasskeyNext ==
  \/ \E r \in PasskeyCalls :
       \/ \E s \in Scopes : \/ AskOptions(r, s)
                            \/ \E c \in Challenges, k \in Credentials : Present(r, s, c, k)
       \/ \E c \in Challenges : InsertChallenge(r, c)
       \/ \E k \in Credentials : ListFactors(r, k) \/ DropFactor(r, k)
       \/ Sweep(r) \/ SelectChallenge(r) \/ Claim(r) \/ ReadCredential(r) \/ Touch(r)
       \/ CountCredentials(r) \/ Absent(r) \/ SaveCredential(r)
       \/ RemoveFactor(r) \/ ListForRecovery(r) \/ Abandon(r)
  \/ \E k \in Credentials : RemoveLoginPasskey(k)
  \/ ChallengeTick

PasskeySpec == PasskeyInit /\ [][PasskeyNext]_passkeyVars

-----------------------------------------------------------------------------
\* Tables and requests have their types, and only a challenge that left the
\* state of an unused row has been accepted.
PasskeyTypeOK ==
  /\ challenges \in [Challenges -> ChallengeRow]
  /\ credentials \in [Credentials -> {"new", "login", "twoFactor", "gone"}]
  /\ DOMAIN passkeyCalls = PasskeyCalls
  /\ \A r \in PasskeyCalls :
       /\ passkeyCalls[r].challenge \in Challenges \cup {NoChallenge}
       /\ passkeyCalls[r].credential \in Credentials \cup {NoCredential}
       /\ passkeyCalls[r].listed \subseteq Credentials
  /\ accepted \in [Challenges -> Nat]

Tokens == INSTANCE OneTimeTokens WITH
  Tokens <- Challenges,
  open   <- {c \in Challenges : challenges[c].state \in {"new", "there"}},
  uses   <- accepted

\* However requests and sweeps interleave, a challenge is accepted once, and
\* one that was swept away or used never again: consuming challenges
\* implements OneTimeTokens.
ChallengesSpentOnce == Tokens!OneTimeSpec

\* A request that begins after a passkey was removed never succeeds with it,
\* although the second-factor path reads the passkey before the challenge.
RemovedKeyRefused == \A r \in PasskeyCalls : Reaches(r, "touch") => ~passkeyCalls[r].stale

\* The limit is checked long before the insertion: requests in flight can
\* exceed it by one each, less one, and never by more.
PasskeysBounded == \A p \in {"login", "twoFactor"} :
  Cardinality(OfPurpose(p)) < MaxPasskeys + Cardinality(PasskeyCalls)

\* The last second-factor passkey goes only by a recovery, or when another
\* removal overlapped the one that checked that two were left.
LastFactorKept ==
  [][ (OfPurpose("twoFactor") # {} /\ OfPurpose("twoFactor")' = {}) =>
      \E r \in PasskeyCalls :
        \/ Reaches(r, "drop")
        \/ /\ Reaches(r, "remove")
           /\ \E k \in passkeyCalls[r].listed \ {passkeyCalls[r].credential} :
                credentials[k] = "gone" ]_passkeyVars
=============================================================================
