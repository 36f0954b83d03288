--------------------------- MODULE OneTimeProofs ---------------------------
(* Download links, challenges, authenticator codes and the bootstrap of    *)
(* Yubico are used once, whatever the number of requests, rows and ticks.  *)
EXTENDS DownloadLinks, Passkeys, TotpReplays, YubicoBootstrap, FiniteSetTheorems, TLAPS

(* Download links.                                                         *)

\* Only issued links are in use, and a use stays on record until the expiry.
InUse     == \A r \in Requests : req[r] # Idle => req[r].link \in Links /\ Issued(req[r].link)
UsedKnown == \A l \in Links : firsts[l] > 0 => Issued(l)
Recorded  == \A l \in Links :
               now <= ExpiresAt(l) => firsts[l] <= 1 /\ (firsts[l] > 0 => l \in used)

IInv == TypeOK /\ InUse /\ UsedKnown /\ Recorded

LEMMA InitInv == Init => IInv
BY LinksAssumption
DEF Init, IInv, TypeOK, InUse, UsedKnown, Recorded, Request, Steps, Idle, Issued, ExpiresAt

LEMMA StepInv == IInv /\ [Next]_vars => IInv'
<1> SUFFICES ASSUME IInv, [Next]_vars PROVE IInv'
  OBVIOUS
<1> USE LinksAssumption DEF IInv, TypeOK, InUse, UsedKnown, Recorded, Issued, ExpiresAt
<1>1. ASSUME NEW r \in Requests, Finish(r)
      PROVE  /\ req' \in [Requests -> Request]
             /\ \A q \in Requests : req'[q] # Idle => req'[q] = req[q]
  BY <1>1 DEF Finish, Idle, Request, Steps
<1>2. ASSUME NEW r \in Requests, NEW s \in Steps, Goto(r, s), req[r] # Idle
      PROVE  /\ req' \in [Requests -> Request]
             /\ \A q \in Requests : req'[q] # Idle => req[q] # Idle /\ req'[q].link = req[q].link
  BY <1>2 DEF Goto, Request
<1>3. ASSUME NEW l \in Links, Issue(l) PROVE IInv'
  <2>1. Seconds(now) + Ttl \in Nat \ {0}
    BY DEF Seconds
  <2> QED BY <1>3, <2>1 DEF Issue
<1>4. ASSUME NEW r \in Requests, NEW l \in Links, Verify(r, l) PROVE IInv'
  BY <1>4 DEF Verify, verifyToken, Request, Steps
<1>5. ASSUME NEW r \in Requests, ReadRow(r) PROVE IInv'
  <2>1. req[r] # Idle
    BY <1>5 DEF ReadRow, At, Idle
  <2> QED BY <1>1, <1>2, <1>5, <2>1 DEF ReadRow, Steps
<1>6. ASSUME NEW r \in Requests, CleanUp(r) PROVE IInv'
  BY <1>6 DEF CleanUp
<1>7. ASSUME NEW r \in Requests, Consume(r) PROVE IInv'
  <2>1. req[r] # Idle
    BY <1>7 DEF Consume, At, Idle
  <2>2. CASE req[r].link \in used
    BY <1>1, <1>7, <2>2 DEF Consume
  <2>3. CASE req[r].link \notin used
    <3>1. /\ used' = used \cup {req[r].link}
          /\ firsts' = Counted(req[r].link)
          /\ Goto(r, "fetch")
          /\ UNCHANGED <<now, exp, row, blob>>
      BY <1>7, <2>3 DEF Consume
    <3>2. /\ req' \in [Requests -> Request]
          /\ \A q \in Requests : req'[q] # Idle => req[q] # Idle /\ req'[q].link = req[q].link
      BY <1>2, <2>1, <3>1 DEF Steps
    <3>3. req[r].link \in Links /\ Issued(req[r].link)
      BY <2>1
    <3>4. /\ firsts' \in [Links -> 0..2]
          /\ \A l \in Links : l # req[r].link => firsts'[l] = firsts[l]
          /\ firsts'[req[r].link] > 0
          /\ firsts[req[r].link] = 0 => firsts'[req[r].link] = 1
      BY <3>1, <3>3 DEF Counted
    <3> QED BY <2>3, <3>1, <3>2, <3>3, <3>4
  <2> QED BY <2>2, <2>3
<1>8. ASSUME NEW r \in Requests, Fetch(r) PROVE IInv'
  BY <1>1, <1>8 DEF Fetch
<1>9. CASE DeleteBlob \/ DeleteRow \/ UNCHANGED vars
  BY <1>9 DEF DeleteBlob, DeleteRow, vars
<1>10. CASE Tick
  BY <1>10 DEF Tick
<1> QED
  BY <1>3, <1>4, <1>5, <1>6, <1>7, <1>8, <1>9, <1>10 DEF Next

\* Signatures, records and downloads keep their types: a request always has an
\* issued link, and no link is counted twice.
THEOREM LinksTypeCorrect == Spec => []TypeOK
<1>1. IInv => TypeOK
  BY DEF IInv
<1> QED BY <1>1, InitInv, StepInv, PTL DEF Spec

\* A download link passes as unused at most once until it expires, whatever
\* downloads run in parallel and whenever the clean-up runs.
THEOREM LinkUsedOnce == Spec => []UsedOnceWhileValid
<1>1. IInv => UsedOnceWhileValid
  BY DEF IInv, Recorded, UsedOnceWhileValid
<1> QED BY <1>1, InitInv, StepInv, PTL DEF Spec

-----------------------------------------------------------------------------
(* Passkeys.                                                               *)

PasskeyInv == PasskeyTypeOK /\ passkeyCalls \in [PasskeyCalls -> Call]

LEMMA NoCallIsCall == NoCall \in Call
BY DEF NoCall, Call

\* Short sequences have the type of their elements.
LEMMA Sequences ==
  ASSUME NEW S, NEW a \in S, NEW b \in S, NEW c \in S, NEW d \in S, NEW e \in S
  PROVE  <<a>> \in Seq(S) /\ <<a, b>> \in Seq(S) /\ <<a, b, c, d>> \in Seq(S) /\ <<a, b, c, d, e>> \in Seq(S)
OBVIOUS

LEMMA PathsTyped ==
  /\ \A scope \in AllScopes : Path(scope) \in Seq(PathSteps)
  /\ {<<"sweep", "insert">>, <<"remove">>, <<"drop">>} \subseteq Seq(PathSteps)
<1>1. {"sweep", "insert", "select", "claim", "read", "touch", "count", "absent", "save", "remove",
       "drop"} = PathSteps
  BY DEF PathSteps
<1>2. /\ <<"select", "claim", "read", "touch">> \in Seq(PathSteps)
      /\ <<"read", "select", "claim", "touch">> \in Seq(PathSteps)
  BY <1>1, Sequences
<1>3. /\ <<"select", "claim", "read", "touch", "touch">> \in Seq(PathSteps)
      /\ <<"select", "claim", "count", "absent", "save">> \in Seq(PathSteps)
      /\ <<"count", "select", "claim", "absent", "save">> \in Seq(PathSteps)
  BY <1>1, Sequences
<1>4. {<<"sweep", "insert">>, <<"remove">>, <<"drop">>} \subseteq Seq(PathSteps)
  BY <1>1, Sequences
<1> QED BY <1>2, <1>3, <1>4 DEF AllScopes, Path

LEMMA PasskeyInitInv == PasskeyInit => PasskeyInv
<1> SUFFICES ASSUME PasskeyInit PROVE PasskeyInv
  OBVIOUS
<1>1. passkeyCalls \in [PasskeyCalls -> Call]
  BY NoCallIsCall DEF PasskeyInit
<1>2. PasskeyTypeOK
  BY PasskeysAssumption, <1>1 DEF PasskeyInit, PasskeyTypeOK, Unissued, Ended, ChallengeRow, Call, NoCall
<1> QED BY <1>1, <1>2 DEF PasskeyInv

\* What a request does next leaves the calls well-formed.
LEMMA CallSteps ==
  ASSUME passkeyCalls \in [PasskeyCalls -> Call], NEW r \in PasskeyCalls
  PROVE  /\ EndCall(r) => passkeyCalls' \in [PasskeyCalls -> Call]
         /\ passkeyCalls[r].path # << >> /\ Advance(r) => passkeyCalls' \in [PasskeyCalls -> Call]
         /\ \A c \in Call : StartCall(r, c) => passkeyCalls' \in [PasskeyCalls -> Call]
<1>1. EndCall(r) => passkeyCalls' \in [PasskeyCalls -> Call]
  BY NoCallIsCall DEF EndCall
<1>2. ASSUME passkeyCalls[r].path # << >>, Advance(r) PROVE passkeyCalls' \in [PasskeyCalls -> Call]
  <2>1. passkeyCalls[r] \in Call
    OBVIOUS
  <2>2. Tail(passkeyCalls[r].path) \in Seq(PathSteps)
    BY <1>2, <2>1 DEF Call
  <2>3. [passkeyCalls[r] EXCEPT !.path = Tail(@)] \in Call
    BY <2>1, <2>2 DEF Call
  <2> QED BY <1>1, <1>2, <2>3 DEF Advance
<1>3. \A c \in Call : StartCall(r, c) => passkeyCalls' \in [PasskeyCalls -> Call]
  BY DEF StartCall
<1> QED BY <1>1, <1>2, <1>3

\* The calls after any step.
LEMMA CallsTyped == PasskeyInv /\ [PasskeyNext]_passkeyVars => passkeyCalls' \in [PasskeyCalls -> Call]
<1> SUFFICES ASSUME PasskeyInv, [PasskeyNext]_passkeyVars PROVE passkeyCalls' \in [PasskeyCalls -> Call]
  OBVIOUS
<1>0. passkeyCalls \in [PasskeyCalls -> Call] /\ credentials \in [Credentials -> {"new", "login", "twoFactor", "gone"}]
  BY DEF PasskeyInv, PasskeyTypeOK
<1>s. \A s \in Scopes : s \in AllScopes
  BY PasskeysAssumption
<1>1. ASSUME NEW r \in PasskeyCalls, NEW s \in Scopes, AskOptions(r, s)
      PROVE  passkeyCalls' \in [PasskeyCalls -> Call]
  <2>1. [NoCall EXCEPT !.path = <<"sweep", "insert">>, !.scope = s] \in Call
    BY <1>s, PathsTyped DEF NoCall, Call
  <2> QED BY <1>0, <1>1, <2>1, CallSteps DEF AskOptions
<1>2. ASSUME NEW r \in PasskeyCalls, NEW s \in Scopes, NEW c \in Challenges, NEW k \in Credentials,
             Present(r, s, c, k)
      PROVE  passkeyCalls' \in [PasskeyCalls -> Call]
  <2>1. [NoCall EXCEPT !.path = Path(s), !.scope = s, !.challenge = c,
                       !.credential = k, !.stale = credentials[k] = "gone"] \in Call
    BY <1>s, PathsTyped DEF NoCall, Call
  <2> QED BY <1>0, <1>2, <2>1, CallSteps DEF Present
<1>3. ASSUME NEW r \in PasskeyCalls, NEW k \in Credentials, ListFactors(r, k)
      PROVE  passkeyCalls' \in [PasskeyCalls -> Call]
  <2>1. [NoCall EXCEPT !.path = <<"remove">>, !.credential = k,
                       !.listed = OfPurpose("twoFactor")] \in Call
    BY PathsTyped DEF NoCall, Call, OfPurpose
  <2> QED BY <1>0, <1>3, <2>1, CallSteps DEF ListFactors
<1>4. ASSUME NEW r \in PasskeyCalls, ListForRecovery(r)
      PROVE  passkeyCalls' \in [PasskeyCalls -> Call]
  <2>1. [NoCall EXCEPT !.path = <<"drop">>, !.listed = OfPurpose("twoFactor")] \in Call
    BY PathsTyped DEF NoCall, Call, OfPurpose
  <2> QED BY <1>0, <1>4, <2>1, CallSteps DEF ListForRecovery
<1>5. ASSUME NEW r \in PasskeyCalls, NEW k \in Credentials, DropFactor(r, k)
      PROVE  passkeyCalls' \in [PasskeyCalls -> Call]
  <2>1. [passkeyCalls[r] EXCEPT !.listed = @ \ {k}] \in Call
    BY <1>0 DEF Call
  <2> QED BY <1>0, <1>5, <2>1, CallSteps DEF DropFactor
<1>6. ASSUME NEW r \in PasskeyCalls,
             \/ Sweep(r) \/ (\E c \in Challenges : InsertChallenge(r, c))
             \/ SelectChallenge(r) \/ Claim(r) \/ ReadCredential(r) \/ Touch(r)
             \/ CountCredentials(r) \/ Absent(r) \/ SaveCredential(r) \/ RemoveFactor(r) \/ Abandon(r)
      PROVE  passkeyCalls' \in [PasskeyCalls -> Call]
  <2>1. (passkeyCalls[r].path # << >> /\ Advance(r)) \/ EndCall(r)
    BY <1>6 DEF Sweep, InsertChallenge, SelectChallenge, Claim, ReadCredential, Touch, CountCredentials,
                Absent, SaveCredential, RemoveFactor, Abandon, AdvanceIf, Reaches
  <2> QED BY <1>0, <2>1, CallSteps
<1>7. CASE (\E k \in Credentials : RemoveLoginPasskey(k)) \/ ChallengeTick \/ UNCHANGED passkeyVars
  BY <1>0, <1>7 DEF RemoveLoginPasskey, ChallengeTick, passkeyVars
<1> QED
  BY <1>1, <1>2, <1>3, <1>4, <1>5, <1>6, <1>7 DEF PasskeyNext

\* What a step does to the challenges: none is accepted, or one that was
\* there unused.
NoneAccepted ==
  /\ accepted' = accepted
  /\ \A c \in Challenges : challenges'[c].state \in {"new", "there"} =>
                            challenges[c].state \in {"new", "there"}
Accepts(c) ==
  /\ challenges[c].state = "there"
  /\ challenges' = [challenges EXCEPT ![c] = Ended("used")]
  /\ accepted' = [accepted EXCEPT ![c] = @ + 1]

ChallengesTyped == challenges \in [Challenges -> ChallengeRow] /\ accepted \in [Challenges -> Nat]

LEMMA EndedIsRow == \A state \in {"new", "used", "gone"} : Ended(state) \in ChallengeRow
BY PasskeysAssumption DEF Ended, ChallengeRow

LEMMA ChallengeSteps ==
  PasskeyInv /\ [PasskeyNext]_passkeyVars =>
    ChallengesTyped' /\ (NoneAccepted \/ \E c \in Challenges : Accepts(c))
<1> SUFFICES ASSUME PasskeyInv, [PasskeyNext]_passkeyVars
             PROVE  ChallengesTyped' /\ (NoneAccepted \/ \E c \in Challenges : Accepts(c))
  OBVIOUS
<1>0. ChallengesTyped /\ passkeyCalls \in [PasskeyCalls -> Call]
  BY DEF PasskeyInv, PasskeyTypeOK, ChallengesTyped
<1>1. ASSUME NEW r \in PasskeyCalls, Sweep(r) PROVE ChallengesTyped' /\ NoneAccepted
  BY <1>0, <1>1, EndedIsRow DEF Sweep, ChallengesTyped, NoneAccepted, Ended
<1>2. ASSUME NEW r \in PasskeyCalls, NEW c \in Challenges, InsertChallenge(r, c)
      PROVE  ChallengesTyped' /\ NoneAccepted
  <2>1. passkeyCalls[r].scope \in AllScopes \cup {"none"}
    BY <1>0 DEF Call
  <2>2. [state |-> "there", scope |-> passkeyCalls[r].scope, left |-> Lifetime] \in ChallengeRow
    BY <2>1, PasskeysAssumption DEF ChallengeRow, Lifetime
  <2> QED
    BY <1>0, <1>2, <2>2 DEF InsertChallenge, ChallengesTyped, NoneAccepted, Unissued, Ended
<1>3. ASSUME NEW r \in PasskeyCalls, Claim(r)
      PROVE  ChallengesTyped' /\ (NoneAccepted \/ \E c \in Challenges : Accepts(c))
  <2> DEFINE c == passkeyCalls[r].challenge
  <2>1. CASE ~Claimable(c) \/ c \notin Challenges
    <3>1. challenges' = challenges /\ accepted' = accepted
      BY <1>0, <1>3, <2>1 DEF Claim, ChallengesTyped
    <3> QED BY <1>0, <3>1 DEF ChallengesTyped, NoneAccepted
  <2>2. CASE Claimable(c) /\ c \in Challenges
    <3>1. Accepts(c)
      BY <1>3, <2>2 DEF Claim, Claimable, Accepts
    <3>2. Ended("used") \in ChallengeRow /\ c \in Challenges
      BY <2>2, EndedIsRow
    <3> HIDE DEF c
    <3>3. challenges' \in [Challenges -> ChallengeRow]
      BY <1>0, <3>1, <3>2 DEF ChallengesTyped, Accepts
    <3>4. accepted' \in [Challenges -> Nat]
      BY <1>0, <3>1, <3>2 DEF ChallengesTyped, Accepts
    <3> QED BY <3>1, <3>2, <3>3, <3>4 DEF ChallengesTyped
  <2> QED BY <2>1, <2>2
<1>4. ASSUME ChallengeTick PROVE ChallengesTyped' /\ NoneAccepted
  <2>1. \A c \in Challenges : challenges'[c] \in ChallengeRow /\ challenges'[c].state = challenges[c].state
    BY <1>0, <1>4, PasskeysAssumption DEF ChallengeTick, ChallengesTyped, ChallengeRow
  <2> QED BY <1>0, <1>4, <2>1 DEF ChallengeTick, ChallengesTyped, NoneAccepted
<1>5. CASE UNCHANGED <<challenges, accepted>>
  BY <1>0, <1>5 DEF ChallengesTyped, NoneAccepted
<1> QED
  BY <1>1, <1>2, <1>3, <1>4, <1>5
  DEF PasskeyNext, AskOptions, Present, ListFactors, DropFactor, SelectChallenge, ReadCredential,
      Touch, CountCredentials, Absent, SaveCredential, RemoveFactor, ListForRecovery, Abandon,
      RemoveLoginPasskey, passkeyVars

LEMMA CredentialsTyped ==
  PasskeyInv /\ [PasskeyNext]_passkeyVars =>
    credentials' \in [Credentials -> {"new", "login", "twoFactor", "gone"}]
<1> SUFFICES ASSUME PasskeyInv, [PasskeyNext]_passkeyVars
             PROVE  credentials' \in [Credentials -> {"new", "login", "twoFactor", "gone"}]
  OBVIOUS
<1>0. credentials \in [Credentials -> {"new", "login", "twoFactor", "gone"}]
  BY DEF PasskeyInv, PasskeyTypeOK
<1>1. ASSUME NEW k, DeleteFactor(k)
      PROVE  credentials' \in [Credentials -> {"new", "login", "twoFactor", "gone"}]
  BY <1>0, <1>1 DEF DeleteFactor
<1>2. ASSUME NEW r \in PasskeyCalls, SaveCredential(r)
      PROVE  credentials' \in [Credentials -> {"new", "login", "twoFactor", "gone"}]
  BY <1>0, <1>2 DEF SaveCredential, PurposeOf
<1>3. ASSUME NEW k \in Credentials, RemoveLoginPasskey(k)
      PROVE  credentials' \in [Credentials -> {"new", "login", "twoFactor", "gone"}]
  BY <1>0, <1>3 DEF RemoveLoginPasskey
<1>4. CASE UNCHANGED credentials
  BY <1>0, <1>4
<1> QED
  BY <1>1, <1>2, <1>3, <1>4
  DEF PasskeyNext, AskOptions, Present, InsertChallenge, ListFactors, DropFactor, Sweep,
      SelectChallenge, Claim, ReadCredential, Touch, CountCredentials, Absent, RemoveFactor,
      ListForRecovery, Abandon, ChallengeTick, passkeyVars

LEMMA PasskeyStepInv == PasskeyInv /\ [PasskeyNext]_passkeyVars => PasskeyInv'
<1> SUFFICES ASSUME PasskeyInv, [PasskeyNext]_passkeyVars PROVE PasskeyInv'
  OBVIOUS
<1>1. passkeyCalls' \in [PasskeyCalls -> Call]
  BY CallsTyped
<1>2. ChallengesTyped' /\ credentials' \in [Credentials -> {"new", "login", "twoFactor", "gone"}]
  BY ChallengeSteps, CredentialsTyped
<1> QED BY <1>1, <1>2 DEF PasskeyInv, PasskeyTypeOK, ChallengesTyped, Call

\* The tables of passkeys and challenges and the requests keep their types.
THEOREM PasskeysTyped == PasskeySpec => []PasskeyTypeOK
BY PasskeyInitInv, PasskeyStepInv, PTL DEF PasskeySpec, PasskeyInv

LEMMA ChallengeRefinesInit == PasskeyInit => Tokens!OneTimeInit
<1> SUFFICES ASSUME PasskeyInit PROVE Tokens!OneTimeInit
  OBVIOUS
<1>1. \A c \in Challenges : challenges[c].state = "new"
  BY DEF PasskeyInit, Unissued, Ended
<1> QED BY <1>1 DEF PasskeyInit, Tokens!OneTimeInit

LEMMA ChallengeRefinesNext ==
  PasskeyInv /\ [PasskeyNext]_passkeyVars => Tokens!OneTimeNext
<1> SUFFICES ASSUME PasskeyInv, [PasskeyNext]_passkeyVars PROVE Tokens!OneTimeNext
  OBVIOUS
<1>0. ChallengesTyped
  BY DEF PasskeyInv, PasskeyTypeOK, ChallengesTyped
<1>1. CASE NoneAccepted
  <2>1. Tokens!Lapse
    BY <1>1 DEF NoneAccepted, Tokens!Lapse
  <2> QED BY <2>1 DEF Tokens!OneTimeNext
<1>2. ASSUME NEW c \in Challenges, Accepts(c) PROVE Tokens!OneTimeNext
  <2>1. /\ challenges'[c].state = "used"
        /\ \A d \in Challenges : d # c => challenges'[d] = challenges[d]
    BY <1>0, <1>2 DEF Accepts, ChallengesTyped, Ended
  <2>2. Tokens!Use(c)
    BY <1>2, <2>1 DEF Accepts, Tokens!Use
  <2> QED BY <2>2 DEF Tokens!OneTimeNext
<1> QED BY <1>1, <1>2, ChallengeSteps

\* A challenge is accepted once, and never after it was swept away, however
\* many requests consume, sweep and stop: the table and its two statements
\* implement OneTimeTokens.
THEOREM ChallengesAreOneTime == PasskeySpec => ChallengesSpentOnce
<1>1. PasskeyInv /\ [PasskeyNext]_passkeyVars =>
        [Tokens!OneTimeNext]_<<{c \in Challenges : challenges[c].state \in {"new", "there"}}, accepted>>
  BY ChallengeRefinesNext
<1> QED
  BY <1>1, PasskeyInitInv, PasskeyStepInv, ChallengeRefinesInit, PTL
  DEF PasskeySpec, ChallengesSpentOnce, Tokens!OneTimeSpec

-----------------------------------------------------------------------------
(* What the requests about passkeys have still to do, and what they saw.   *)

\* The reading of the passkey is ahead of every use of it, the counting ahead
\* of every insertion.
ReadFirst(path) ==
  \A i \in 1..Len(path) : path[i] = "touch" => \E j \in 1..Len(path) : j < i /\ path[j] = "read"
CountFirst(path) ==
  \A i, j \in 1..Len(path) : path[i] = "save" /\ path[j] = "count" => j < i
Contains(path, s) == \E i \in 1..Len(path) : path[i] = s

\* creds: the passkeys as they are.  A key that was gone when the request began
\* is gone for good; a removal has listed two keys that are in use or gone.
StaleOK(c, creds) == c.stale => /\ c.credential \in Credentials
                                /\ creds[c.credential] = "gone"
                                /\ ReadFirst(c.path)
RemovalOK(c, creds) == Contains(c.path, "remove") =>
  /\ c.path = <<"remove">>
  /\ Cardinality(c.listed) >= 2
  /\ \A k \in c.listed : creds[k] \in {"twoFactor", "gone"}
CallOK(c, creds) == StaleOK(c, creds) /\ RemovalOK(c, creds) /\ CountFirst(c.path)

CallsOK == \A r \in PasskeyCalls : CallOK(passkeyCalls[r], credentials)

LEMMA PathOrders ==
  /\ \A s \in AllScopes : /\ ReadFirst(Path(s)) /\ CountFirst(Path(s)) /\ ~Contains(Path(s), "remove")
                          /\ Contains(Path(s), "save") => Contains(Path(s), "count")
  /\ \A path \in {<< >>, <<"sweep", "insert">>, <<"drop">>, <<"remove">>} :
       ReadFirst(path) /\ CountFirst(path) /\ ~Contains(path, "save")
  /\ \A path \in {<< >>, <<"sweep", "insert">>, <<"drop">>} : ~Contains(path, "remove")
<1>1. ASSUME NEW s \in AllScopes
      PROVE  /\ ReadFirst(Path(s)) /\ CountFirst(Path(s)) /\ ~Contains(Path(s), "remove")
             /\ Contains(Path(s), "save") => Contains(Path(s), "count")
  <2>1. CASE s = "Authentication"
    <3>1. Path(s) = <<"select", "claim", "read", "touch">>
      BY <2>1 DEF Path
    <3> QED BY <3>1 DEF ReadFirst, CountFirst, Contains
  <2>2. CASE s = "UpdateKeySet"
    <3>1. Path(s) = <<"select", "claim", "read", "touch", "touch">>
      BY <2>2 DEF Path
    <3> QED BY <3>1 DEF ReadFirst, CountFirst, Contains
  <2>3. CASE s = "TwoFactorAuthentication"
    <3>1. Path(s) = <<"read", "select", "claim", "touch">>
      BY <2>3 DEF Path
    <3> QED BY <3>1 DEF ReadFirst, CountFirst, Contains
  <2>4. CASE s = "CreateCredential"
    <3>1. Path(s) = <<"select", "claim", "count", "absent", "save">>
      BY <2>4 DEF Path
    <3> QED BY <3>1 DEF ReadFirst, CountFirst, Contains
  <2>5. CASE s = "TwoFactorCreate"
    <3>1. Path(s) = <<"count", "select", "claim", "absent", "save">>
      BY <2>5 DEF Path
    <3> QED BY <3>1 DEF ReadFirst, CountFirst, Contains
  <2> QED BY <2>1, <2>2, <2>3, <2>4, <2>5 DEF AllScopes
<1>2. \A path \in {<< >>, <<"sweep", "insert">>, <<"drop">>, <<"remove">>} :
        ReadFirst(path) /\ CountFirst(path) /\ ~Contains(path, "save")
  BY DEF ReadFirst, CountFirst, Contains
<1>3. \A path \in {<< >>, <<"sweep", "insert">>, <<"drop">>} : ~Contains(path, "remove")
  BY DEF Contains
<1> QED BY <1>1, <1>2, <1>3

\* The rest of a path keeps its order.
LEMMA RestOfPath ==
  ASSUME NEW path \in Seq(PathSteps), path # << >>
  PROVE  /\ \A s : Contains(Tail(path), s) => Contains(path, s)
         /\ \A s : Contains(path, s) /\ Head(path) # s => Contains(Tail(path), s)
         /\ CountFirst(path) => CountFirst(Tail(path))
         /\ ReadFirst(path) => Head(path) # "touch"
         /\ ReadFirst(path) /\ Head(path) # "read" => ReadFirst(Tail(path))
<1>1. /\ Len(path) \in Nat \ {0} /\ Len(Tail(path)) = Len(path) - 1 /\ Head(path) = path[1]
      /\ \A i \in 1..Len(Tail(path)) : i + 1 \in 1..Len(path) /\ Tail(path)[i] = path[i + 1]
      /\ \A i \in 1..Len(path) : i # 1 => i - 1 \in 1..Len(Tail(path)) /\ Tail(path)[i - 1] = path[i]
  OBVIOUS
<1>2. \A s : Contains(Tail(path), s) => Contains(path, s)
  BY <1>1 DEF Contains
<1>3. \A s : Contains(path, s) /\ Head(path) # s => Contains(Tail(path), s)
  BY <1>1 DEF Contains
<1>4. ASSUME CountFirst(path) PROVE CountFirst(Tail(path))
  <2> SUFFICES ASSUME NEW i \in 1..Len(Tail(path)), NEW j \in 1..Len(Tail(path)),
                      Tail(path)[i] = "save", Tail(path)[j] = "count"
               PROVE  j < i
    BY DEF CountFirst
  <2>1. j + 1 < i + 1
    BY <1>1, <1>4 DEF CountFirst
  <2> QED BY <2>1
<1>5. ReadFirst(path) => Head(path) # "touch"
  BY <1>1 DEF ReadFirst
<1>6. ASSUME ReadFirst(path), Head(path) # "read" PROVE ReadFirst(Tail(path))
  <2> SUFFICES ASSUME NEW i \in 1..Len(Tail(path)), Tail(path)[i] = "touch"
               PROVE  \E j \in 1..Len(Tail(path)) : j < i /\ Tail(path)[j] = "read"
    BY DEF ReadFirst
  <2>1. PICK j \in 1..Len(path) : j < i + 1 /\ path[j] = "read"
    BY <1>1, <1>6 DEF ReadFirst
  <2>2. j # 1
    BY <1>1, <1>6, <2>1
  <2>3. j - 1 \in 1..Len(Tail(path)) /\ Tail(path)[j - 1] = "read" /\ j - 1 < i
    BY <1>1, <2>1, <2>2
  <2> QED BY <2>3
<1> QED BY <1>2, <1>3, <1>4, <1>5, <1>6

-----------------------------------------------------------------------------
(* The ways a request moves on.                                            *)
Fresh(c) ==
  \/ c.path \in {<<"sweep", "insert">>, <<"drop">>} /\ ~c.stale
  \/ /\ \E s \in AllScopes : c.path = Path(s)
     /\ c.stale => c.credential \in Credentials /\ credentials[c.credential] = "gone"
  \/ /\ c.path = <<"remove">> /\ ~c.stale
     /\ c.listed = OfPurpose("twoFactor") /\ Cardinality(c.listed) >= 2

Begins(r) == /\ credentials' = credentials
             /\ \E c \in Call : Fresh(c) /\ passkeyCalls' = [passkeyCalls EXCEPT ![r] = c]

Proceeds(r) ==
  LET c == passkeyCalls[r]
  IN  /\ credentials' = credentials
      /\ c.path # << >> /\ Head(c.path) \notin {"remove", "save"}
      /\ Head(c.path) = "read" => Registered(c.credential, PurposeOf(c.scope))
      /\ Head(c.path) = "count" => BelowLimit(PurposeOf(c.scope))
      /\ passkeyCalls' = [passkeyCalls EXCEPT ![r].path = Tail(@)]

Ends(r) == EndCall(r) /\ (credentials' = credentials \/ \E k : DeleteFactor(k))

Saves(r) == Reaches(r, "save") /\ SaveCredential(r)

Drops(r) == /\ Reaches(r, "drop")
            /\ \E k : /\ DeleteFactor(k)
                      /\ passkeyCalls' = [passkeyCalls EXCEPT ![r].listed = @ \ {k}]

CallMove(r) == Begins(r) \/ Proceeds(r) \/ Ends(r) \/ Saves(r) \/ Drops(r)

NoCallMove == /\ passkeyCalls' = passkeyCalls
              /\ credentials' = credentials \/ \E k \in Credentials : RemoveLoginPasskey(k)

LEMMA CallMoves ==
  ASSUME PasskeyInv, [PasskeyNext]_passkeyVars
  PROVE  NoCallMove \/ \E r \in PasskeyCalls : CallMove(r)
<1>0. passkeyCalls \in [PasskeyCalls -> Call]
  BY DEF PasskeyInv
<1>s. \A s \in Scopes : s \in AllScopes
  BY PasskeysAssumption
<1>1. ASSUME NEW r \in PasskeyCalls, NEW s \in Scopes, AskOptions(r, s) PROVE Begins(r)
  <2> DEFINE c == [NoCall EXCEPT !.path = <<"sweep", "insert">>, !.scope = s]
  <2>1. c \in Call
    BY <1>s, PathsTyped DEF NoCall, Call
  <2>2. c.path = <<"sweep", "insert">> /\ ~c.stale
    BY DEF NoCall
  <2>3. Fresh(c)
    BY <2>2 DEF Fresh
  <2> QED BY <1>1, <2>1, <2>3 DEF AskOptions, StartCall, Begins
<1>2. ASSUME NEW r \in PasskeyCalls, NEW s \in Scopes, NEW h \in Challenges, NEW k \in Credentials,
             Present(r, s, h, k)
      PROVE  Begins(r)
  <2> DEFINE c == [NoCall EXCEPT !.path = Path(s), !.scope = s, !.challenge = h,
                                 !.credential = k, !.stale = credentials[k] = "gone"]
  <2>1. c \in Call
    BY <1>s, PathsTyped DEF NoCall, Call
  <2>2. c.path = Path(s) /\ c.credential = k /\ c.stale = (credentials[k] = "gone")
    BY DEF NoCall
  <2>3. Fresh(c)
    BY <1>s, <2>2 DEF Fresh
  <2> QED BY <1>2, <2>1, <2>3 DEF Present, StartCall, Begins
<1>3. ASSUME NEW r \in PasskeyCalls, NEW k \in Credentials, ListFactors(r, k) PROVE Begins(r)
  <2> DEFINE c == [NoCall EXCEPT !.path = <<"remove">>, !.credential = k,
                                 !.listed = OfPurpose("twoFactor")]
  <2>1. c \in Call
    BY PathsTyped DEF NoCall, Call, OfPurpose
  <2>2. c.path = <<"remove">> /\ ~c.stale /\ c.listed = OfPurpose("twoFactor")
    BY DEF NoCall
  <2>3. Fresh(c)
    BY <1>3, <2>2 DEF Fresh, ListFactors, Spare
  <2> QED BY <1>3, <2>1, <2>3 DEF ListFactors, StartCall, Begins
<1>4. ASSUME NEW r \in PasskeyCalls, ListForRecovery(r) PROVE Begins(r)
  <2> DEFINE c == [NoCall EXCEPT !.path = <<"drop">>, !.listed = OfPurpose("twoFactor")]
  <2>1. c \in Call
    BY PathsTyped DEF NoCall, Call, OfPurpose
  <2>2. c.path = <<"drop">> /\ ~c.stale
    BY DEF NoCall
  <2>3. Fresh(c)
    BY <2>2 DEF Fresh
  <2> QED BY <1>4, <2>1, <2>3 DEF ListForRecovery, StartCall, Begins
<1>5. ASSUME NEW r \in PasskeyCalls, NEW k \in Credentials, DropFactor(r, k) PROVE Drops(r) \/ Ends(r)
  BY <1>5 DEF DropFactor, Drops, Ends
<1>6. ASSUME NEW r \in PasskeyCalls,
             \/ Sweep(r) \/ (\E c \in Challenges : InsertChallenge(r, c))
             \/ SelectChallenge(r) \/ Claim(r) \/ ReadCredential(r) \/ Touch(r)
             \/ CountCredentials(r) \/ Absent(r) \/ Abandon(r)
      PROVE  Proceeds(r) \/ Ends(r)
  <2>1. credentials' = credentials
    BY <1>6 DEF Sweep, InsertChallenge, SelectChallenge, Claim, ReadCredential, Touch, CountCredentials,
                Absent, Abandon
  <2>2. CASE EndCall(r)
    BY <2>1, <2>2 DEF Ends
  <2>3. CASE ~EndCall(r)
    <3>1. passkeyCalls' = [passkeyCalls EXCEPT ![r].path = Tail(@)] /\ passkeyCalls[r].path # << >>
      BY <1>6, <2>3
      DEF Sweep, InsertChallenge, SelectChallenge, Claim, ReadCredential, Touch, CountCredentials,
          Absent, Abandon, AdvanceIf, Advance, Reaches
    <3>2. Head(passkeyCalls[r].path) \notin {"remove", "save"}
      BY <1>6, <2>3
      DEF Sweep, InsertChallenge, SelectChallenge, Claim, ReadCredential, Touch, CountCredentials,
          Absent, Abandon, Reaches
    <3>3. Head(passkeyCalls[r].path) = "read" =>
            Registered(passkeyCalls[r].credential, PurposeOf(passkeyCalls[r].scope))
      BY <1>6, <2>3
      DEF Sweep, InsertChallenge, SelectChallenge, Claim, ReadCredential, Touch, CountCredentials,
          Absent, Abandon, Reaches, AdvanceIf
    <3>4. Head(passkeyCalls[r].path) = "count" => BelowLimit(PurposeOf(passkeyCalls[r].scope))
      BY <1>6, <2>3
      DEF Sweep, InsertChallenge, SelectChallenge, Claim, ReadCredential, Touch, CountCredentials,
          Absent, Abandon, Reaches, AdvanceIf
    <3> QED BY <2>1, <3>1, <3>2, <3>3, <3>4 DEF Proceeds
  <2> QED BY <2>2, <2>3
<1>7. ASSUME NEW r \in PasskeyCalls, SaveCredential(r) PROVE Saves(r)
  BY <1>7 DEF Saves, SaveCredential
<1>8. ASSUME NEW r \in PasskeyCalls, RemoveFactor(r) PROVE Ends(r)
  BY <1>8 DEF RemoveFactor, Ends
<1>9. CASE (\E k \in Credentials : RemoveLoginPasskey(k)) \/ ChallengeTick \/ UNCHANGED passkeyVars
  BY <1>9 DEF RemoveLoginPasskey, ChallengeTick, passkeyVars, NoCallMove
<1> QED
  BY <1>1, <1>2, <1>3, <1>4, <1>5, <1>6, <1>7, <1>8, <1>9 DEF PasskeyNext, CallMove

-----------------------------------------------------------------------------
(* A passkey that is gone stays gone, and a call that has seen it knows.   *)
KeysStay == \A k : credentials[k] \in {"twoFactor", "gone"} /\ k \in Credentials =>
                     /\ credentials'[k] \in {"twoFactor", "gone"}
                     /\ credentials[k] = "gone" => credentials'[k] = "gone"

LEMMA CredentialMove ==
  ASSUME PasskeyInv, [PasskeyNext]_passkeyVars
  PROVE  KeysStay
<1>0. credentials \in [Credentials -> {"new", "login", "twoFactor", "gone"}]
  BY DEF PasskeyInv, PasskeyTypeOK
<1>1. ASSUME NEW k, DeleteFactor(k) PROVE KeysStay
  BY <1>0, <1>1 DEF DeleteFactor, KeysStay
<1>2. ASSUME NEW k, RemoveLoginPasskey(k) PROVE KeysStay
  BY <1>0, <1>2 DEF RemoveLoginPasskey, KeysStay
<1>3. ASSUME NEW r \in PasskeyCalls, Saves(r) PROVE KeysStay
  BY <1>0, <1>3 DEF Saves, SaveCredential, KeysStay
<1>4. CASE credentials' = credentials
  BY <1>0, <1>4 DEF KeysStay
<1> QED
  BY <1>1, <1>2, <1>3, <1>4, CallMoves DEF NoCallMove, CallMove, Begins, Proceeds, Ends, Drops

LEMMA CallStays ==
  ASSUME PasskeyInv, KeysStay, NEW c \in Call, CallOK(c, credentials)
  PROVE  CallOK(c, credentials')
BY DEF KeysStay, CallOK, StaleOK, RemovalOK, Call

LEMMA CallsOKInit == PasskeyInit => CallsOK
<1> SUFFICES ASSUME PasskeyInit, NEW r \in PasskeyCalls PROVE CallOK(passkeyCalls[r], credentials)
  BY DEF CallsOK
<1>1. passkeyCalls[r].path = << >> /\ ~passkeyCalls[r].stale
  BY DEF PasskeyInit, NoCall
<1> QED BY <1>1, PathOrders DEF CallOK, StaleOK, RemovalOK

\* A step makes one call another good one.
LEMMA OneCallChanges ==
  ASSUME PasskeyInv, CallsOK, KeysStay, NEW r \in PasskeyCalls, NEW c,
         CallOK(c, credentials'), passkeyCalls' = [passkeyCalls EXCEPT ![r] = c]
  PROVE  CallsOK'
<1> SUFFICES ASSUME NEW q \in PasskeyCalls PROVE CallOK(passkeyCalls'[q], credentials')
  BY DEF CallsOK
<1>1. passkeyCalls[q] \in Call /\ CallOK(passkeyCalls[q], credentials)
  BY DEF PasskeyInv, CallsOK
<1>2. CASE q = r
  BY <1>2 DEF PasskeyInv
<1>3. CASE q # r
  <2>1. passkeyCalls'[q] = passkeyCalls[q]
    BY <1>3 DEF PasskeyInv
  <2> QED BY <1>1, <2>1, CallStays
<1> QED BY <1>2, <1>3

LEMMA CallsOKStep == PasskeyInv /\ CallsOK /\ [PasskeyNext]_passkeyVars => CallsOK'
<1> SUFFICES ASSUME PasskeyInv, CallsOK, [PasskeyNext]_passkeyVars PROVE CallsOK'
  OBVIOUS
<1>k. KeysStay
  BY CredentialMove
<1>n. CallOK(NoCall, credentials')
  <2>1. NoCall.path = << >> /\ ~NoCall.stale
    BY DEF NoCall
  <2> QED BY <2>1, PathOrders DEF CallOK, StaleOK, RemovalOK
<1>0. ASSUME NEW r \in PasskeyCalls
      PROVE  /\ passkeyCalls[r] \in Call /\ CallOK(passkeyCalls[r], credentials)
             /\ CallOK(passkeyCalls[r], credentials')
  BY <1>k, CallStays DEF PasskeyInv, CallsOK
<1>1. ASSUME NEW r \in PasskeyCalls, Begins(r) PROVE CallsOK'
  <2>1. PICK c \in Call : Fresh(c) /\ passkeyCalls' = [passkeyCalls EXCEPT ![r] = c]
    BY <1>1 DEF Begins
  <2>2. ReadFirst(c.path) /\ CountFirst(c.path)
    BY <2>1, PathOrders DEF Fresh
  <2>3. Contains(c.path, "remove") => /\ c.path = <<"remove">> /\ c.listed = OfPurpose("twoFactor")
                                   /\ Cardinality(c.listed) >= 2
    BY <2>1, PathOrders DEF Fresh
  <2>4. \A k \in OfPurpose("twoFactor") : credentials[k] = "twoFactor"
    BY DEF OfPurpose
  <2>5. c.stale => c.credential \in Credentials /\ credentials[c.credential] = "gone"
    BY <2>1 DEF Fresh
  <2>6. CallOK(c, credentials)
    BY <2>2, <2>3, <2>4, <2>5 DEF CallOK, StaleOK, RemovalOK
  <2> QED BY <1>k, <2>1, <2>6, CallStays, OneCallChanges
<1>2. ASSUME NEW r \in PasskeyCalls, Proceeds(r) PROVE CallsOK'
  <2> DEFINE c == passkeyCalls[r]
             d == [c EXCEPT !.path = Tail(@)]
  <2>1. /\ c \in Call /\ CallOK(c, credentials) /\ c.path \in Seq(PathSteps) /\ c.path # << >>
        /\ d.path = Tail(c.path) /\ d.stale = c.stale /\ d.credential = c.credential
    BY <1>0, <1>2 DEF Proceeds, Call
  <2>2. passkeyCalls' = [passkeyCalls EXCEPT ![r] = d] /\ credentials' = credentials
    BY <1>2 DEF Proceeds
  <2>3. ~Contains(d.path, "remove")
    <3>1. Contains(c.path, "remove") => c.path = <<"remove">>
      BY <2>1 DEF CallOK, RemovalOK
    <3>2. Head(c.path) # "remove"
      BY <1>2 DEF Proceeds
    <3>3. Head(<<"remove">>) = "remove"
      OBVIOUS
    <3> QED BY <2>1, <3>1, <3>2, <3>3, RestOfPath
  <2>4. CountFirst(d.path)
    BY <2>1, RestOfPath DEF CallOK
  <2>5. ASSUME c.stale PROVE ReadFirst(d.path)
    <3>1. ReadFirst(c.path) /\ credentials[c.credential] = "gone"
      BY <2>1, <2>5 DEF CallOK, StaleOK
    <3>2. Head(c.path) # "read"
      BY <1>2, <3>1 DEF Proceeds, Registered, PurposeOf
    <3> QED BY <2>1, <3>1, <3>2, RestOfPath
  <2>6. CallOK(d, credentials')
    BY <2>1, <2>2, <2>3, <2>4, <2>5 DEF CallOK, StaleOK, RemovalOK
  <2> HIDE DEF d
  <2> QED BY <1>k, <2>2, <2>6, OneCallChanges
<1>3. ASSUME NEW r \in PasskeyCalls, Ends(r) \/ Saves(r) PROVE CallsOK'
  <2>1. passkeyCalls' = [passkeyCalls EXCEPT ![r] = NoCall]
    BY <1>3 DEF Ends, Saves, SaveCredential, EndCall
  <2> QED BY <1>k, <1>n, <2>1, OneCallChanges
<1>4. ASSUME NEW r \in PasskeyCalls, Drops(r) PROVE CallsOK'
  <2> DEFINE c == passkeyCalls[r]
  <2>1. PICK k : passkeyCalls' = [passkeyCalls EXCEPT ![r].listed = @ \ {k}]
    BY <1>4 DEF Drops
  <2> DEFINE d == [c EXCEPT !.listed = @ \ {k}]
  <2>2. passkeyCalls' = [passkeyCalls EXCEPT ![r] = d]
    BY <2>1
  <2>3. /\ c \in Call /\ CallOK(c, credentials')
        /\ d.path = c.path /\ d.stale = c.stale /\ d.credential = c.credential
    BY <1>0 DEF Call
  <2>4. ~Contains(c.path, "remove")
    <3>1. Contains(c.path, "remove") => c.path = <<"remove">>
      BY <2>3 DEF CallOK, RemovalOK
    <3>2. Head(c.path) = "drop" /\ Head(<<"remove">>) = "remove"
      BY <1>4 DEF Drops, Reaches
    <3> QED BY <3>1, <3>2
  <2>5. CallOK(d, credentials')
    BY <2>3, <2>4 DEF CallOK, StaleOK, RemovalOK
  <2> HIDE DEF d
  <2> QED BY <1>k, <2>2, <2>5, OneCallChanges
<1>5. CASE NoCallMove
  BY <1>0, <1>5 DEF NoCallMove, CallsOK
<1> QED BY <1>1, <1>2, <1>3, <1>4, <1>5, CallMoves DEF CallMove

\* A request that begins after its passkey was removed never reaches the
\* statement that uses it: the reading of the passkey is still ahead of it, and
\* a passkey that is gone does not come back.
THEOREM RemovedKeysStayRefused == PasskeySpec => []RemovedKeyRefused
<1>1. PasskeyInv /\ CallsOK => RemovedKeyRefused
  <2> SUFFICES ASSUME PasskeyInv, CallsOK, NEW r \in PasskeyCalls, Reaches(r, "touch"),
                      passkeyCalls[r].stale
               PROVE  FALSE
    BY DEF RemovedKeyRefused, PasskeyInv, Call
  <2>1. passkeyCalls[r].path \in Seq(PathSteps) /\ passkeyCalls[r].path # << >>
    BY DEF Reaches, PasskeyInv, Call
  <2>2. ReadFirst(passkeyCalls[r].path)
    BY DEF CallsOK, CallOK, StaleOK
  <2> QED BY <2>1, <2>2, RestOfPath DEF Reaches
<1> QED
  BY <1>1, PasskeyInitInv, PasskeyStepInv, CallsOKInit, CallsOKStep, PTL DEF PasskeySpec

-----------------------------------------------------------------------------
(* The last second-factor passkey.                                         *)
LastGoesExcused ==
  (OfPurpose("twoFactor") # {} /\ OfPurpose("twoFactor")' = {}) =>
    \E r \in PasskeyCalls :
      \/ Reaches(r, "drop")
      \/ /\ Reaches(r, "remove")
         /\ \E k \in passkeyCalls[r].listed \ {passkeyCalls[r].credential} :
              credentials[k] = "gone"

\* What takes a second factor away is a removal or a recovery.
LEMMA FactorGoes ==
  ASSUME PasskeyInv, [PasskeyNext]_passkeyVars, NEW k \in Credentials,
         credentials[k] = "twoFactor", credentials'[k] # "twoFactor"
  PROVE  \E r \in PasskeyCalls : Reaches(r, "drop") \/ (Reaches(r, "remove") /\ RemoveFactor(r))
<1>0. credentials \in [Credentials -> {"new", "login", "twoFactor", "gone"}]
  BY DEF PasskeyInv, PasskeyTypeOK
<1>1. ASSUME NEW r \in PasskeyCalls, SaveCredential(r) PROVE FALSE
  BY <1>0, <1>1 DEF SaveCredential
<1>2. ASSUME NEW l \in Credentials, RemoveLoginPasskey(l) PROVE FALSE
  BY <1>0, <1>2 DEF RemoveLoginPasskey
<1>3. credentials' # credentials
  OBVIOUS
<1> QED
  BY <1>1, <1>2, <1>3
  DEF PasskeyNext, AskOptions, Present, InsertChallenge, ListFactors, DropFactor, Sweep,
      SelectChallenge, Claim, ReadCredential, Touch, CountCredentials, Absent, RemoveFactor,
      ListForRecovery, Abandon, ChallengeTick, passkeyVars

LEMMA TwoListed ==
  ASSUME NEW S, IsFiniteSet(S), Cardinality(S) >= 2, NEW x
  PROVE  \E k \in S : k # x
<1> SUFFICES ASSUME \A k \in S : k = x PROVE FALSE
  OBVIOUS
<1>1. S \subseteq {x} /\ IsFiniteSet({x}) /\ Cardinality({x}) = 1
  BY FS_Singleton
<1>2. Cardinality(S) <= 1 /\ Cardinality(S) \in Nat
  BY <1>1, FS_Subset, FS_CardinalityType
<1> QED BY <1>2

\* The account loses its last second-factor passkey only to a recovery, or to
\* a removal whose list another removal has overtaken.
THEOREM LastFactorIsKept == PasskeySpec => LastFactorKept
<1>1. ASSUME PasskeyInv, CallsOK, [PasskeyNext]_passkeyVars PROVE LastGoesExcused
  <2> SUFFICES ASSUME OfPurpose("twoFactor") # {}, OfPurpose("twoFactor")' = {}
               PROVE  \E r \in PasskeyCalls :
                        \/ Reaches(r, "drop")
                        \/ /\ Reaches(r, "remove")
                           /\ \E k \in passkeyCalls[r].listed \ {passkeyCalls[r].credential} :
                                credentials[k] = "gone"
    BY DEF LastGoesExcused
  <2>1. PICK k \in Credentials : credentials[k] = "twoFactor" /\ credentials'[k] # "twoFactor"
    BY DEF OfPurpose
  <2>2. PICK r \in PasskeyCalls : Reaches(r, "drop") \/ (Reaches(r, "remove") /\ RemoveFactor(r))
    BY <1>1, <2>1, FactorGoes
  <2>3. CASE Reaches(r, "drop")
    BY <2>3
  <2>4. CASE Reaches(r, "remove") /\ RemoveFactor(r)
    <3>1. passkeyCalls[r] \in Call /\ passkeyCalls[r].path \in Seq(PathSteps)
          /\ passkeyCalls[r].path # << >> /\ Head(passkeyCalls[r].path) = "remove"
      BY <1>1, <2>4 DEF Reaches, PasskeyInv, Call
    <3>2. Contains(passkeyCalls[r].path, "remove")
      BY <3>1 DEF Contains
    <3>3. /\ Cardinality(passkeyCalls[r].listed) >= 2
          /\ \A l \in passkeyCalls[r].listed : credentials[l] \in {"twoFactor", "gone"}
      BY <1>1, <3>2 DEF CallsOK, CallOK, RemovalOK
    <3>4. passkeyCalls[r].listed \subseteq Credentials /\ IsFiniteSet(passkeyCalls[r].listed)
      BY <3>1, PasskeysAssumption, FS_Subset DEF Call
    <3>5. PICK l \in passkeyCalls[r].listed : l # passkeyCalls[r].credential
      BY <3>3, <3>4, TwoListed
    <3>6. credentials'[l] = credentials[l]
      BY <2>4, <3>4, <3>5 DEF RemoveFactor, DeleteFactor, PasskeyInv, PasskeyTypeOK
    <3>7. credentials'[l] # "twoFactor"
      BY <3>4 DEF OfPurpose
    <3> QED BY <2>4, <3>3, <3>5, <3>6, <3>7
  <2> QED BY <2>2, <2>3, <2>4
<1>2. ASSUME PasskeyInv, CallsOK, [PasskeyNext]_passkeyVars
      PROVE  [LastGoesExcused]_passkeyVars
  BY <1>1, <1>2
<1>3. PasskeySpec => [][LastGoesExcused]_passkeyVars
  BY <1>2, PasskeyInitInv, PasskeyStepInv, CallsOKInit, CallsOKStep, PTL DEF PasskeySpec
<1> QED BY <1>3 DEF LastFactorKept, LastGoesExcused

-----------------------------------------------------------------------------
(* The limit on passkeys.                                                  *)

\* The requests that have counted the passkeys of a purpose and not inserted
\* theirs yet: each may add one.
ToInsert(p) == {r \in PasskeyCalls : /\ Contains(passkeyCalls[r].path, "save")
                                     /\ ~Contains(passkeyCalls[r].path, "count")
                                     /\ PurposeOf(passkeyCalls[r].scope) = p}

Room(p) == Cardinality(OfPurpose(p)) + Cardinality(ToInsert(p))
             <= MaxPasskeys - 1 + Cardinality(PasskeyCalls)

RoomLeft == \A p \in {"login", "twoFactor"} : Room(p)

LEMMA Sizes ==
  /\ \A p : /\ IsFiniteSet(OfPurpose(p)) /\ Cardinality(OfPurpose(p)) \in Nat
            /\ IsFiniteSet(ToInsert(p)) /\ Cardinality(ToInsert(p)) \in Nat
            /\ Cardinality(ToInsert(p)) <= Cardinality(PasskeyCalls)
  /\ Cardinality(PasskeyCalls) \in Nat \ {0}
<1>1. \A p : OfPurpose(p) \subseteq Credentials /\ ToInsert(p) \subseteq PasskeyCalls
  BY DEF OfPurpose, ToInsert
<1>2. Cardinality(PasskeyCalls) \in Nat \ {0}
  BY PasskeysAssumption, FS_CardinalityType, FS_EmptySet
<1> QED BY <1>1, <1>2, PasskeysAssumption, FS_Subset, FS_CardinalityType

LEMMA SizesNext ==
  \A p : /\ IsFiniteSet(OfPurpose(p)') /\ Cardinality(OfPurpose(p)') \in Nat
         /\ IsFiniteSet(ToInsert(p)') /\ Cardinality(ToInsert(p)') \in Nat
         /\ Cardinality(ToInsert(p)') <= Cardinality(PasskeyCalls)
<1>1. \A p : OfPurpose(p)' \subseteq Credentials /\ ToInsert(p)' \subseteq PasskeyCalls
  BY DEF OfPurpose, ToInsert
<1> QED BY <1>1, PasskeysAssumption, FS_Subset, FS_CardinalityType

\* Fewer of both leave the room there was.
LEMMA RoomStays ==
  ASSUME NEW p, Room(p), OfPurpose(p)' \subseteq OfPurpose(p), ToInsert(p)' \subseteq ToInsert(p)
  PROVE  Cardinality(OfPurpose(p)') + Cardinality(ToInsert(p)')
           <= MaxPasskeys - 1 + Cardinality(PasskeyCalls)
<1>1. Cardinality(OfPurpose(p)') <= Cardinality(OfPurpose(p))
  BY Sizes, FS_Subset
<1>2. Cardinality(ToInsert(p)') <= Cardinality(ToInsert(p))
  BY Sizes, FS_Subset
<1> QED BY <1>1, <1>2, Sizes, SizesNext, PasskeysAssumption DEF Room

LEMMA RoomInit == PasskeyInit => RoomLeft
<1> SUFFICES ASSUME PasskeyInit, NEW p \in {"login", "twoFactor"} PROVE Room(p)
  BY DEF RoomLeft
<1>1. ToInsert(p) = {}
  <2>1. \A r \in PasskeyCalls : passkeyCalls[r].path = << >>
    BY DEF PasskeyInit, NoCall
  <2> QED BY <2>1, PathOrders DEF ToInsert
<1>2. Cardinality(OfPurpose(p)) <= MaxPasskeys
  BY DEF PasskeyInit
<1> QED BY <1>1, <1>2, Sizes, FS_EmptySet, PasskeysAssumption DEF Room

\* A call that changed counts only if it counted before.
LEMMA ToInsertAfter ==
  ASSUME PasskeyInv, NEW r \in PasskeyCalls, NEW c, passkeyCalls' = [passkeyCalls EXCEPT ![r] = c],
         NEW p
  PROVE  /\ ToInsert(p)' \subseteq ToInsert(p) \cup {r}
         /\ (Contains(c.path, "save") /\ ~Contains(c.path, "count") /\ PurposeOf(c.scope) = p => r \in ToInsert(p))
              => ToInsert(p)' \subseteq ToInsert(p)
         /\ ~Contains(c.path, "save") => ToInsert(p)' \subseteq ToInsert(p) \ {r}
<1>1. \A q \in PasskeyCalls : passkeyCalls'[q] = IF q = r THEN c ELSE passkeyCalls[q]
  BY DEF PasskeyInv
<1>2. \A q \in ToInsert(p)' : IF q = r
                               THEN Contains(c.path, "save") /\ ~Contains(c.path, "count") /\ PurposeOf(c.scope) = p
                               ELSE q \in ToInsert(p)
  BY <1>1 DEF ToInsert
<1> QED BY <1>2

LEMMA OneMore ==
  ASSUME NEW S, IsFiniteSet(S), NEW x, NEW T, T \subseteq S \cup {x}
  PROVE  Cardinality(T) <= Cardinality(S) + 1
<1>1. IsFiniteSet(S \cup {x}) /\ Cardinality(S) \in Nat
  BY FS_AddElement, FS_CardinalityType
<1>2. Cardinality(S \cup {x}) = IF x \in S THEN Cardinality(S) ELSE Cardinality(S) + 1
  BY FS_AddElement
<1>3. IsFiniteSet(T) /\ Cardinality(T) <= Cardinality(S \cup {x})
  BY <1>1, FS_Subset
<1>4. Cardinality(T) \in Nat
  BY <1>3, FS_CardinalityType
<1> QED BY <1>1, <1>2, <1>3, <1>4

LEMMA RoomStep == PasskeyInv /\ CallsOK /\ RoomLeft /\ [PasskeyNext]_passkeyVars => RoomLeft'
<1> SUFFICES ASSUME PasskeyInv, CallsOK, RoomLeft, [PasskeyNext]_passkeyVars,
                    NEW p \in {"login", "twoFactor"}
             PROVE  Cardinality(OfPurpose(p)') + Cardinality(ToInsert(p)')
                      <= MaxPasskeys - 1 + Cardinality(PasskeyCalls)
  BY DEF RoomLeft, Room
<1>r. Room(p)
  BY DEF RoomLeft
<1>c. credentials \in [Credentials -> {"new", "login", "twoFactor", "gone"}]
  BY DEF PasskeyInv, PasskeyTypeOK
<1>d. ASSUME NEW k, DeleteFactor(k) PROVE OfPurpose(p)' \subseteq OfPurpose(p)
  BY <1>c, <1>d DEF DeleteFactor, OfPurpose
<1>e. credentials' = credentials => OfPurpose(p)' = OfPurpose(p)
  BY DEF OfPurpose
<1>1. ASSUME NEW r \in PasskeyCalls, Begins(r) PROVE ToInsert(p)' \subseteq ToInsert(p)
  <2>1. PICK c \in Call : Fresh(c) /\ passkeyCalls' = [passkeyCalls EXCEPT ![r] = c]
    BY <1>1 DEF Begins
  <2>2. ~(Contains(c.path, "save") /\ ~Contains(c.path, "count"))
    BY <2>1, PathOrders DEF Fresh
  <2> QED BY <2>1, <2>2, ToInsertAfter
<1>2. ASSUME NEW r \in PasskeyCalls, Proceeds(r)
      PROVE  \/ ToInsert(p)' \subseteq ToInsert(p)
             \/ BelowLimit(p)
  <2> DEFINE c == passkeyCalls[r]
             d == [c EXCEPT !.path = Tail(@)]
  <2>1. /\ c.path \in Seq(PathSteps) /\ c.path # << >> /\ d.path = Tail(c.path) /\ d.scope = c.scope
    BY <1>2 DEF Proceeds, PasskeyInv, Call
  <2>2. passkeyCalls' = [passkeyCalls EXCEPT ![r] = d]
    BY <1>2 DEF Proceeds
  <2>3. CASE Head(c.path) = "count" /\ PurposeOf(c.scope) = p
    BY <1>2, <2>3 DEF Proceeds
  <2>4. CASE ~(Head(c.path) = "count" /\ PurposeOf(c.scope) = p)
    <3>1. Contains(d.path, "save") /\ ~Contains(d.path, "count") /\ PurposeOf(d.scope) = p => r \in ToInsert(p)
      BY <2>1, <2>4, RestOfPath DEF ToInsert
    <3> HIDE DEF d
    <3> QED BY <2>2, <3>1, ToInsertAfter
  <2> QED BY <2>3, <2>4
<1>3. ASSUME NEW r \in PasskeyCalls, Ends(r) \/ Saves(r) PROVE ToInsert(p)' \subseteq ToInsert(p) \ {r}
  <2>1. passkeyCalls' = [passkeyCalls EXCEPT ![r] = NoCall]
    BY <1>3 DEF Ends, Saves, SaveCredential, EndCall
  <2>2. ~Contains(NoCall.path, "save")
    BY PathOrders DEF NoCall
  <2> QED BY <2>1, <2>2, ToInsertAfter
<1>4. ASSUME NEW r \in PasskeyCalls, Drops(r) PROVE ToInsert(p)' \subseteq ToInsert(p)
  <2>1. PICK k : passkeyCalls' = [passkeyCalls EXCEPT ![r].listed = @ \ {k}]
    BY <1>4 DEF Drops
  <2> DEFINE d == [passkeyCalls[r] EXCEPT !.listed = @ \ {k}]
  <2>2. passkeyCalls' = [passkeyCalls EXCEPT ![r] = d]
    BY <2>1
  <2>3. d.path = passkeyCalls[r].path /\ d.scope = passkeyCalls[r].scope
    BY DEF PasskeyInv, Call
  <2>4. Contains(d.path, "save") /\ ~Contains(d.path, "count") /\ PurposeOf(d.scope) = p => r \in ToInsert(p)
    BY <2>3 DEF ToInsert
  <2> HIDE DEF d
  <2> QED BY <2>2, <2>4, ToInsertAfter
<1>5. ASSUME ToInsert(p)' \subseteq ToInsert(p), OfPurpose(p)' \subseteq OfPurpose(p)
      PROVE  Cardinality(OfPurpose(p)') + Cardinality(ToInsert(p)')
               <= MaxPasskeys - 1 + Cardinality(PasskeyCalls)
  BY <1>5, <1>r, RoomStays
<1>6. ASSUME BelowLimit(p), OfPurpose(p)' = OfPurpose(p)
      PROVE  Cardinality(OfPurpose(p)') + Cardinality(ToInsert(p)')
               <= MaxPasskeys - 1 + Cardinality(PasskeyCalls)
  BY <1>6, Sizes, SizesNext, PasskeysAssumption DEF BelowLimit
<1>7. ASSUME NEW r \in PasskeyCalls, Saves(r)
      PROVE  Cardinality(OfPurpose(p)') + Cardinality(ToInsert(p)')
               <= MaxPasskeys - 1 + Cardinality(PasskeyCalls)
  <2> DEFINE c == passkeyCalls[r]
  <2>0. ToInsert(p)' \subseteq ToInsert(p) \ {r}
    BY <1>3, <1>7
  <2>1. CASE OfPurpose(p)' \subseteq OfPurpose(p)
    BY <1>5, <2>0, <2>1
  <2>2. CASE ~(OfPurpose(p)' \subseteq OfPurpose(p))
    <3>1. PurposeOf(c.scope) = p /\ OfPurpose(p)' \subseteq OfPurpose(p) \cup {c.credential}
      BY <1>c, <1>7, <2>2 DEF Saves, SaveCredential, OfPurpose
    <3>2. r \in ToInsert(p)
      <4>1. c.path \in Seq(PathSteps) /\ c.path # << >> /\ Head(c.path) = "save" /\ CountFirst(c.path)
        BY <1>7 DEF Saves, Reaches, PasskeyInv, Call, CallsOK, CallOK
      <4>2. 1 \in 1..Len(c.path) /\ c.path[1] = "save"
        BY <4>1
      <4>3. Contains(c.path, "save") /\ ~Contains(c.path, "count")
        BY <4>1, <4>2 DEF Contains, CountFirst
      <4> QED BY <3>1, <4>3 DEF ToInsert
    <3>3. Cardinality(ToInsert(p)') <= Cardinality(ToInsert(p)) - 1
      <4>1. Cardinality(ToInsert(p) \ {r}) = Cardinality(ToInsert(p)) - 1 /\ IsFiniteSet(ToInsert(p) \ {r})
        BY <3>2, Sizes, FS_RemoveElement
      <4> QED BY <2>0, <4>1, FS_Subset
    <3>4. Cardinality(OfPurpose(p)') <= Cardinality(OfPurpose(p)) + 1
      BY <3>1, Sizes, OneMore
    <3> QED BY <1>r, <3>3, <3>4, Sizes, SizesNext, PasskeysAssumption DEF Room
  <2> QED BY <2>1, <2>2
<1>8. CASE NoCallMove
  <2>1. ToInsert(p)' = ToInsert(p)
    BY <1>8 DEF NoCallMove, ToInsert
  <2>2. OfPurpose(p)' \subseteq OfPurpose(p)
    BY <1>c, <1>8 DEF NoCallMove, RemoveLoginPasskey, OfPurpose
  <2> QED BY <1>5, <2>1, <2>2
<1>9. ASSUME NEW r \in PasskeyCalls, CallMove(r)
      PROVE  Cardinality(OfPurpose(p)') + Cardinality(ToInsert(p)')
               <= MaxPasskeys - 1 + Cardinality(PasskeyCalls)
  <2>1. CASE Begins(r)
    BY <1>1, <1>5, <1>e, <2>1 DEF Begins
  <2>2. CASE Proceeds(r)
    <3>1. OfPurpose(p)' = OfPurpose(p)
      BY <1>e, <2>2 DEF Proceeds
    <3> QED BY <1>2, <1>5, <1>6, <2>2, <3>1
  <2>3. CASE Ends(r)
    <3>1. OfPurpose(p)' \subseteq OfPurpose(p)
      BY <1>d, <1>e, <2>3 DEF Ends
    <3> QED BY <1>3, <1>5, <2>3, <3>1
  <2>4. CASE Saves(r)
    BY <1>7, <2>4
  <2>5. CASE Drops(r)
    BY <1>4, <1>5, <1>d, <2>5 DEF Drops
  <2> QED BY <1>9, <2>1, <2>2, <2>3, <2>4, <2>5 DEF CallMove
<1> QED BY <1>8, <1>9, CallMoves

\* For every limit and any number of requests in flight, the passkeys of a
\* purpose exceed the limit by at most one for each request less one: what a
\* request inserts it has counted, and those that counted are still in flight.
THEOREM PasskeysStayBounded == PasskeySpec => []PasskeysBounded
<1>1. RoomLeft => PasskeysBounded
  BY Sizes, PasskeysAssumption DEF RoomLeft, Room, PasskeysBounded
<1> QED
  BY <1>1, PasskeyInitInv, PasskeyStepInv, CallsOKInit, CallsOKStep, RoomInit, RoomStep, PTL
  DEF PasskeySpec
-----------------------------------------------------------------------------
(* TotpReplays.  A marker is deleted only after every log-in that could    *)
(* hold its counter has been dropped for its age.                          *)

LoginInTime == \A r \in CodeLogins : codeLogins[r].busy =>
  /\ codeLogins[r].at <= clock /\ clock <= codeLogins[r].at + MaxLatency
  /\ codeLogins[r].at - CodeWindow <= codeLogins[r].counter
  /\ codeLogins[r].counter <= codeLogins[r].at + CodeWindow
MarkerInTime == \A c \in Counters : markers[c] # Never => c <= markers[c] + CodeWindow
PassedOnce   == \A c \in Counters : passes[c] <= 1
PassedMarked == \A c \in Counters : passes[c] > 0 =>
  markers[c] # Never \/ clock > c + CodeWindow + MaxLatency

TotpInv == TotpTypeOK /\ LoginInTime /\ MarkerInTime /\ PassedOnce /\ PassedMarked

LEMMA TotpInitInv == TotpInit => TotpInv
<1> SUFFICES ASSUME TotpInit PROVE TotpInv
  OBVIOUS
<1> USE TotpAssumption DEF TotpInit
<1>1. 0 \in Counters /\ NoLogin \in CodeLogin
  BY DEF Counters, NoLogin, CodeLogin
<1>2. TotpTypeOK
  BY <1>1 DEF TotpTypeOK
<1>3. LoginInTime /\ MarkerInTime /\ PassedOnce /\ PassedMarked
  BY DEF LoginInTime, MarkerInTime, PassedOnce, PassedMarked, NoLogin
<1> QED BY <1>2, <1>3 DEF TotpInv

\* A log-in passes with a code that has not served another and is still open.
LEMMA ConsumedIsOpen ==
  ASSUME TotpInv, NEW r \in CodeLogins, codeLogins[r].busy, markers[codeLogins[r].counter] = Never
  PROVE  /\ codeLogins[r].counter \in Counters
         /\ passes[codeLogins[r].counter] = 0
         /\ clock <= codeLogins[r].counter + CodeWindow + MaxLatency
<1>1. /\ codeLogins[r].counter \in Counters /\ codeLogins[r].at \in Nat
      /\ codeLogins[r].counter \in Nat /\ clock \in Nat
  BY TotpAssumption DEF TotpInv, TotpTypeOK, CodeLogin, Counters
<1>2. clock <= codeLogins[r].counter + CodeWindow + MaxLatency
  BY <1>1, TotpAssumption DEF TotpInv, LoginInTime
<1>3. passes[codeLogins[r].counter] \in Nat
  BY <1>1 DEF TotpInv, TotpTypeOK
<1> QED BY <1>1, <1>2, <1>3, TotpAssumption DEF TotpInv, PassedMarked

LEMMA TotpStepInv == TotpInv /\ [TotpNext]_totpVars => TotpInv'
<1> SUFFICES ASSUME TotpInv, [TotpNext]_totpVars PROVE TotpInv'
  OBVIOUS
<1> USE TotpAssumption
<1>0. /\ clock \in Nat /\ clock \in 0..LastStep
      /\ markers \in [Counters -> {Never} \cup (0..LastStep)]
      /\ codeLogins \in [CodeLogins -> CodeLogin]
      /\ passes \in [Counters -> Nat]
      /\ \A c \in Counters : c \in Nat
  BY DEF TotpInv, TotpTypeOK, Counters
<1>e. ASSUME NEW r \in CodeLogins, EndLogin(r)
      PROVE  /\ codeLogins' \in [CodeLogins -> CodeLogin]
             /\ \A q \in CodeLogins : codeLogins'[q].busy => codeLogins'[q] = codeLogins[q]
  <2>1. NoLogin \in CodeLogin
    BY DEF NoLogin, CodeLogin, Counters
  <2> QED BY <1>0, <1>e, <2>1 DEF EndLogin, NoLogin
<1>1. ASSUME NEW r \in CodeLogins, NEW c \in Counters, MatchCode(r, c) PROVE TotpInv'
  <2>1. [busy |-> TRUE, counter |-> c, at |-> clock] \in CodeLogin
    BY <1>0 DEF CodeLogin
  <2>2. codeLogins' \in [CodeLogins -> CodeLogin]
    BY <1>0, <1>1, <2>1 DEF MatchCode
  <2>3. LoginInTime'
    BY <1>0, <1>1 DEF MatchCode, TotpInv, LoginInTime
  <2> QED BY <1>0, <1>1, <2>2, <2>3 DEF MatchCode, TotpInv, TotpTypeOK, MarkerInTime, PassedOnce, PassedMarked
<1>2. ASSUME NEW r \in CodeLogins, PurgeMarkers(r) PROVE TotpInv'
  <2>1. codeLogins[r].at \in Nat /\ codeLogins[r].at <= clock
    BY <1>0, <1>2 DEF PurgeMarkers, TotpInv, LoginInTime, CodeLogin
  <2>2. markers' \in [Counters -> {Never} \cup (0..LastStep)]
    BY <1>0, <1>2 DEF PurgeMarkers
  <2>3. MarkerInTime'
    BY <1>0, <1>2 DEF PurgeMarkers, TotpInv, MarkerInTime
  <2>4. ASSUME NEW c \in Counters, passes[c] > 0
        PROVE  markers'[c] # Never \/ clock > c + CodeWindow + MaxLatency
    <3>1. CASE markers[c] = Never
      BY <1>0, <2>4, <3>1 DEF TotpInv, PassedMarked
    <3>2. CASE markers[c] # Never /\ Outdated(markers[c], codeLogins[r].at)
      <4>1. markers[c] \in Nat /\ c \in Nat /\ c <= markers[c] + CodeWindow
        BY <1>0, <3>2 DEF TotpInv, MarkerInTime
      <4>2. markers[c] < codeLogins[r].at - MarkerTicks
        BY <3>2 DEF Outdated
      <4> QED BY <1>0, <2>1, <4>1, <4>2
    <3>3. CASE markers[c] # Never /\ ~Outdated(markers[c], codeLogins[r].at)
      BY <1>2, <3>3 DEF PurgeMarkers
    <3> QED BY <3>1, <3>2, <3>3
  <2> QED BY <1>0, <1>2, <2>2, <2>3, <2>4 DEF PurgeMarkers, TotpInv, TotpTypeOK, LoginInTime, PassedOnce, PassedMarked
<1>3. ASSUME NEW r \in CodeLogins, ConsumeCounter(r) PROVE TotpInv'
  <2> DEFINE c == codeLogins[r].counter
  <2>1. codeLogins[r].busy /\ EndLogin(r) /\ clock' = clock
    BY <1>3 DEF ConsumeCounter
  <2>2. c \in Counters /\ codeLogins[r].at \in 0..LastStep
    BY <1>0 DEF CodeLogin
  <2>3. codeLogins' \in [CodeLogins -> CodeLogin] /\ LoginInTime'
    BY <1>e, <2>1 DEF TotpInv, LoginInTime
  <2>4. CASE markers[c] # Never
    <3>1. markers' = markers /\ passes' = passes
      BY <1>3, <2>4 DEF ConsumeCounter
    <3> QED BY <1>0, <2>1, <2>3, <3>1 DEF TotpInv, TotpTypeOK, MarkerInTime, PassedOnce, PassedMarked
  <2>5. CASE markers[c] = Never
    <3>1. markers' = [markers EXCEPT ![c] = codeLogins[r].at] /\ passes' = [passes EXCEPT ![c] = @ + 1]
      BY <1>3, <2>5 DEF ConsumeCounter, ConsumedAt
    <3>2. passes[c] = 0
      BY <2>1, <2>5, ConsumedIsOpen
    <3>3. c <= codeLogins[r].at + CodeWindow
      BY <2>1 DEF TotpInv, LoginInTime
    <3> HIDE DEF c
    <3>4. /\ markers'[c] = codeLogins[r].at /\ passes'[c] = 1
          /\ \A d \in Counters : d # c => markers'[d] = markers[d] /\ passes'[d] = passes[d]
          /\ markers' \in [Counters -> {Never} \cup (0..LastStep)] /\ passes' \in [Counters -> Nat]
      BY <1>0, <2>2, <3>1, <3>2
    <3>5. codeLogins[r].at # Never
      BY <2>2 DEF Never
    <3>6. MarkerInTime' /\ PassedOnce' /\ PassedMarked'
      BY <2>1, <3>3, <3>4, <3>5 DEF TotpInv, MarkerInTime, PassedOnce, PassedMarked
    <3> QED BY <1>0, <2>1, <2>3, <3>4, <3>6 DEF TotpInv, TotpTypeOK
  <2> QED BY <2>4, <2>5
<1>4. ASSUME NEW r \in CodeLogins, DropLogin(r) PROVE TotpInv'
  <2>1. codeLogins' \in [CodeLogins -> CodeLogin] /\ LoginInTime'
    BY <1>e, <1>4 DEF DropLogin, TotpInv, LoginInTime
  <2> QED BY <1>0, <1>4, <2>1 DEF DropLogin, TotpInv, TotpTypeOK, MarkerInTime, PassedOnce, PassedMarked
<1>5. CASE ClockTick
  <2>1. clock' \in 0..LastStep /\ clock' = clock + 1
    BY <1>0, <1>5 DEF ClockTick
  <2>2. LoginInTime'
    BY <1>0, <1>5 DEF ClockTick, TotpInv, LoginInTime, CodeLogin
  <2>3. PassedMarked'
    BY <1>0, <1>5 DEF ClockTick, TotpInv, PassedMarked
  <2> QED BY <1>0, <1>5, <2>1, <2>2, <2>3 DEF ClockTick, TotpInv, TotpTypeOK, MarkerInTime, PassedOnce
<1>6. CASE UNCHANGED totpVars
  BY <1>6 DEF totpVars, TotpInv, TotpTypeOK, LoginInTime, MarkerInTime, PassedOnce, PassedMarked
<1> QED BY <1>1, <1>2, <1>3, <1>4, <1>5, <1>6 DEF TotpNext
\* Clock, markers and log-ins keep their types.
THEOREM TotpTyped == TotpSpec => []TotpTypeOK
BY TotpInitInv, TotpStepInv, PTL DEF TotpSpec, TotpInv

LEMMA CodeRefinesInit == TotpInit => Codes!OneTimeInit
<1> SUFFICES ASSUME TotpInit PROVE Codes!OneTimeInit
  OBVIOUS
<1>1. \A c \in Counters : passes[c] = 0 /\ clock <= c + CodeWindow + MaxLatency
  BY TotpAssumption DEF TotpInit, Counters
<1> QED BY <1>1 DEF TotpInit, Codes!OneTimeInit

LEMMA CodeRefinesNext == TotpInv /\ [TotpNext]_totpVars => Codes!OneTimeNext
<1> SUFFICES ASSUME TotpInv, [TotpNext]_totpVars PROVE Codes!OneTimeNext
  OBVIOUS
<1>0. /\ clock \in Nat /\ passes \in [Counters -> Nat]
      /\ \A c \in Counters : c + CodeWindow + MaxLatency \in Nat
  BY TotpAssumption DEF TotpInv, TotpTypeOK, Counters
<1>1. CASE passes' = passes /\ (clock' = clock \/ clock' = clock + 1)
  <2>1. \A c \in Counters : clock' <= c + CodeWindow + MaxLatency => clock <= c + CodeWindow + MaxLatency
    BY <1>0, <1>1
  <2>2. Codes!Lapse
    BY <1>1, <2>1 DEF Codes!Lapse
  <2> QED BY <2>2 DEF Codes!OneTimeNext
<1>2. ASSUME NEW r \in CodeLogins, ConsumeCounter(r), passes' # passes PROVE Codes!OneTimeNext
  <2>1. /\ codeLogins[r].busy /\ markers[codeLogins[r].counter] = Never /\ clock' = clock
        /\ passes' = [passes EXCEPT ![codeLogins[r].counter] = @ + 1]
    BY <1>2 DEF ConsumeCounter
  <2>2. PICK c \in Counters : c = codeLogins[r].counter
    BY <2>1, ConsumedIsOpen
  <2>3. passes[c] = 0 /\ clock <= c + CodeWindow + MaxLatency
    BY <2>1, <2>2, ConsumedIsOpen
  <2>4. passes' = [passes EXCEPT ![c] = @ + 1]
    BY <2>1, <2>2
  <2>5. passes'[c] = 1 /\ \A d \in Counters : d # c => passes'[d] = passes[d]
    BY <1>0, <2>3, <2>4
  <2> DEFINE live == {d \in Counters : passes[d] = 0 /\ clock <= d + CodeWindow + MaxLatency}
  <2>6. c \in live
    BY <2>3
  <2>7. live' = live \ {c}
    <3>1. \A d \in Counters : passes'[d] = 0 <=> (passes[d] = 0 /\ d # c)
      BY <2>3, <2>5
    <3>2. live' = {d \in Counters : passes'[d] = 0 /\ clock <= d + CodeWindow + MaxLatency}
      BY <2>1
    <3> QED BY <3>1, <3>2
  <2>8. Codes!Use(c)
    BY <2>4, <2>6, <2>7 DEF Codes!Use
  <2> QED BY <2>8 DEF Codes!OneTimeNext
<1> QED
  BY <1>1, <1>2
  DEF TotpNext, MatchCode, PurgeMarkers, ConsumeCounter, DropLogin, ClockTick, totpVars

\* A code passes once, whatever log-ins overlap and whatever the clean-up
\* deletes, for every window, life of a marker and age of a request that
\* satisfy TotpAssumption: the markers implement OneTimeTokens.
THEOREM CodesAreOneTime == TotpSpec => CodesPassOnce
<1>1. TotpInv /\ [TotpNext]_totpVars =>
        [Codes!OneTimeNext]_<<{c \in Counters : passes[c] = 0 /\ clock <= c + CodeWindow + MaxLatency}, passes>>
  BY CodeRefinesNext
<1> QED
  BY <1>1, TotpInitInv, TotpStepInv, CodeRefinesInit, PTL
  DEF TotpSpec, CodesPassOnce, Codes!OneTimeSpec

-----------------------------------------------------------------------------
(* YubicoBootstrap.  While the claim of a request has not run out, the row *)
(* is that claim, so only one request can be within its claim at a time.   *)

ClaimKnown  == claim.value <= claims /\ \A r \in Bootstraps : bootstraps[r].value <= claims
OwnClaim    == \A r \in Bootstraps : bootstraps[r].left > 0 =>
                 /\ claim.value = bootstraps[r].value /\ claim.value # 0
                 /\ claim.left = bootstraps[r].left
OwnersDiffer == \A r, q \in Bootstraps :
                 bootstraps[r].value = bootstraps[q].value /\ bootstraps[r].value # 0 => r = q
CreatedOnce == created <= 1 /\ (created > 0 => yubico)
StoreFirst  == \A r \in Bootstraps : Is(r, "store") /\ bootstraps[r].left > 0 => created = 0

YubicoInv == /\ YubicoTypeOK /\ ClaimKnown /\ OwnClaim /\ OwnersDiffer
             /\ CreatedOnce /\ StoreFirst

LEMMA YubicoInitInv == YubicoInit => YubicoInv
<1> SUFFICES ASSUME YubicoInit PROVE YubicoInv
  OBVIOUS
<1> USE YubicoAssumption DEF YubicoInit, NoBootstrap, NoClaim
<1>1. YubicoTypeOK
  <2>1. 0 \in 0..MaxClaims /\ 0 \in 0..ClaimTicks
    OBVIOUS
  <2>2. claim \in BootstrapClaim
    BY <2>1 DEF BootstrapClaim
  <2>3. bootstraps \in [Bootstraps -> Bootstrap]
    BY <2>1 DEF Bootstrap, BootstrapSteps
  <2> QED BY <2>1, <2>2, <2>3 DEF YubicoTypeOK
<1>2. ClaimKnown /\ OwnClaim /\ OwnersDiffer
  BY DEF ClaimKnown, OwnClaim, OwnersDiffer
<1>3. CreatedOnce /\ StoreFirst
  BY DEF CreatedOnce, StoreFirst, Is
<1> QED BY <1>1, <1>2, <1>3 DEF YubicoInv

\* Only one request can be within its claim.
LEMMA OneWithinClaim ==
  ASSUME YubicoInv, NEW r \in Bootstraps, NEW q \in Bootstraps,
         bootstraps[r].left > 0, bootstraps[q].left > 0
  PROVE  r = q
BY DEF YubicoInv, OwnClaim, OwnersDiffer

LEMMA YubicoStepInv == YubicoInv /\ [YubicoNext]_yubicoVars => YubicoInv'
<1> SUFFICES ASSUME YubicoInv, [YubicoNext]_yubicoVars PROVE YubicoInv'
  OBVIOUS
<1> USE YubicoAssumption
<1>0. /\ yubico \in BOOLEAN /\ claim \in BootstrapClaim /\ bootstraps \in [Bootstraps -> Bootstrap]
      /\ claims \in 0..MaxClaims /\ claims \in Nat /\ created \in Nat
  BY DEF YubicoInv, YubicoTypeOK
<1>i. NoClaim \in BootstrapClaim /\ NoBootstrap \in Bootstrap
  BY DEF NoClaim, BootstrapClaim, NoBootstrap, Bootstrap, BootstrapSteps
\* A request that moves keeps its claim.
<1>m. ASSUME NEW r \in Bootstraps, NEW s \in BootstrapSteps, Move(r, s)
      PROVE  /\ bootstraps' \in [Bootstraps -> Bootstrap]
             /\ \A q \in Bootstraps : /\ bootstraps'[q].value = bootstraps[q].value
                                      /\ bootstraps'[q].left = bootstraps[q].left
                                      /\ q # r => bootstraps'[q] = bootstraps[q]
             /\ bootstraps'[r].step = s
  BY <1>0, <1>m DEF Move, Bootstrap
<1>l. ASSUME NEW r \in Bootstraps, Leave(r)
      PROVE  /\ bootstraps' \in [Bootstraps -> Bootstrap]
             /\ bootstraps'[r].value = 0 /\ bootstraps'[r].left = 0
             /\ \A q \in Bootstraps : q # r => bootstraps'[q] = bootstraps[q]
  BY <1>0, <1>i, <1>l DEF Leave, NoBootstrap
<1>1. ASSUME NEW r \in Bootstraps, NEW s \in BootstrapSteps \ {"store"}, Move(r, s),
             UNCHANGED <<yubico, claim, claims, created>>
      PROVE  YubicoInv'
  BY <1>0, <1>1, <1>m DEF YubicoInv, YubicoTypeOK, ClaimKnown, OwnClaim, OwnersDiffer, CreatedOnce, StoreFirst, Is
<1>2. ASSUME NEW r \in Bootstraps, Leave(r), UNCHANGED <<yubico, claim, claims, created>>
      PROVE  YubicoInv'
  BY <1>0, <1>2, <1>l DEF YubicoInv, YubicoTypeOK, ClaimKnown, OwnClaim, OwnersDiffer, CreatedOnce, StoreFirst, Is
<1>3. ASSUME NEW r \in Bootstraps, ExpireClaim(r) PROVE YubicoInv'
  <2>1. CASE claim.left = 0
    <3>1. \A q \in Bootstraps : ~(bootstraps[q].left > 0)
      BY <1>0, <2>1 DEF YubicoInv, OwnClaim
    <3>2. claim' = NoClaim /\ Move(r, "insert") /\ UNCHANGED <<yubico, claims, created>>
      BY <1>3, <2>1 DEF ExpireClaim
    <3> QED
      BY <1>0, <1>i, <1>m, <3>1, <3>2
      DEF YubicoInv, YubicoTypeOK, ClaimKnown, OwnClaim, OwnersDiffer, CreatedOnce, StoreFirst, Is,
          NoClaim, BootstrapSteps
  <2>2. CASE claim.left # 0
    BY <1>1, <1>3, <2>2 DEF ExpireClaim, BootstrapSteps
  <2> QED BY <2>1, <2>2
<1>4. ASSUME NEW r \in Bootstraps, InsertClaim(r) PROVE YubicoInv'
  <2>1. CASE claim # NoClaim
    BY <1>2, <1>4, <2>1 DEF InsertClaim
  <2>2. CASE claim = NoClaim
    <3>1. /\ claims < MaxClaims /\ claims' = claims + 1
          /\ claim' = [value |-> claims', left |-> ClaimTicks]
          /\ bootstraps' = [bootstraps EXCEPT ![r] =
               [step |-> "recheck", value |-> claims', left |-> ClaimTicks]]
          /\ UNCHANGED <<yubico, created>>
      BY <1>4, <2>2 DEF InsertClaim
    <3>2. \A q \in Bootstraps : ~(bootstraps[q].left > 0)
      BY <2>2 DEF YubicoInv, OwnClaim, NoClaim
    <3>3. claims' \in 0..MaxClaims /\ claims' > 0
      BY <1>0, <3>1
    <3>4. /\ claim' \in BootstrapClaim
          /\ [step |-> "recheck", value |-> claims', left |-> ClaimTicks] \in Bootstrap
      BY <3>1, <3>3 DEF BootstrapClaim, Bootstrap, BootstrapSteps
    <3>5. /\ bootstraps' \in [Bootstraps -> Bootstrap]
          /\ bootstraps'[r] = [step |-> "recheck", value |-> claims', left |-> ClaimTicks]
          /\ \A q \in Bootstraps : q # r => bootstraps'[q] = bootstraps[q]
      BY <1>0, <3>1, <3>4
    <3>6. YubicoTypeOK'
      BY <1>0, <3>1, <3>3, <3>4, <3>5 DEF YubicoTypeOK
    <3>7. ClaimKnown' /\ OwnersDiffer'
      <4>1. \A q \in Bootstraps : bootstraps[q].value \in Nat /\ bootstraps[q].value <= claims
        BY <1>0 DEF YubicoInv, ClaimKnown, Bootstrap
      <4> QED BY <1>0, <3>1, <3>5, <4>1 DEF YubicoInv, ClaimKnown, OwnersDiffer
    <3>8. OwnClaim' /\ CreatedOnce' /\ StoreFirst'
      BY <1>0, <3>1, <3>2, <3>3, <3>5 DEF YubicoInv, OwnClaim, CreatedOnce, StoreFirst, Is
    <3> QED BY <3>6, <3>7, <3>8 DEF YubicoInv
  <2> QED BY <2>1, <2>2
<1>5. ASSUME NEW r \in Bootstraps, CheckAgain(r) PROVE YubicoInv'
  <2>1. CASE yubico
    BY <1>1, <1>5, <2>1 DEF CheckAgain, BootstrapSteps
  <2>2. CASE ~yubico
    <3>1. created = 0 /\ Move(r, "store") /\ UNCHANGED <<yubico, claim, claims, created>>
      BY <1>0, <1>5, <2>2 DEF CheckAgain, YubicoInv, CreatedOnce
    <3> QED
      BY <1>0, <1>m, <3>1
      DEF YubicoInv, YubicoTypeOK, ClaimKnown, OwnClaim, OwnersDiffer, CreatedOnce, StoreFirst,
          Is, BootstrapSteps
  <2> QED BY <2>1, <2>2
<1>6. ASSUME NEW r \in Bootstraps, StoreCredentials(r) PROVE YubicoInv'
  <2>1. Is(r, "store") /\ Move(r, "release") /\ yubico' = TRUE /\ UNCHANGED <<claim, claims>>
    BY <1>6 DEF StoreCredentials
  <2>2. CASE bootstraps[r].left > 0
    <3>1. created = 0 /\ created' = 1
      BY <1>6, <2>1, <2>2 DEF StoreCredentials, YubicoInv, StoreFirst
    <3>2. \A q \in Bootstraps : bootstraps[q].left > 0 => q = r
      BY <2>2, OneWithinClaim
    <3> QED
      BY <1>0, <1>m, <2>1, <3>1, <3>2
      DEF YubicoInv, YubicoTypeOK, ClaimKnown, OwnClaim, OwnersDiffer, CreatedOnce, StoreFirst,
          Is, BootstrapSteps
  <2>3. CASE ~(bootstraps[r].left > 0)
    <3>1. created' = created
      BY <1>6, <2>3 DEF StoreCredentials
    <3> QED
      BY <1>0, <1>m, <2>1, <3>1
      DEF YubicoInv, YubicoTypeOK, ClaimKnown, OwnClaim, OwnersDiffer, CreatedOnce, StoreFirst,
          Is, BootstrapSteps
  <2> QED BY <2>2, <2>3
<1>7. ASSUME NEW r \in Bootstraps, ReleaseClaim(r) PROVE YubicoInv'
  <2>1. CASE ~Holds(r)
    BY <1>2, <1>7, <2>1 DEF ReleaseClaim, Released
  <2>2. CASE Holds(r)
    <3>1. claim' = NoClaim /\ Leave(r) /\ UNCHANGED <<yubico, claims, created>>
      BY <1>7, <2>2 DEF ReleaseClaim, Released
    <3>2. \A q \in Bootstraps : bootstraps[q].left > 0 => q = r
      BY <2>2 DEF Holds, YubicoInv, OwnClaim, OwnersDiffer
    <3> QED
      BY <1>0, <1>i, <1>l, <3>1, <3>2
      DEF YubicoInv, YubicoTypeOK, ClaimKnown, OwnClaim, OwnersDiffer, CreatedOnce, StoreFirst, Is, NoClaim
  <2> QED BY <2>1, <2>2
<1>8. CASE AdminStores
  BY <1>0, <1>8
  DEF AdminStores, YubicoInv, YubicoTypeOK, ClaimKnown, OwnClaim, OwnersDiffer, CreatedOnce, StoreFirst, Is
<1>9. CASE ClaimTick
  <2>1. \A left \in 0..ClaimTicks : /\ Nearer(left) \in 0..ClaimTicks
                                   /\ Nearer(left) > 0 => left > 0
    BY DEF Nearer
  <2>2. /\ claim' \in BootstrapClaim /\ claim'.value = claim.value /\ claim'.left = Nearer(claim.left)
        /\ UNCHANGED <<yubico, claims, created>>
    <3>1. claim' = [claim EXCEPT !.left = Nearer(@)] /\ UNCHANGED <<yubico, claims, created>>
      BY <1>9 DEF ClaimTick
    <3>2. claim.left \in 0..ClaimTicks /\ claim = [value |-> claim.value, left |-> claim.left]
      BY <1>0 DEF BootstrapClaim
    <3>3. claim' = [value |-> claim.value, left |-> Nearer(claim.left)]
      BY <3>1, <3>2
    <3>4. claim.value \in 0..MaxClaims /\ Nearer(claim.left) \in 0..ClaimTicks
      BY <1>0, <3>2 DEF BootstrapClaim, Nearer
    <3>5. claim' \in BootstrapClaim
      BY <3>3, <3>4 DEF BootstrapClaim
    <3>6. claim'.value = claim.value /\ claim'.left = Nearer(claim.left)
      BY <3>3
    <3> QED BY <3>1, <3>5, <3>6
  <2>3. \A q \in Bootstraps : /\ bootstraps'[q] \in Bootstrap
                              /\ bootstraps'[q].value = bootstraps[q].value
                              /\ bootstraps'[q].step = bootstraps[q].step
                              /\ bootstraps'[q].left = Nearer(bootstraps[q].left)
                              /\ bootstraps'[q].left > 0 => bootstraps[q].left > 0
    <3> SUFFICES ASSUME NEW q \in Bootstraps
                 PROVE  /\ bootstraps'[q] \in Bootstrap
                        /\ bootstraps'[q].value = bootstraps[q].value
                        /\ bootstraps'[q].step = bootstraps[q].step
                        /\ bootstraps'[q].left = Nearer(bootstraps[q].left)
                        /\ bootstraps'[q].left > 0 => bootstraps[q].left > 0
      OBVIOUS
    <3>1. bootstraps[q] \in Bootstrap
      BY <1>0
    <3>2. bootstraps'[q] = [bootstraps[q] EXCEPT !.left = Nearer(@)]
      BY <1>9 DEF ClaimTick
    <3>3. /\ bootstraps[q].left \in 0..ClaimTicks /\ bootstraps[q].value \in 0..MaxClaims
          /\ bootstraps[q].step \in BootstrapSteps
          /\ bootstraps'[q] = [step |-> bootstraps[q].step, value |-> bootstraps[q].value,
                               left |-> Nearer(bootstraps[q].left)]
      BY <3>1, <3>2 DEF Bootstrap
    <3>4. Nearer(bootstraps[q].left) \in 0..ClaimTicks
      BY <3>3 DEF Nearer
    <3>5. bootstraps'[q] \in Bootstrap
      BY <3>3, <3>4 DEF Bootstrap
    <3>6. /\ bootstraps'[q].value = bootstraps[q].value
          /\ bootstraps'[q].step = bootstraps[q].step
          /\ bootstraps'[q].left = Nearer(bootstraps[q].left)
      BY <3>3
    <3>7. bootstraps'[q].left > 0 => bootstraps[q].left > 0
      BY <3>3, <3>6 DEF Nearer
    <3> QED BY <3>5, <3>6, <3>7
  <2>4. bootstraps' \in [Bootstraps -> Bootstrap]
    BY <1>0, <1>9, <2>3 DEF ClaimTick
  <2> QED
    BY <1>0, <2>2, <2>3, <2>4
    DEF YubicoInv, YubicoTypeOK, ClaimKnown, OwnClaim, OwnersDiffer, CreatedOnce, StoreFirst, Is
<1>10. CASE UNCHANGED yubicoVars
  BY <1>10
  DEF yubicoVars, YubicoInv, YubicoTypeOK, ClaimKnown, OwnClaim, OwnersDiffer, CreatedOnce, StoreFirst, Is
<1>11. ASSUME NEW r \in Bootstraps, FindNone(r) \/ Recheck(r) \/ AskYubico(r) PROVE YubicoInv'
  BY <1>1, <1>11 DEF FindNone, Recheck, AskYubico, BootstrapSteps
<1>12. ASSUME NEW r \in Bootstraps, Stop(r) PROVE YubicoInv'
  BY <1>2, <1>12 DEF Stop
<1> QED
  BY <1>3, <1>4, <1>5, <1>6, <1>7, <1>8, <1>9, <1>10, <1>11, <1>12 DEF YubicoNext

\* The claim, the requests and the counters keep their types.
THEOREM YubicoTyped == YubicoSpec => []YubicoTypeOK
BY YubicoInitInv, YubicoStepInv, PTL DEF YubicoSpec, YubicoInv

\* One request at most creates the credentials within its claim, however
\* claims expire, are taken over and released, for any number of requests.
THEOREM BootstrapOnce == YubicoSpec => []BootstrapsOnce
<1>1. YubicoInv => BootstrapsOnce
  BY DEF YubicoInv, CreatedOnce, BootstrapsOnce
<1> QED BY <1>1, YubicoInitInv, YubicoStepInv, PTL DEF YubicoSpec
=============================================================================
