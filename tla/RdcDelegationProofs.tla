------------------------ MODULE RdcDelegationProofs ------------------------
(***************************************************************************)
(* Theorems of RdcDelegation for every set of kinds and stages, every      *)
(* bound and every selection of disturbances.                              *)
(***************************************************************************)
EXTENDS RdcDelegation, TLAPS

USE KindsAssumption, StagesAssumption, TokensAssumption, FaultsAssumption, BoundAssumption

\* What a call has used up at each of its steps: a second attempt is made only of a call whose
\* first ran nothing.
CallInv ==
    /\ pc \in {"idle", "recover", "open"} => attempt = 0 /\ dispatched = 0
    /\ pc = "token" => attempt <= 1 /\ dispatched = 0
    /\ pc = "call" => attempt >= 1 /\ dispatched = 0
    /\ NeverReplayed

\* The signing key was rotated no more often than something happened.
RotationsAreFaults == key \in 0 .. faults

DelegationInv == TypeOK /\ RotationsAreFaults /\ CallInv

\* There may be no token, and a token is told by its key.
LEMMA TokensThereMayBe == NoToken \in Tokens /\ Keys \subseteq Tokens
BY DEF Tokens

\* A call that is about to be made has made no attempt.
LEMMA InitSatisfies == Init => DelegationInv
<1> SUFFICES ASSUME Init PROVE DelegationInv
  OBVIOUS
<1> USE DEF Init
<1>1. key \in Keys /\ cached \in Tokens /\ token \in Tokens
  BY TokensThereMayBe DEF Keys
<1>2. CallInv /\ RotationsAreFaults
  BY DEF CallInv, NeverReplayed, RotationsAreFaults
<1>3. pc \in Steps /\ action \in Verbs /\ faults \in 0 .. MaxFaults
  BY DEF Steps, Verbs
<1>4. status \subseteq Stages /\ composed \subseteq Stages /\ parts \subseteq Stages /\ queue \subseteq {"Create", "Update"}
      /\ past \subseteq Events
  OBVIOUS
<1>5. ageing \in BOOLEAN
  BY Zenon
<1> QED
  BY <1>1, <1>2, <1>3, <1>4, <1>5 DEF DelegationInv, TypeOK

(***************************************************************************)
(* One lemma per group of steps.                                           *)
(***************************************************************************)

\* An error ends the pass and leaves a condition and a marker there are.
LEMMA FailsIsTyped ==
    ASSUME TypeOK, Fails
    PROVE  /\ ready' \in {"None", "Creating", "Available", "Unavailable", "ObserveFailed"}
           /\ marker' \in {"none", "pending", "succeeded", "failed"}
           /\ EndPass
<1>1. CASE action = "observe"
  BY <1>1 DEF Fails, TypeOK
<1>2. CASE action = "create"
  BY <1>2 DEF Fails, TypeOK
<1>3. CASE action \notin {"observe", "create"}
  BY <1>3 DEF Fails, TypeOK
<1> QED
  BY <1>1, <1>2, <1>3

\* Observe keeps the invariant.
LEMMA ObserveKeeps ==
    ASSUME DelegationInv, Observe PROVE DelegationInv'
<1> USE TokensThereMayBe DEF DelegationInv, TypeOK, CallInv, NeverReplayed, RotationsAreFaults, Steps, Verbs, At, Stale,
            NoCall, StartPass, EndPass, Goto, WriteStatus, cr, cache, call, pass
<1>1. CASE StartObserve
  BY <1>1 DEF StartObserve
<1>2. CASE Recover
  BY <1>2 DEF Recover
<1>3. CASE OpenConflicts
  BY <1>3 DEF OpenConflicts, Conflicts
<1>4. CASE Open
  <2>1. pc' \in {"token", "read"} /\ UNCHANGED <<call, copy, kind, cr, parts, key, cache, queue, faults>>
    BY <1>4 DEF Open
  <2>2. attempt = 0 /\ dispatched = 0
    BY <1>4 DEF Open
  <2> QED
    BY <2>1, <2>2
<1>5. CASE Read
  BY <1>5 DEF Read
<1>6. CASE ConcludeAbsent
  BY <1>6 DEF ConcludeAbsent
<1>7. CASE ConcludePresent
  <2>1. past' \subseteq Events /\ status' \subseteq Stages
    BY <1>7 DEF ConcludePresent, Events
  <2> QED
    BY <1>7, <2>1 DEF ConcludePresent
<1>8. CASE ReadFails
  BY <1>8 DEF ReadFails, Fault
<1>9. CASE ConclusionConflicts
  BY <1>9 DEF ConclusionConflicts, Conflicts
<1> QED
  BY <1>1, <1>2, <1>3, <1>4, <1>5, <1>6, <1>7, <1>8, <1>9 DEF Observe

\* What Fails, and every answer that ends the pass, leaves of the call.
LEMMA EndedIsFresh ==
    ASSUME DelegationInv, EndPass
    PROVE  /\ pc' \in Steps /\ action' \in Verbs /\ token' \in Tokens /\ attempt' = 0
           /\ dispatched' = 0 /\ composed' = {} /\ copy' \in {"fresh", "stale"} /\ CallInv'
BY TokensThereMayBe DEF EndPass, NoCall, Steps, Verbs, CallInv, NeverReplayed

\* A 401 keeps the invariant: the call is made again only when its attempt ran nothing.
LEMMA UnauthorizedKeeps ==
    ASSUME DelegationInv, At("call"), NEW cause, NEW runs \in {0, 1},
           cause = "none" \/ runs = 0, Unauthorized(cause, runs)
    PROVE  /\ pc' \in Steps /\ action' \in Verbs /\ token' \in Tokens /\ attempt' \in 0 .. 2
           /\ dispatched' \in 0 .. 2 /\ composed' \subseteq Stages /\ copy' \in {"fresh", "stale"}
           /\ ready' \in {"None", "Creating", "Available", "Unavailable", "ObserveFailed"}
           /\ marker' \in {"none", "pending", "succeeded", "failed"}
           /\ cached' \in Tokens /\ ageing' \in BOOLEAN /\ CallInv'
<1>1. CASE Retryable(cause)
  <2>1. Reissue(runs) /\ attempt = 1 /\ runs = 0
    BY <1>1 DEF Unauthorized, Retryable
  <2>2. pc' = "token" /\ dispatched' = 0 /\ attempt' = 1 /\ cached' = NoToken /\ ageing' = FALSE
        /\ UNCHANGED <<ready, marker, action, token, composed, copy>>
    BY <2>1 DEF Reissue, At, DelegationInv, CallInv
  <2>3. ageing' \in BOOLEAN
    BY <2>2, Zenon
  <2> QED
    BY <2>2, <2>3, TokensThereMayBe DEF DelegationInv, TypeOK, CallInv, NeverReplayed, Steps
<1>2. CASE ~Retryable(cause)
  <2>1. Fails /\ UNCHANGED cache
    BY <1>2 DEF Unauthorized
  <2> QED
    BY <2>1, FailsIsTyped, EndedIsFresh DEF DelegationInv, TypeOK, cache
<1> QED
  BY <1>1, <1>2

\* The call keeps the invariant.
LEMMA ResolveKeeps ==
    ASSUME DelegationInv, Resolve PROVE DelegationInv'
<1> USE DEF DelegationInv, TypeOK, RotationsAreFaults, At, Fault, cr, cache, call, pass
<1>1. CASE AcquireToken
  BY <1>1, TokensThereMayBe DEF AcquireToken, CallInv, NeverReplayed, Steps
<1>2. CASE ExchangeFails
  BY <1>2, FailsIsTyped, EndedIsFresh DEF ExchangeFails
<1>3. CASE KeyUnknown
  BY <1>3, FailsIsTyped, EndedIsFresh DEF KeyUnknown
<1>4. CASE CredentialMissing
  <2>1. At("call") /\ Unauthorized("SessionCredentialMissing", 0)
        /\ UNCHANGED <<kind, phase, status, parts, key, queue, past>> /\ faults' \in faults .. MaxFaults
    BY <1>4 DEF CredentialMissing
  <2> QED
    BY <2>1, UnauthorizedKeeps
<1>5. CASE Run
  <2>1. parts' \subseteq Stages /\ composed' \subseteq Stages
    <3>1. PICK done \in SUBSET Stages : parts' = Left(done) /\ composed' = Composed(done)
      BY <1>5 DEF Run
    <3> QED
      BY <3>1 DEF Left, Composed
  <2>2. faults' \in 0 .. MaxFaults
    BY <1>5 DEF Run
  <2> QED
    BY <1>5, <2>1, <2>2 DEF Run, CallInv, NeverReplayed, Steps
<1>6. CASE UpstreamUnauthorized
  <2>1. PICK done \in SUBSET Stages : parts' = Left(done)
    BY <1>6 DEF UpstreamUnauthorized
  <2>2. parts' \subseteq Stages
    BY <2>1 DEF Left
  <2>3. At("call") /\ Unauthorized("none", 1)
        /\ UNCHANGED <<kind, phase, status, key, queue, past>> /\ faults' \in faults .. MaxFaults
    BY <1>6 DEF UpstreamUnauthorized
  <2> QED
    BY <2>2, <2>3, UnauthorizedKeeps
<1>7. CASE AnswerLost
  <2>1. PICK done \in SUBSET Stages : parts' = Left(done)
    BY <1>7 DEF AnswerLost
  <2>2. parts' \subseteq Stages
    BY <2>1 DEF Left
  <2> QED
    BY <1>7, <2>2, FailsIsTyped, EndedIsFresh DEF AnswerLost
<1> QED
  BY <1>1, <1>2, <1>3, <1>4, <1>5, <1>6, <1>7 DEF Resolve

\* Create, Update and Delete keep the invariant.
LEMMA MutateKeeps ==
    ASSUME DelegationInv, Mutate PROVE DelegationInv'
<1> USE TokensThereMayBe DEF DelegationInv, TypeOK, RotationsAreFaults, At, Stale, Fault, WriteStatus, cr, cache, call, pass
<1>1. CASE StartCreate
  <2>1. CASE phase = "live"
    BY <1>1, <2>1 DEF StartCreate, StartPass, NoCall, CallInv, NeverReplayed, Steps, Verbs
  <2>2. CASE phase # "live"
    BY <1>1, <2>2 DEF StartCreate, CallInv, NeverReplayed
  <2> QED
    BY <2>1, <2>2
<1>2. CASE Created
  <2>1. status' \subseteq Stages /\ past' \subseteq Events /\ EndPass
    BY <1>2 DEF Created, Projected, Events
  <2>2. marker' \in {"none", "pending", "succeeded", "failed"}
    BY <1>2 DEF Created
  <2> QED
    BY <1>2, <2>1, <2>2, EndedIsFresh DEF Created
<1>3. CASE StartUpdate
  BY <1>3 DEF StartUpdate, StartPass, NoCall, CallInv, NeverReplayed, Steps, Verbs
<1>4. CASE Updated
  <2>1. status' \subseteq Stages /\ past' \subseteq Events /\ EndPass
    BY <1>4 DEF Updated, Projected, Events
  <2> QED
    BY <1>4, <2>1, EndedIsFresh DEF Updated
<1>5. CASE StartDelete
  BY <1>5 DEF StartDelete, StartPass, NoCall, CallInv, NeverReplayed, Steps, Verbs
<1>6. CASE VerifyDelete
  <2>1. CASE Lingers
    BY <1>6, <2>1, EndedIsFresh DEF VerifyDelete
  <2>2. CASE ~Lingers
    BY <1>6, <2>2 DEF VerifyDelete, Goto, Steps, CallInv, NeverReplayed
  <2> QED
    BY <2>1, <2>2
<1>7. CASE PredicateFails
  <2>1. past' \subseteq Events
    BY <1>7 DEF PredicateFails, Events
  <2> QED
    BY <1>7, <2>1 DEF PredicateFails, Goto, Steps, CallInv, NeverReplayed
<1>8. CASE VerificationFails
  BY <1>8, EndedIsFresh DEF VerificationFails
<1>9. CASE ReleaseFinalizer
  BY <1>9, EndedIsFresh DEF ReleaseFinalizer
<1> QED
  BY <1>1, <1>2, <1>3, <1>4, <1>5, <1>6, <1>7, <1>8, <1>9 DEF Mutate

\* Everybody else keeps the invariant.
LEMMA EnvironmentKeeps ==
    ASSUME DelegationInv, Environment PROVE DelegationInv'
<1> USE TokensThereMayBe DEF DelegationInv, TypeOK, RotationsAreFaults, Fault, Outdate, cr, cache, call, pass
<1>1. CASE UserDeletes
  BY <1>1 DEF UserDeletes, CallInv, NeverReplayed
<1>2. CASE OtherWriter
  BY <1>2 DEF OtherWriter, CallInv, NeverReplayed
<1>3. CASE OperatorClearsMarker
  BY <1>3 DEF OperatorClearsMarker, CallInv, NeverReplayed
<1>4. CASE Undo
  BY <1>4 DEF Undo, CallInv, NeverReplayed
<1>5. CASE Rotate
  BY <1>5 DEF Rotate, CallInv, NeverReplayed, Keys
<1>6. CASE Age
  BY <1>6 DEF Age, CallInv, NeverReplayed
<1>7. CASE OtherWorker
  BY <1>7 DEF OtherWorker, CallInv, NeverReplayed
<1>8. CASE Crash
  BY <1>8, EndedIsFresh DEF Crash
<1> QED
  BY <1>1, <1>2, <1>3, <1>4, <1>5, <1>6, <1>7, <1>8 DEF Environment

(***************************************************************************)
(* What becomes of the identifier.                                         *)
(***************************************************************************)

\* Status keeps the identifier but for an answer that lacks it, so that a pass which gets as far as
\* the release knows of a kind with a get verb that its base is not there.
Identity ==
    /\ "identified" \in past /\ "answeredInPart" \notin past => Base \in status
    /\ pc = "release" /\ Verifiable /\ "unreadable" \notin past => Base \notin parts
    /\ IdentifiedIsNotOrphaned

\* Steps that write nothing and do not get to the release keep what is known of the identifier.
LEMMA BystandersKeepIdentity ==
    ASSUME Identity, UNCHANGED <<kind, status, past>>, parts' \subseteq parts \/ phase' # "gone",
           phase' = phase \/ phase' # "gone", pc' = pc \/ pc' # "release",
           parts' \subseteq parts \/ pc' # "release"
    PROVE  Identity'
BY DEF Identity, IdentifiedIsNotOrphaned, Verifiable

\* Observe keeps it: what an observe composed is added to status.
LEMMA ObserveKeepsIdentity ==
    ASSUME Identity, Observe PROVE Identity'
<1> USE DEF At, EndPass, StartPass, Goto, cr, cache, call, pass
<1>1. CASE StartObserve
  BY <1>1, BystandersKeepIdentity DEF StartObserve
<1>2. CASE Recover
  BY <1>2, BystandersKeepIdentity DEF Recover
<1>3. CASE OpenConflicts
  BY <1>3, BystandersKeepIdentity DEF OpenConflicts
<1>4. CASE Open
  BY <1>4, BystandersKeepIdentity DEF Open
<1>5. CASE Read
  BY <1>5, BystandersKeepIdentity DEF Read
<1>6. CASE ReadFails
  BY <1>6, BystandersKeepIdentity DEF ReadFails
<1>7. CASE ConcludeAbsent
  BY <1>7, BystandersKeepIdentity DEF ConcludeAbsent
<1>8. CASE ConcludePresent
  BY <1>8 DEF ConcludePresent, WriteStatus, AnsweredInPart, Identity, IdentifiedIsNotOrphaned
<1>9. CASE ConclusionConflicts
  BY <1>9, BystandersKeepIdentity DEF ConclusionConflicts
<1> QED
  BY <1>1, <1>2, <1>3, <1>4, <1>5, <1>6, <1>7, <1>8, <1>9 DEF Observe

\* No call gets to the release, or ends a CR.
LEMMA ResolveKeepsIdentity ==
    ASSUME Identity, Resolve PROVE Identity'
<1> USE DEF At, cr, cache, call, pass
<1>1. /\ UNCHANGED <<kind, status, past, phase>> /\ phase # "gone"
  BY DEF Resolve, AcquireToken, ExchangeFails, KeyUnknown, CredentialMissing, Run, UpstreamUnauthorized,
         AnswerLost
<1>2. Fails => pc' = "idle"
  BY DEF Fails, EndPass
<1>3. \A cause, runs : Unauthorized(cause, runs) => pc' \in {"token", "idle"}
  BY <1>2 DEF Unauthorized, Reissue
<1>4. pc' # "release"
  BY <1>2, <1>3 DEF Resolve, AcquireToken, ExchangeFails, KeyUnknown, CredentialMissing, Run,
                    UpstreamUnauthorized, AnswerLost
<1> QED
  BY <1>1, <1>4, BystandersKeepIdentity

\* An answer to a create or an update keeps the identifier, or replaces it by parts that lack it;
\* a deletion gets to the release when the base is not there.
LEMMA MutateKeepsIdentity ==
    ASSUME Identity, Mutate PROVE Identity'
<1> USE DEF At, EndPass, StartPass, Goto, cr, cache, call, pass
<1>1. CASE StartCreate
  BY <1>1, BystandersKeepIdentity DEF StartCreate
<1>2. CASE Created
  BY <1>2 DEF Created, WriteStatus, Projected, AnsweredInPart, Identity, IdentifiedIsNotOrphaned
<1>3. CASE StartUpdate
  BY <1>3, BystandersKeepIdentity DEF StartUpdate
<1>4. CASE Updated
  BY <1>4 DEF Updated, WriteStatus, Projected, AnsweredInPart, Identity, IdentifiedIsNotOrphaned
<1>5. CASE StartDelete
  BY <1>5, BystandersKeepIdentity DEF StartDelete
<1>6. CASE VerifyDelete
  <2>1. CASE Lingers
    BY <1>6, <2>1, BystandersKeepIdentity DEF VerifyDelete
  <2>2. CASE ~Lingers
    BY <1>6, <2>2 DEF VerifyDelete, Lingers, Verifiable, Identity, IdentifiedIsNotOrphaned
  <2> QED
    BY <2>1, <2>2
<1>7. CASE PredicateFails
  BY <1>7 DEF PredicateFails, Identity, IdentifiedIsNotOrphaned
<1>8. CASE VerificationFails
  BY <1>8, BystandersKeepIdentity DEF VerificationFails
<1>9. CASE ReleaseFinalizer
  BY <1>9 DEF ReleaseFinalizer, Identity, IdentifiedIsNotOrphaned, Verifiable
<1> QED
  BY <1>1, <1>2, <1>3, <1>4, <1>5, <1>6, <1>7, <1>8, <1>9 DEF Mutate

\* Everybody else adds nothing to the resource, and does not write what identifies it.
LEMMA EnvironmentKeepsIdentity ==
    ASSUME Identity, Environment PROVE Identity'
<1>1. /\ UNCHANGED <<kind, status, past>> /\ parts' \subseteq parts
      /\ (phase' = phase \/ phase' = "deleting") /\ (pc' = pc \/ pc' = "idle")
  BY DEF Environment, UserDeletes, OtherWriter, OperatorClearsMarker, Undo, Rotate, Age, OtherWorker, Crash,
         Outdate, EndPass, cr, cache, call, pass
<1> QED
  BY <1>1, BystandersKeepIdentity

(***************************************************************************)
(* The theorems.                                                           *)
(***************************************************************************)

\* Doing nothing keeps the invariant.
LEMMA StutterKeeps ==
    ASSUME DelegationInv, UNCHANGED vars PROVE DelegationInv'
BY DEF vars, cr, cache, call, pass, DelegationInv, TypeOK, RotationsAreFaults, CallInv, NeverReplayed

\* Every behaviour keeps the invariant.
LEMMA Invariance == Spec => []DelegationInv
<1>1. DelegationInv /\ [Next]_vars => DelegationInv'
  BY ObserveKeeps, ResolveKeeps, MutateKeeps, EnvironmentKeeps, StutterKeeps DEF Next
<1> QED
  BY InitSatisfies, <1>1, PTL DEF Spec

\* Variables keep their types, and a call is issued at most twice (snowplow.go).
THEOREM TypeCorrect == Spec => []TypeOK
<1>1. DelegationInv => TypeOK
  BY DEF DelegationInv
<1> QED
  BY Invariance, <1>1, PTL

\* One call runs the stages of its RESTAction at most once, whatever answers 401 and whatever
\* becomes of the token, for every set of stages and any number of disturbances (snowplow.go).
THEOREM StagesRunOnce == Spec => []NeverReplayed
<1>1. DelegationInv => NeverReplayed
  BY DEF DelegationInv, CallInv
<1> QED
  BY Invariance, <1>1, PTL

\* A CR whose status carried the identifier leaves no base behind, unless an answer in part took the
\* identifier or notFoundBody failed, for every set of kinds and stages, however many teardowns fail
\* behind a 200 and whatever else happens (mutate_restaction.go).
THEOREM IdentifiedGoesWithItsBase == Spec => []IdentifiedIsNotOrphaned
<1>1. Init => Identity
  BY DEF Init, Identity, IdentifiedIsNotOrphaned
<1>2. ASSUME Identity, UNCHANGED vars PROVE Identity'
  BY <1>2, BystandersKeepIdentity DEF vars, cr, cache, call, pass
<1>3. Identity /\ [Next]_vars => Identity'
  BY <1>2, ObserveKeepsIdentity, ResolveKeepsIdentity, MutateKeepsIdentity, EnvironmentKeepsIdentity DEF Next
<1>4. Identity => IdentifiedIsNotOrphaned
  BY DEF Identity
<1> QED
  BY <1>1, <1>3, <1>4, PTL DEF Spec
=============================================================================
