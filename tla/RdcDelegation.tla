--------------------------- MODULE RdcDelegation ---------------------------
(***************************************************************************)
(* A kind of the rest-dynamic-controller whose verbs are delegated to      *)
(* RESTActions: sequences of stages that snowplow runs in one call.  The   *)
(* call answers 200 with whatever the stages composed, also when some of   *)
(* them failed.  The controller authenticates with a token that authn      *)
(* issues for its ServiceAccount and that all its workers share.           *)
(*                                                                         *)
(* A stage stands for a part of the external resource: what it writes when *)
(* it is run for a create or an update, what it removes for a delete and   *)
(* what it reads for an observe.  Base is the part the identifier names.   *)
(***************************************************************************)
EXTENDS Integers, FiniteSets

CONSTANTS
    Kinds,          \* the kinds, each a record of what it declares (see Declarations)
    Stages, Base,   \* the parts of the resource; the one the get verb reads
    NoToken,        \* no token is cached, or presented
    Faults,         \* the kinds of disturbance that may happen
    MaxFaults       \* how many disturbances happen in all (a bound)

FaultKinds == {"rotate", "authn", "credential", "stage", "upstream", "lost", "read", "predicate",
               "conflict", "undo", "crash", "operator", "worker"}

\* What a kind declares: observeApiRef with its two predicates, or findby alone; and a get verb that
\* can be built, with or without a predicate that tells a deleted resource by its body.
Declarations ==
    {k \in [delegated : BOOLEAN, notFoundExpr : BOOLEAN, upToDateExpr : BOOLEAN,
            get : BOOLEAN, notFoundBody : BOOLEAN] :
        /\ k.delegated \/ (~k.notFoundExpr /\ ~k.upToDateExpr)
        /\ k.notFoundBody => k.get}

Keys   == 0 .. MaxFaults      \* the signing keys of authn, in order
Tokens == Keys \cup {NoToken} \* a token is told by the key that signed it

ASSUME KindsAssumption == Kinds \subseteq Declarations
ASSUME StagesAssumption == Base \in Stages
ASSUME TokensAssumption == NoToken \notin Int
ASSUME FaultsAssumption == Faults \subseteq FaultKinds
ASSUME BoundAssumption == MaxFaults \in Nat

VARIABLES
    kind,       \* what the kind declares, fixed
    \* the CR as the Kubernetes API server stores it
    phase,      \* live, deleting or gone
    status,     \* the parts whose fields its status carries
    ready,      \* the reason of its Ready condition
    marker,     \* which external-create annotation it carries
    \* the world
    parts,      \* the parts of the external resource that exist
    key,        \* the key authn signs with, and snowplow verifies with
    \* the token cache, which all workers share
    cached,     \* the token, when there is one
    ageing,     \* whether it is too near its expiry to be handed out
    \* the pass in progress
    pc,         \* its next step
    action,     \* the verb it delegates
    token,      \* the token its request carries
    attempt,    \* how often the call was issued
    dispatched, \* and how often its stages were run (history)
    composed,   \* the parts the call composed, or the read found
    copy,       \* whether the CR changed since the pass read it
    \* the rest
    queue,      \* the Create and Update events
    past,       \* what has ever happened to the CR (history, see Events)
    faults      \* disturbances so far

cr    == <<phase, status, ready, marker>>
cache == <<cached, ageing>>
call  == <<action, token, attempt, dispatched, composed>>
pass  == <<pc, call, copy>>
vars  == <<kind, cr, parts, key, cache, pass, queue, past, faults>>

Verbs == {"observe", "create", "update", "delete"}
Steps == {"idle", "recover", "open", "read", "token", "call", "answered", "release"}

\* Its status carried the identifier; a create or an update was answered with parts of the resource
\* but not with its base; notFoundBody could not be evaluated when a deletion was verified.
Events == {"identified", "answeredInPart", "unreadable"}

TypeOK ==
    /\ kind \in Kinds
    /\ phase \in {"live", "deleting", "gone"} /\ status \subseteq Stages
    /\ ready \in {"None", "Creating", "Available", "Unavailable", "ObserveFailed"}
    /\ marker \in {"none", "pending", "succeeded", "failed"}
    /\ parts \subseteq Stages /\ key \in Keys
    /\ cached \in Tokens /\ ageing \in BOOLEAN
    /\ pc \in Steps /\ action \in Verbs /\ token \in Tokens
    /\ attempt \in 0 .. 2 /\ dispatched \in 0 .. 2 /\ composed \subseteq Stages
    /\ copy \in {"fresh", "stale"}
    /\ queue \subseteq {"Create", "Update"} /\ past \subseteq Events
    /\ faults \in 0 .. MaxFaults

Init ==
    /\ kind \in Kinds
    /\ phase = "live" /\ status = {} /\ ready = "None" /\ marker = "none"
    /\ parts \in SUBSET Stages /\ key = 0
    /\ cached = NoToken /\ ageing = FALSE
    /\ pc = "idle" /\ action = "observe" /\ token = NoToken
    /\ attempt = 0 /\ dispatched = 0 /\ composed = {} /\ copy = "fresh"
    /\ queue = {} /\ past = {} /\ faults = 0

----------------------------------------------------------------------------
Stale    == copy = "stale"
Fault(f) == f \in Faults /\ faults < MaxFaults /\ faults' = faults + 1
At(step) == pc = step /\ phase # "gone"

\* A pass starts with the CR as it is, moves on and ends.
NoCall(verb)           == action' = verb /\ token' = NoToken /\ attempt' = 0 /\ dispatched' = 0 /\ composed' = {}
StartPass(step, verb)  == pc' = step /\ NoCall(verb) /\ copy' = "fresh"
Goto(step)             == pc' = step /\ UNCHANGED <<call, copy>>
EndPass                == pc' = "idle" /\ NoCall("observe") /\ copy' = "fresh"

AnsweredInPart == action \in {"create", "update"} /\ composed # {} /\ Base \notin composed

\* A status write is refused when the CR changed since the pass read it.
WriteStatus(fields, newReady) ==
    /\ status' = IF Stale THEN status ELSE fields
    /\ ready' = IF Stale THEN ready ELSE newReady
    /\ past' = IF Stale THEN past
               ELSE past \cup (IF Base \in fields THEN {"identified"} ELSE {})
                         \cup (IF AnsweredInPart THEN {"answeredInPart"} ELSE {})

----------------------------------------------------------------------------
(* One call of a RESTAction (snowplow.go, authn.go).                       *)

\* Mutant of Reusable: a token is handed out for as long as there is one.
ReusableForever == cached # NoToken
Reusable == cached # NoToken /\ ~ageing

\* A cached token is used until it nears its expiry; another is asked for then.
AcquireToken ==
    /\ At("token")
    /\ token' = IF Reusable THEN cached ELSE key
    /\ IF Reusable THEN UNCHANGED cache ELSE cached' = key /\ ageing' = FALSE
    /\ pc' = "call" /\ attempt' = attempt + 1
    /\ UNCHANGED <<kind, cr, parts, key, action, dispatched, composed, copy, queue, past, faults>>

\* What an error of the call leaves behind, for each verb.
Fails ==
    CASE action = "observe" -> ready' = "ObserveFailed" /\ EndPass /\ UNCHANGED marker
      [] action = "create"  -> ready' = "Creating" /\ EndPass /\ marker' = "failed"
      [] OTHER -> EndPass /\ UNCHANGED <<ready, marker>>

ExchangeFails ==
    /\ At("token") /\ ~Reusable /\ Fault("authn")
    /\ Fails
    /\ UNCHANGED <<kind, phase, status, parts, key, cache, queue, past>>

\* A token signed with another key is answered with 503: nothing is run, and nothing dropped.
KeyUnknown ==
    /\ At("call") /\ token # key
    /\ Fails
    /\ UNCHANGED <<kind, phase, status, parts, key, cache, queue, past, faults>>

\* Mutant of Retryable: every 401 is retried.
RetryableOn401(cause) == attempt = 1
Retryable(cause) == attempt = 1 /\ cause = "SessionCredentialMissing"

\* The token cache is dropped and the call issued again.
Reissue(runs) ==
    /\ cached' = NoToken /\ ageing' = FALSE
    /\ pc' = "token" /\ dispatched' = dispatched + runs
    /\ UNCHANGED <<ready, marker, action, token, attempt, composed, copy>>

\* A 401: the call is issued again, once, if the cause says that nothing was run.
Unauthorized(cause, runs) == IF Retryable(cause) THEN Reissue(runs) ELSE Fails /\ UNCHANGED cache

CredentialMissing ==
    /\ At("call") /\ token = key /\ Fault("credential")
    /\ Unauthorized("SessionCredentialMissing", 0)
    /\ UNCHANGED <<kind, phase, status, parts, key, queue, past>>

\* Every verb is given the spec, next to the identifiers the CR carries.
Extras(verb) == {"name", "uid", "spec"} \cup (IF Base \in status THEN {"identifier"} ELSE {})

\* Stages are guarded by what they iterate over: without the spec they run over nothing.
Reached == IF "spec" \in Extras(action) THEN Stages ELSE {}

\* The stages that ran, and what they leave of the resource.  A part needs the base to be put to.
Ran(done) ==
    /\ done \subseteq Reached
    /\ action \in {"create", "update"} /\ Base \notin parts => (done # {} => Base \in done)
Left(done) ==
    CASE action \in {"create", "update"} -> parts \cup done
      [] action = "delete" -> parts \ done
      [] OTHER -> parts
\* What they compose: an observe what it could read, a create and an update what they wrote.
Composed(done) ==
    CASE action = "observe" -> parts \cap done [] action = "delete" -> {} [] OTHER -> done

\* The stages are run, and snowplow answers 200 whether or not some of them failed.
Run ==
    /\ At("call") /\ token = key
    /\ \E done \in SUBSET Stages :
          /\ Ran(done)
          /\ IF done = Reached THEN UNCHANGED faults ELSE Fault("stage")
          /\ parts' = Left(done) /\ composed' = Composed(done)
    /\ dispatched' = dispatched + 1
    /\ pc' = "answered"
    /\ UNCHANGED <<kind, cr, key, cache, action, token, attempt, copy, queue, past>>

\* Stages are run, then the API behind one of them answers 401, which becomes the answer.
UpstreamUnauthorized ==
    /\ At("call") /\ token = key /\ Fault("upstream")
    /\ \E done \in SUBSET Stages : Ran(done) /\ done # Stages /\ parts' = Left(done)
    /\ Unauthorized("none", 1)
    /\ UNCHANGED <<kind, phase, status, key, queue, past>>

\* Stages are run and the answer is lost, or too late.
AnswerLost ==
    /\ At("call") /\ token = key /\ Fault("lost")
    /\ \E done \in SUBSET Stages : Ran(done) /\ parts' = Left(done)
    /\ Fails
    /\ UNCHANGED <<kind, phase, status, key, cache, queue, past>>

Resolve == AcquireToken \/ ExchangeFails \/ KeyUnknown \/ CredentialMissing \/ Run
           \/ UpstreamUnauthorized \/ AnswerLost

----------------------------------------------------------------------------
(* Observe.                                                                *)

StartObserve ==
    /\ At("idle")
    /\ StartPass(IF marker = "pending" THEN "recover" ELSE "open", "observe")
    /\ UNCHANGED <<kind, cr, parts, key, cache, queue, past, faults>>

\* A create whose outcome was not recorded is settled by a read that finds the resource, or that
\* asks for it by its identifier.  A delegated observe may be partial and is not asked.
CanTell == ~kind.delegated /\ (Base \in parts \/ (kind.get /\ Base \in status))
Recover ==
    /\ At("recover")
    /\ marker' = IF Stale \/ ~CanTell THEN marker ELSE IF Base \in parts THEN "succeeded" ELSE "none"
    /\ ready' = IF CanTell \/ Stale THEN ready ELSE "Creating"
    /\ EndPass
    /\ UNCHANGED <<kind, phase, status, parts, key, cache, queue, past, faults>>

\* A conflict ends an Observe with an error, which the runtime reports or quietly requeues.
Conflicts == ready' \in {ready, "ObserveFailed"}

\* The write that opens Observe fails on a CR that changed.
OpenConflicts ==
    /\ At("open") /\ Stale
    /\ Conflicts /\ EndPass
    /\ UNCHANGED <<kind, phase, status, marker, parts, key, cache, queue, past, faults>>

Open ==
    /\ At("open") /\ ~Stale
    /\ Goto(IF kind.delegated THEN "token" ELSE "read")
    /\ UNCHANGED <<kind, cr, parts, key, cache, queue, past, faults>>

\* The get verb can be asked when its path has an identifier, and finds the base.
Verifiable == kind.get /\ Base \in status
Lingers    == Verifiable /\ Base \in parts

\* A kind that is not observed by a RESTAction is read by its verbs, which see the base.
Read ==
    /\ At("read")
    /\ composed' = parts \cap {Base} /\ pc' = "answered"
    /\ UNCHANGED <<kind, cr, parts, key, cache, action, token, attempt, dispatched, copy, queue, past, faults>>

\* The read fails, or its notFoundBody does on the answer.
ReadFails ==
    /\ At("read")
    /\ Fault("read") \/ (Lingers /\ kind.notFoundBody /\ Fault("predicate"))
    /\ ready' = "ObserveFailed" /\ EndPass
    /\ UNCHANGED <<kind, phase, status, marker, parts, key, cache, queue, past>>

\* What the observe composed decides, also when it is partial.
ReportedAbsent == IF kind.delegated THEN kind.notFoundExpr /\ Base \notin composed ELSE composed = {}
UpToDate == kind.upToDateExpr => composed = Stages

ConcludeAbsent ==
    /\ At("answered") /\ action = "observe" /\ ReportedAbsent
    /\ queue' = queue \cup {"Create"}
    /\ EndPass
    /\ UNCHANGED <<kind, cr, parts, key, cache, past, faults>>

\* What was composed is merged into status: a field that it lacks stays.
ConcludePresent ==
    /\ At("answered") /\ action = "observe" /\ ~ReportedAbsent /\ ~Stale
    /\ WriteStatus(status \cup composed, IF UpToDate THEN "Available" ELSE "Unavailable")
    /\ queue' = IF UpToDate THEN queue ELSE queue \cup {"Update"}
    /\ EndPass
    /\ UNCHANGED <<kind, phase, marker, parts, key, cache, faults>>

ConclusionConflicts ==
    /\ At("answered") /\ action = "observe" /\ ~ReportedAbsent /\ Stale
    /\ Conflicts /\ EndPass
    /\ UNCHANGED <<kind, phase, status, marker, parts, key, cache, queue, past, faults>>

Observe == StartObserve \/ Recover \/ OpenConflicts \/ Open \/ Read \/ ReadFails
           \/ ConcludeAbsent \/ ConcludePresent \/ ConclusionConflicts

----------------------------------------------------------------------------
(* Create and Update.                                                      *)

\* The runtime marks the create pending.  A CR that is being deleted is refused.
StartCreate ==
    /\ At("idle") /\ "Create" \in queue
    /\ queue' = queue \ {"Create"}
    /\ IF phase = "live" THEN marker' = "pending" /\ StartPass("token", "create")
       ELSE UNCHANGED <<marker, pass>>
    /\ UNCHANGED <<kind, phase, status, ready, parts, key, cache, past, faults>>

\* Mutant of Projected: status is replaced also by a sequence that composed nothing.
ProjectedAlways == composed
\* Status is replaced by what the sequence composed, if anything.
Projected == IF composed = {} THEN status ELSE composed

Created ==
    /\ At("answered") /\ action = "create"
    /\ WriteStatus(Projected, "Creating")
    /\ marker' \in IF Stale THEN {"pending", "failed"} ELSE {"succeeded"}
    /\ EndPass
    /\ UNCHANGED <<kind, phase, parts, key, cache, queue, faults>>

StartUpdate ==
    /\ At("idle") /\ "Update" \in queue
    /\ queue' = queue \ {"Update"}
    /\ StartPass("token", "update")
    /\ UNCHANGED <<kind, cr, parts, key, cache, past, faults>>

\* An update that was answered makes the CR Available, whatever its stages did.
Updated ==
    /\ At("answered") /\ action = "update"
    /\ WriteStatus(Projected, "Available")
    /\ EndPass
    /\ UNCHANGED <<kind, phase, marker, parts, key, cache, queue, faults>>

----------------------------------------------------------------------------
(* Delete.                                                                 *)

StartDelete ==
    /\ At("idle") /\ phase = "deleting"
    /\ StartPass("token", "delete")
    /\ UNCHANGED <<kind, cr, parts, key, cache, queue, past, faults>>

\* resolveDeleteOutcome, after a teardown that was answered with 200: the get verb decides, and
\* where it cannot be asked the answer is trusted.
VerifyDelete ==
    /\ At("answered") /\ action = "delete"
    /\ IF Lingers THEN EndPass ELSE Goto("release")
    /\ UNCHANGED <<kind, cr, parts, key, cache, queue, past, faults>>

\* The resource is there, but notFoundBody fails on it: nothing is verified, and the answer of the
\* teardown is trusted.
PredicateFails ==
    /\ At("answered") /\ action = "delete" /\ Lingers /\ kind.notFoundBody /\ Fault("predicate")
    /\ Goto("release")
    /\ past' = past \cup {"unreadable"}
    /\ UNCHANGED <<kind, cr, parts, key, cache, queue>>

\* The client of the get verb cannot be had, or its answer: the finalizer stays.
VerificationFails ==
    /\ At("answered") /\ action = "delete" /\ Fault("read")
    /\ EndPass
    /\ UNCHANGED <<kind, cr, parts, key, cache, queue, past>>

\* Delete returned nil, and the runtime takes the finalizer off unless the CR changed.
ReleaseFinalizer ==
    /\ At("release")
    /\ phase' = IF Stale THEN phase ELSE "gone"
    /\ EndPass
    /\ UNCHANGED <<kind, status, ready, marker, parts, key, cache, queue, past, faults>>

Mutate == StartCreate \/ Created \/ StartUpdate \/ Updated
          \/ StartDelete \/ VerifyDelete \/ PredicateFails \/ VerificationFails \/ ReleaseFinalizer

----------------------------------------------------------------------------
(* Everybody else.                                                         *)

Outdate == copy' = (IF pc = "idle" THEN copy ELSE "stale") /\ UNCHANGED <<pc, call>>

UserDeletes ==
    /\ phase = "live" /\ phase' = "deleting"
    /\ Outdate
    /\ UNCHANGED <<kind, status, ready, marker, parts, key, cache, queue, past, faults>>

OtherWriter ==
    /\ pc # "idle" /\ Fault("conflict")
    /\ Outdate
    /\ UNCHANGED <<kind, cr, parts, key, cache, queue, past>>

OperatorClearsMarker ==
    /\ marker = "pending" /\ pc \in {"idle", "recover"} /\ phase # "gone" /\ Fault("operator")
    /\ marker' = "none"
    /\ Outdate
    /\ UNCHANGED <<kind, phase, status, ready, parts, key, cache, queue, past>>

\* Somebody removes parts of the resource.
Undo ==
    /\ phase # "gone" /\ Fault("undo")
    /\ \E some \in (SUBSET parts) \ {{}} : parts' = parts \ some
    /\ UNCHANGED <<kind, cr, key, cache, pass, queue, past>>

\* authn rotates its signing key: every token that is out is dead.
Rotate ==
    /\ phase # "gone" /\ Fault("rotate")
    /\ key' = key + 1
    /\ UNCHANGED <<kind, cr, parts, cache, pass, queue, past>>

\* Time passes.
Age ==
    /\ phase # "gone" /\ cached # NoToken /\ ~ageing /\ ageing' = TRUE
    /\ UNCHANGED <<kind, cr, parts, key, cached, pass, queue, past, faults>>

\* Another worker asks for a token, or drops the one there is.
OtherWorker ==
    /\ phase # "gone"
    /\ \/ ~Reusable /\ cached' = key /\ ageing' = FALSE /\ UNCHANGED faults
       \/ cached # NoToken /\ Fault("worker") /\ cached' = NoToken /\ ageing' = FALSE
    /\ UNCHANGED <<kind, cr, parts, key, pass, queue, past>>

\* A restart forgets the pass, the queue and the token.
Crash ==
    /\ phase # "gone" /\ Fault("crash")
    /\ EndPass
    /\ queue' = {} /\ cached' = NoToken /\ ageing' = FALSE
    /\ UNCHANGED <<kind, cr, parts, key, past>>

Environment ==
    UserDeletes \/ OtherWriter \/ OperatorClearsMarker \/ Undo \/ Rotate \/ Age \/ OtherWorker \/ Crash

Next == Observe \/ Resolve \/ Mutate \/ Environment

\* A started pass is finished, resyncs come, the queue is served and time passes.
Step == (Observe \/ Resolve \/ Mutate) /\ faults' = faults
Fairness ==
    /\ WF_vars(Step /\ pc # "idle") /\ WF_vars(StartObserve) /\ WF_vars(Age)
    /\ SF_vars(StartCreate) /\ SF_vars(StartUpdate) /\ SF_vars(StartDelete)

Spec     == Init /\ [][Next]_vars
FairSpec == Spec /\ Fairness

----------------------------------------------------------------------------
(* Properties.                                                             *)

\* The stages of a RESTAction are run at most once by one call, whatever it is answered with and
\* whatever becomes of the token meanwhile: a 401 that says nothing about what was run is not
\* answered with another call (snowplow.go).
NeverReplayed == dispatched <= 1

\* A CR that goes leaves the base of its resource behind only where its kind has no get verb to look
\* with, where its status never carried the identifier, where a create or an update was answered with
\* parts that lack it, or where notFoundBody failed at the verification: not because of teardowns that
\* failed behind a 200, of creates and updates that composed nothing, conflicts, restarts and answers
\* that were lost (mutate_restaction.go).
IdentifiedIsNotOrphaned ==
    phase = "gone" /\ Base \in parts /\ kind.get /\ "identified" \in past =>
        "answeredInPart" \in past \/ "unreadable" \in past

\* A kind that declares how to tell absence and drift ends up complete and Available whatever
\* stages failed, answers were lost and tokens died, unless a create was cut off; and a CR that is
\* being deleted goes, with the base of its resource if the get verb can tell (observe_restaction.go,
\* authn.go, mutate_restaction.go).
Whole == ready = "Available" /\ parts = Stages
Settles ==
    /\ kind.notFoundExpr /\ kind.upToDateExpr => <>[](phase # "live" \/ marker = "pending" \/ Whole)
    /\ phase = "deleting" ~> phase = "gone"
=============================================================================
