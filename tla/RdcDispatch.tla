---------------------------- MODULE RdcDispatch ----------------------------
(***************************************************************************)
(* A dispatch kind of the rest-dynamic-controller: its create fires a      *)
(* non-idempotent trigger, and its observe looks the CR's correlation      *)
(* token up in a collection the API lists its invocations in.  A token     *)
(* that was posted is recorded in an annotation, and Observe never reports *)
(* a recorded token as absent: that is what fires a token once.            *)
(*                                                                         *)
(* The kind declares no get and no findby, so the recovery of a create     *)
(* whose outcome was never recorded has nothing to read with.              *)
(***************************************************************************)
EXTENDS Integers, FiniteSets

CONSTANTS
    Tokens,     \* the correlation tokens a user may set
    None,       \* no token
    MaxMisses,  \* maxDispatchObserveMisses
    Faults,     \* the kinds of disturbance that may happen
    MaxFaults   \* how many disturbances happen in all (a bound)

FaultKinds == {"api", "patch", "conflict", "crash", "forget", "edit", "operator"}

ASSUME TokensAssumption == None \notin Tokens
ASSUME FaultsAssumption == Faults \subseteq FaultKinds
ASSUME BoundsAssumption == MaxMisses \in Nat \ {0} /\ MaxFaults \in Nat

VARIABLES
    echoed,     \* whether the API echoes tokens where echoedAt looks for them, fixed
    \* the CR as the Kubernetes API server stores it
    phase,      \* live, deleting or gone
    token,      \* the correlation token in its spec
    recorded,   \* annotation dispatched-token
    misses,     \* annotation dispatch-observe-misses
    marker,     \* which external-create annotation it carries
    ready,      \* the reason of its Ready condition
    \* the API
    runs,       \* per token, how many invocations it performed
    unlisted,   \* of those, how many its collection does not list yet
    listed,     \* and how many it lists
    \* the pass in progress
    pc,         \* its next step
    held,       \* the token it read from the CR
    seen,       \* the answer it holds in memory
    copy,       \* whether the CR changed since the pass read it
    \* the rest
    queue,      \* the Create event, when the runtime has queued it
    submitted,  \* per token, how often the user set it (history)
    unknown,    \* per token, how many of its invocations were never recorded (history)
    faults      \* disturbances so far

cr      == <<phase, token, recorded, misses, marker, ready>>
api     == <<runs, unlisted, listed>>
pass    == <<pc, held, seen, copy>>
history == <<submitted, unknown>>
vars    == <<echoed, cr, api, pass, queue, history, faults>>

Steps   == {"idle", "recover", "observe", "count", "status", "create", "note",
            "recordCreate", "settle"}
Answers == {"none", "found", "missed", "ok", "error", "conflict"}
Readys  == {"none", "Creating", "Available", "DispatchedButNotObserved",
            "CorrelationTokenMissing", "ObserveFailed"}

TypeOK ==
    /\ echoed \in {"yes", "no"}
    /\ phase \in {"live", "deleting", "gone"}
    /\ token \in Tokens \cup {None} /\ recorded \in Tokens \cup {None}
    /\ misses \in 0 .. MaxMisses
    /\ marker \in {"none", "pending", "succeeded", "failed"}
    /\ ready \in Readys
    /\ runs \in [Tokens -> Nat] /\ unlisted \in [Tokens -> Nat] /\ listed \in [Tokens -> Nat]
    /\ pc \in Steps /\ held \in Tokens \cup {None} /\ seen \in Answers
    /\ copy \in {"fresh", "stale"}
    /\ queue \subseteq {"Create"}
    /\ submitted \in [Tokens -> Nat] /\ unknown \in [Tokens -> Nat]
    /\ faults \in 0 .. MaxFaults

Never == [t \in Tokens |-> 0]

Init ==
    /\ echoed \in {"yes", "no"}
    /\ phase = "live" /\ token \in Tokens \cup {None}
    /\ recorded = None /\ misses = 0 /\ marker = "none" /\ ready = "none"
    /\ runs = Never /\ unlisted = Never /\ listed = Never
    /\ pc = "idle" /\ held = None /\ seen = "none" /\ copy = "fresh"
    /\ queue = {}
    /\ submitted = [t \in Tokens |-> IF t = token THEN 1 ELSE 0]
    /\ unknown = Never
    /\ faults = 0

-----------------------------------------------------------------------------
Stale    == copy = "stale"
Fault(f) == f \in Faults /\ faults < MaxFaults /\ faults' = faults + 1
At(step) == pc = step /\ phase # "gone"

\* A pass starts with the token it reads, moves on and ends.
StartPass(step)        == pc' = step /\ held' = token /\ seen' = "none" /\ copy' = "fresh"
Continue(step, answer) == pc' = step /\ seen' = answer /\ UNCHANGED <<held, copy>>
EndPass                == pc' = "idle" /\ held' = None /\ seen' = "none" /\ copy' = "fresh"

One(f, t)  == [f EXCEPT ![t] = @ + 1]
Less(f, t) == [f EXCEPT ![t] = @ - 1]

\* A status write is refused when the CR changed since the pass read it.
WriteStatus(newReady) == ready' = IF Stale THEN ready ELSE newReady

\* An annotation patch carries no resourceVersion: it never conflicts, and the
\* pass goes on with the CR as the patch left it (patchAnnotations).
Patched(step, answer) == pc' = step /\ seen' = answer /\ copy' = "fresh" /\ UNCHANGED held

-----------------------------------------------------------------------------
(* Observe.                                                                *)

StartObserve ==
    /\ At("idle")
    /\ StartPass(IF marker = "pending" THEN "recover" ELSE "observe")
    /\ UNCHANGED <<echoed, cr, api, queue, history, faults>>

\* Exists has no verb to read with: it answers with an error, and the runtime
\* marks the CR Creating and keeps the marker.
RecoverUndetermined ==
    /\ At("recover")
    /\ ready' = "Creating"
    /\ EndPass
    /\ UNCHANGED <<echoed, phase, token, recorded, misses, marker, api, queue, history, faults>>

\* The write that opens Observe fails on a CR that changed: nothing happens.
OpenConflicts ==
    /\ At("observe") /\ Stale
    /\ EndPass
    /\ UNCHANGED <<echoed, cr, api, queue, history, faults>>

\* Without a token nothing could ever be found again: the CR is held.
HoldWithoutToken ==
    /\ At("observe") /\ held = None
    /\ WriteStatus("CorrelationTokenMissing")
    /\ EndPass
    /\ UNCHANGED <<echoed, phase, token, recorded, misses, marker, api, queue, history, faults>>

\* Two items that echo the token, a missing collection and a failed read are errors.
Ambiguous == held # None /\ listed[held] > 1

LookupFails ==
    /\ At("observe") /\ held # None
    /\ \/ Ambiguous /\ UNCHANGED faults
       \/ Fault("api")
    /\ ready' = "ObserveFailed"
    /\ EndPass
    /\ UNCHANGED <<echoed, phase, token, recorded, misses, marker, api, queue, history>>

\* Found: the count of misses goes, when there is one.
FindInvocation ==
    /\ At("observe") /\ held # None /\ listed[held] = 1
    /\ Continue(IF misses > 0 THEN "count" ELSE "status", "found")
    /\ UNCHANGED <<echoed, cr, api, queue, history, faults>>

\* Mutant of AlreadyDispatched: the annotation is not consulted.
NeverDispatched == FALSE

AlreadyDispatched == held # None /\ recorded = held

\* Not found, and this controller did post for this very token: count a miss.
MissInvocation ==
    /\ At("observe") /\ held # None /\ listed[held] = 0 /\ AlreadyDispatched
    /\ Continue("count", "missed")
    /\ UNCHANGED <<echoed, cr, api, queue, history, faults>>

\* Not found and never posted for: the CR does not exist, a Create is queued.
ReportAbsent ==
    /\ At("observe") /\ held # None /\ listed[held] = 0 /\ ~AlreadyDispatched
    /\ queue' = {"Create"}
    /\ EndPass
    /\ UNCHANGED <<echoed, cr, api, history, faults>>

\* Mutant of Counted: the count restarts at every check.
CountedAnew == IF seen = "found" THEN 0 ELSE 1

\* The code counts on beyond the limit; nothing tells those counts apart.
Counted == IF seen = "found" THEN 0 ELSE IF misses < MaxMisses THEN misses + 1 ELSE misses

CountMisses ==
    /\ At("count")
    /\ misses' = Counted
    /\ Patched("status", seen)
    /\ UNCHANGED <<echoed, phase, token, recorded, marker, ready, api, queue, history, faults>>

\* A patch that fails fails the observe.
CountFails ==
    /\ At("count") /\ Fault("patch")
    /\ ready' = "ObserveFailed"
    /\ EndPass
    /\ UNCHANGED <<echoed, phase, token, recorded, misses, marker, api, queue, history>>

ObservedReady ==
    IF seen = "found" THEN "Available"
    ELSE IF misses >= MaxMisses THEN "DispatchedButNotObserved" ELSE "Creating"

WriteObserved ==
    /\ At("status")
    /\ WriteStatus(ObservedReady)
    /\ EndPass
    /\ UNCHANGED <<echoed, phase, token, recorded, misses, marker, api, queue, history, faults>>

Observe ==
    \/ StartObserve \/ RecoverUndetermined \/ OpenConflicts \/ HoldWithoutToken
    \/ LookupFails \/ FindInvocation \/ MissInvocation \/ ReportAbsent \/ CountMisses
    \/ CountFails \/ WriteObserved

-----------------------------------------------------------------------------
(* Create fires the dispatch.  It does not consult the annotation: it      *)
(* fires the token the CR holds now.                                       *)

StartCreate ==
    /\ At("idle") /\ "Create" \in queue
    /\ queue' = {}
    /\ IF phase = "live" THEN marker' = "pending" /\ StartPass("create")
       ELSE UNCHANGED <<marker, pass>>
    /\ UNCHANGED <<echoed, phase, token, recorded, misses, ready, api, history, faults>>

Fire ==
    /\ At("create") /\ held # None
    /\ runs' = One(runs, held) /\ unlisted' = One(unlisted, held)
    /\ UNCHANGED <<echoed, cr, listed, queue, submitted>>

Dispatch == Fire /\ Continue("note", "none") /\ UNCHANGED <<unknown, faults>>

\* The API performs the invocation and its answer is lost.
DispatchLost ==
    /\ Fire /\ Fault("api")
    /\ unknown' = One(unknown, held)
    /\ Continue("settle", "error")

\* Mutant of DispatchFails: the token is recorded before the post succeeded.
RecordsAttempt ==
    /\ At("create") /\ held # None /\ Fault("api")
    /\ Continue("note", "none")
    /\ UNCHANGED <<echoed, cr, api, queue, history>>

\* Refused without a token, or an error before the invocation took place.
DispatchFails ==
    /\ At("create")
    /\ \/ held = None /\ UNCHANGED faults
       \/ held # None /\ Fault("api")
    /\ Continue("settle", "error")
    /\ UNCHANGED <<echoed, cr, api, queue, history>>

\* The token is recorded once the post has succeeded.
NoteToken ==
    /\ At("note")
    /\ recorded' = held /\ misses' = 0
    /\ Patched("recordCreate", "none")
    /\ UNCHANGED <<echoed, phase, token, marker, ready, api, queue, history, faults>>

NoteFails ==
    /\ At("note") /\ Fault("patch")
    /\ unknown' = One(unknown, held)
    /\ Continue("settle", "error")
    /\ UNCHANGED <<echoed, cr, api, queue, submitted>>

RecordCreate ==
    /\ At("recordCreate")
    /\ WriteStatus("Creating")
    /\ Continue("settle", IF Stale THEN "conflict" ELSE "ok")
    /\ UNCHANGED <<echoed, phase, token, recorded, misses, marker, api, queue, history, faults>>

\* The runtime settles the marker; only an error makes it write Ready.
SettleCreate ==
    /\ At("settle")
    /\ \/ seen = "ok" /\ marker' = "succeeded" /\ UNCHANGED ready
       \/ seen = "error" /\ marker' = "failed" /\ ready' = "Creating"
       \/ seen = "conflict" /\ marker' \in {"pending", "failed"} /\ UNCHANGED ready
    /\ EndPass
    /\ UNCHANGED <<echoed, phase, token, recorded, misses, api, queue, history, faults>>

Create ==
    \/ StartCreate \/ Dispatch \/ DispatchLost \/ DispatchFails \/ NoteToken \/ NoteFails
    \/ RecordCreate \/ SettleCreate

-----------------------------------------------------------------------------
(* Delete is a no-op that releases the finalizer: an invocation is history. *)

DeleteDispatch ==
    /\ At("idle") /\ phase = "deleting"
    /\ phase' = "gone"
    /\ UNCHANGED <<echoed, token, recorded, misses, marker, ready, api, pass, queue, history,
                   faults>>

-----------------------------------------------------------------------------
(* Everybody else.                                                         *)

Outdate ==
    /\ copy' = IF pc = "idle" THEN copy ELSE "stale"
    /\ UNCHANGED <<pc, held, seen>>

UserDeletes ==
    /\ phase = "live" /\ phase' = "deleting"
    /\ Outdate
    /\ UNCHANGED <<echoed, token, recorded, misses, marker, ready, api, queue, history, faults>>

\* The user asks for another invocation by setting another token.
UserSubmits ==
    /\ phase = "live" /\ Fault("edit")
    /\ \E t \in Tokens \ {token} : token' = t /\ submitted' = One(submitted, t)
    /\ Outdate
    /\ UNCHANGED <<echoed, phase, recorded, misses, marker, ready, api, queue, unknown>>

UserRemovesToken ==
    /\ phase = "live" /\ token # None /\ Fault("edit")
    /\ token' = None
    /\ Outdate
    /\ UNCHANGED <<echoed, phase, recorded, misses, marker, ready, api, queue, history>>

OtherWriter ==
    /\ pc # "idle" /\ Fault("conflict")
    /\ Outdate
    /\ UNCHANGED <<echoed, cr, api, queue, history>>

\* An operator clears the pending marker that recovery cannot settle.
OperatorClearsMarker ==
    /\ marker = "pending" /\ phase # "gone" /\ pc \in {"idle", "recover"} /\ Fault("operator")
    /\ marker' = "none"
    /\ Outdate
    /\ UNCHANGED <<echoed, phase, token, recorded, misses, ready, api, queue, history>>

\* The collection is eventually consistent, and drops what is old.
List ==
    /\ echoed = "yes"
    /\ \E t \in Tokens :
          /\ unlisted[t] > 0
          /\ unlisted' = Less(unlisted, t) /\ listed' = One(listed, t)
    /\ UNCHANGED <<echoed, cr, runs, pass, queue, history, faults>>

Forget ==
    /\ Fault("forget")
    /\ \E t \in Tokens : listed[t] > 0 /\ listed' = Less(listed, t)
    /\ UNCHANGED <<echoed, cr, runs, unlisted, pass, queue, history>>

Crash ==
    /\ phase # "gone" /\ Fault("crash")
    /\ unknown' = IF pc = "note" THEN One(unknown, held) ELSE unknown
    /\ EndPass
    /\ queue' = {}
    /\ UNCHANGED <<echoed, cr, api, submitted>>

Environment ==
    \/ UserDeletes \/ UserSubmits \/ UserRemovesToken \/ OtherWriter
    \/ OperatorClearsMarker \/ List \/ Forget \/ Crash

Next == Observe \/ Create \/ DeleteDispatch \/ Environment

\* As in RdcLifecycle: a started pass is finished, resyncs come, the queue is
\* served, and a collection lists what it echoes.
Step == (Observe \/ Create) /\ faults' = faults

Fairness ==
    /\ WF_vars(Step /\ pc # "idle")
    /\ WF_vars(StartObserve) /\ SF_vars(StartCreate) /\ SF_vars(DeleteDispatch)
    /\ WF_vars(List)

Spec     == Init /\ [][Next]_vars
FairSpec == Spec /\ Fairness

-----------------------------------------------------------------------------
(* Properties.                                                             *)

\* A token is never fired more often than the user asked for it, except after an
\* invocation whose outcome never reached the annotation: neither a slow or
\* forgetful collection, nor a wrong echoedAt, nor an edit between Observe and
\* Create, nor a restart or a conflict fires it again.
Credit(t)        == submitted[t] + unknown[t]
RunsAreAccounted == \A t \in Tokens : runs[t] <= Credit(t)

\* A token is recorded as dispatched only if it was: an attempt that failed is
\* retried and never taken for an invocation.
RecordedOnlyIfRun == recorded # None => runs[recorded] > 0

\* A CR that asks for an invocation ends up Available or with a diagnosis, unless
\* the create marker or an ambiguous collection says otherwise.
Diagnosed ==
    []<>(\/ ready \in {"Available", "DispatchedButNotObserved", "CorrelationTokenMissing"}
         \/ phase # "live" \/ marker = "pending"
         \/ token # None /\ listed[token] > 1)

-----------------------------------------------------------------------------
(* The inductive strengthening.  A token that may still be fired has a     *)
(* credit left: the one in the CR when it is not the recorded one or when  *)
(* a Create is queued, the one a Create in progress holds, and the one the *)
(* user set behind the back of the pass in progress.                       *)

MayFire(t) == runs[t] < Credit(t)

Fired == pc = "note" /\ held = token

CreditIsLeft ==
    /\ token # None /\ token # recorded /\ ~Fired => MayFire(token)
    /\ token # None /\ "Create" \in queue => MayFire(token)
    /\ pc = "create" /\ held # None => MayFire(held)
    /\ pc # "idle" /\ token # None /\ token # held => MayFire(token)
    /\ pc = "note" => held # None
    /\ pc \in {"create", "note", "recordCreate", "settle"} => queue = {}

RunsInv == RunsAreAccounted /\ CreditIsLeft

\* What the annotation and the step before it know.
RecordInv == RecordedOnlyIfRun /\ (pc = "note" => held # None /\ runs[held] > 0)
=============================================================================
