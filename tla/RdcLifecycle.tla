---------------------------- MODULE RdcLifecycle ----------------------------
(***************************************************************************)
(* The reconcile loop of the rest-dynamic-controller for ONE custom        *)
(* resource (CR): the handler's Observe, Create, Update, Delete and Exists *)
(* against an HTTP API that creates, accepts, loses, refuses and deletes.  *)
(*                                                                         *)
(* A handler is split at every call that leaves the process (a request to  *)
(* the API, a write to the Kubernetes API server), because that is where   *)
(* the user, another writer of the CR, the API itself or a restart of the  *)
(* controller can come in between.  What the unstructured-runtime does     *)
(* around a handler is external code, modelled from how the handler's own  *)
(* comments and guards rely on it.                                         *)
(***************************************************************************)
EXTENDS Integers, FiniteSets

CONSTANTS
    Kinds,       \* the resource kinds considered, see KindType
    MaxCreates,  \* the API creates at most this many resources (a bound)
    Faults,      \* the kinds of disturbance that may happen
    MaxFaults    \* how many disturbances happen in all (a bound)

Verbs == {"get", "findby", "create", "update", "delete"}

(***************************************************************************)
(* What a RestDefinition and its API fix for a kind: the declared verbs,   *)
(* whether the path is filled from spec (a client-chosen name) or from the *)
(* identifier in status, whether the API's answers to a write carry that   *)
(* identifier, whether it answers a write with 202 and finishes later, and *)
(* whether a write first looks up another resource.                        *)
(***************************************************************************)
Traits   == {"named", "echo", "async", "lookup"}
KindType == [verbs : SUBSET Verbs, traits : SUBSET Traits]

FaultKinds == {"api", "denied", "conflict", "crash", "lose", "edit", "definition"}

ASSUME KindsAssumption  == Kinds \subseteq KindType
ASSUME FaultsAssumption == Faults \subseteq FaultKinds
ASSUME BoundsAssumption == MaxCreates \in Nat /\ MaxFaults \in Nat

VARIABLES
    kind,     \* the kind of the CR, fixed
    \* the CR as the Kubernetes API server stores it
    phase,    \* live, deleting (it has a deletionTimestamp) or gone
    marker,   \* which external-create annotation it carries
    ready,    \* the reason of its Ready condition
    synced,   \* the outcome in its Synced condition
    id,       \* the identifier in its status, 0 when there is none
    \* the external resources made for this CR
    live,     \* those that exist and can be read
    coming,   \* those accepted with a 202 and not yet readable
    dying,    \* those whose deletion was accepted and is not done
    late,     \* those that were ever coming
    lost,     \* those that were ever lost: nobody asked for their deletion
    minted,   \* how many there ever were
    spec,     \* whether the resource matches the CR's spec
    \* the pass in progress
    pc,       \* its next step
    seen,     \* the answer it holds in memory
    target,   \* the identifier it holds in memory
    copy,     \* whether the CR changed since the pass read it
    \* the rest
    queue,    \* the Create and Update events the runtime has queued
    present,  \* which things a pass looks up exist: the RestDefinition and the
              \* referent of a dependent lookup
    faults    \* disturbances so far

meta   == <<phase, marker>>
status == <<ready, synced, id>>
cr     == <<meta, status>>
api    == <<live, coming, dying, late, lost, minted, spec>>
pass   == <<pc, seen, target, copy>>
world  == <<kind, present>>
vars   == <<kind, cr, api, pass, queue, present, faults>>

Ids == 1 .. MaxCreates

Phases == {"live", "deleting", "gone"}
Readys == {"none", "Pending", "Creating", "Updating", "Available", "NotUpToDate",
           "AuthorizationDenied", "EndpointRefused", "ObserveFailed"}
Steps  == {"idle", "recover", "observe", "record", "conclude", "create",
           "recordCreate", "settleCreate", "update", "recordUpdate", "delete",
           "verify", "release"}
Answers == {"none", "inSync", "drifted", "absent", "blind", "denied", "failed",
            "ok", "accepted", "error", "conflict", "gone", "verified", "trusted",
            "noDefinition", "noDeleteVerb", "unaddressable"}

TypeOK ==
    /\ kind \in Kinds
    /\ phase \in Phases
    /\ marker \in {"none", "pending", "succeeded", "failed"}
    /\ ready \in Readys
    /\ synced \in {"none", "success", "error"}
    /\ id \in 0 .. MaxCreates
    /\ live \subseteq Ids /\ coming \subseteq Ids /\ dying \subseteq Ids
    /\ late \subseteq Ids /\ lost \subseteq Ids
    /\ minted \in 0 .. MaxCreates
    /\ spec \in {"applied", "drifted"}
    /\ pc \in Steps
    /\ seen \in Answers
    /\ target \in 0 .. MaxCreates
    /\ copy \in {"fresh", "stale"}
    /\ queue \subseteq {"Create", "Update"}
    /\ present \subseteq {"definition", "referent"}
    /\ faults \in 0 .. MaxFaults

\* A pass starts, moves on to its next step, and ends.
GoTo(step, answer, found) == pc' = step /\ seen' = answer /\ target' = found
StartPass(step) == GoTo(step, "none", 0) /\ copy' = "fresh"
Continue(step, answer, found) == GoTo(step, answer, found) /\ UNCHANGED copy
EndPass == StartPass("idle")

\* Kinds whose observe can adopt a resource that existed before the CR did.
Adopts(k) == "named" \in k.traits \/ "findby" \in k.verbs

Init ==
    /\ kind \in Kinds
    /\ phase = "live" /\ marker = "none" /\ ready = "none" /\ synced = "none" /\ id = 0
    /\ \E old \in {0} \cup (IF Adopts(kind) /\ MaxCreates > 0 THEN {1} ELSE {}) :
          /\ live = 1 .. old /\ minted = old
          /\ spec = IF old = 1 THEN "drifted" ELSE "applied"
    /\ coming = {} /\ dying = {} /\ late = {} /\ lost = {}
    /\ pc = "idle" /\ seen = "none" /\ target = 0 /\ copy = "fresh"
    /\ queue = {}
    /\ present = IF "lookup" \in kind.traits THEN {"definition"}
                 ELSE {"definition", "referent"}
    /\ faults = 0

-----------------------------------------------------------------------------
(* What a pass can address and see.                                        *)

Has(verb)   == verb \in kind.verbs
Is(trait)   == trait \in kind.traits
Present(x)  == x \in present
Stale       == copy = "stale"

\* Disturbance f happens now.
Fault(f) == f \in Faults /\ faults < MaxFaults /\ faults' = faults + 1

\* The path parameters of a request about this resource can be filled.
Addressable == Is("named") \/ id # 0

\* builder.IsResourceKnown: there is a get verb and its request validates.
Known == Has("get") /\ Addressable

\* The resource a request with the CR's path parameters reaches.
Addressed == IF Is("named") THEN live ELSE live \cap {id}

\* What the one read of an Observe or Exists can find: the get verb for a known
\* resource, otherwise the findby verb, otherwise nothing at all.
Reader == IF Known THEN "get" ELSE IF Has("findby") THEN "findby" ELSE "none"

Visible == IF Reader = "get" THEN Addressed
           ELSE IF Reader = "findby" THEN live ELSE {}

\* A status write carries the resourceVersion the pass read; the API server
\* refuses it when somebody else wrote the CR since (tools.UpdateStatus).
WriteStatus(newReady, newSynced, newId) ==
    IF Stale THEN UNCHANGED status
    ELSE ready' = newReady /\ synced' = newSynced /\ id' = newId

\* The runtime writes conditions on a CR it has just fetched.
WriteConditions(newReady, newSynced) ==
    ready' = newReady /\ synced' = newSynced /\ UNCHANGED id

At(step) == pc = step /\ phase # "gone"

-----------------------------------------------------------------------------
(* Observe, and the recovery of an incomplete create that precedes it.     *)

\* The runtime starts a pass at every resync and every event.  A create whose
\* outcome was never recorded is recovered before anything else.
StartObserve ==
    /\ At("idle")
    /\ \/ marker = "pending" /\ StartPass("recover")
       \/ marker # "pending" /\ StartPass("observe")
    /\ UNCHANGED <<cr, api, queue, faults, world>>

\* Exists can answer only for a CR that is not Pending and has a verb to read with.
CanTell == Present("definition") /\ ready # "Pending" /\ Reader # "none"

\* Exists = true: the create landed.
RecoverLanded ==
    /\ At("recover") /\ CanTell /\ Visible # {}
    /\ marker' = IF Stale THEN marker ELSE "succeeded"
    /\ EndPass
    /\ UNCHANGED <<phase, status, api, queue, faults, world>>

\* Exists = false needs the API's own 404, which only the get verb gives: a
\* findby that matches nothing is a 404 the client made up.
ProvenAbsent == CanTell /\ Known /\ Visible = {}

\* Within the grace period the runtime waits; past it the marker goes and the
\* pass continues.
RecoverAbsent ==
    /\ At("recover") /\ ProvenAbsent
    /\ \/ EndPass /\ UNCHANGED marker
       \/ /\ ~Stale
          /\ marker' = "none"
          /\ Continue("observe", "none", 0)
    /\ UNCHANGED <<phase, status, api, queue, faults, world>>

\* Exists = error: the runtime marks the CR Creating and in error, and keeps
\* the marker.
RecoverUndetermined ==
    /\ At("recover")
    /\ \/ ~ProvenAbsent /\ ~(CanTell /\ Visible # {}) /\ UNCHANGED faults
       \/ CanTell /\ Fault("api")
    /\ WriteConditions("Creating", "error")
    /\ EndPass
    /\ UNCHANGED <<meta, api, queue, world>>

\* The read of Observe.  The answer is used only in later steps.
ReadFound ==
    /\ At("observe") /\ Present("definition")
    /\ \E i \in Visible : Continue("record", IF spec = "drifted" THEN "drifted" ELSE "inSync", i)
    /\ UNCHANGED <<cr, api, queue, faults, world>>

ReadNothing ==
    /\ At("observe") /\ Present("definition") /\ Visible = {}
    /\ Continue("conclude", IF Reader = "none" THEN "blind" ELSE "absent", 0)
    /\ UNCHANGED <<cr, api, queue, faults, world>>

ReadDenied ==
    /\ At("observe") /\ Present("definition") /\ Reader # "none" /\ Fault("denied")
    /\ Continue("conclude", "denied", 0)
    /\ UNCHANGED <<cr, api, queue, world>>

\* Mutant of ReadFailed: a read that failed is taken for a 404.
ReadFailedAsAbsent ==
    /\ At("observe") /\ Present("definition") /\ Fault("api")
    /\ Continue("conclude", "absent", 0)
    /\ UNCHANGED <<cr, api, queue, world>>

ReadFailed ==
    /\ At("observe")
    /\ \/ ~Present("definition") /\ UNCHANGED faults
       \/ Present("definition") /\ Fault("api")
    /\ Continue("conclude", "failed", 0)
    /\ UNCHANGED <<cr, api, queue, world>>

\* Observe opens with a write of the CR itself (tools.Update), which a concurrent
\* write makes fail: the pass ends before it read anything.
OpenConflicts ==
    /\ At("observe") /\ Present("definition") /\ Stale
    /\ EndPass
    /\ UNCHANGED <<cr, api, queue, faults, world>>

\* populateStatusFields and the status write that persists the identifier.  A
\* conflict ends the pass and leaves the CR as it was.
RecordIdentity ==
    /\ At("record")
    /\ WriteStatus(ready, synced, target)
    /\ IF Stale THEN EndPass ELSE Continue("conclude", seen, target)
    /\ UNCHANGED <<meta, api, queue, faults, world>>

\* Found and equal to the spec: Available.
ConcludeInSync ==
    /\ At("conclude") /\ seen = "inSync"
    /\ WriteStatus("Available", "success", id)
    /\ EndPass
    /\ UNCHANGED <<meta, api, queue, faults, world>>

\* Found and different: not Ready, and the runtime queues an Update.
ConcludeDrifted ==
    /\ At("conclude") /\ seen = "drifted"
    /\ WriteStatus("NotUpToDate", synced, id)
    /\ queue' = IF Stale THEN queue ELSE queue \cup {"Update"}
    /\ EndPass
    /\ UNCHANGED <<meta, api, faults, world>>

\* Mutants of HoldsForPending: Pending is not consulted; Creating is taken for it.
NeverHolds        == FALSE
HoldsWhenCreating == ready \in {"Pending", "Creating"}

\* A 404 under Pending is a create still under way; otherwise the resource does
\* not exist and the runtime queues a Create.
HoldsForPending == ready = "Pending"

ConcludeAbsent ==
    /\ At("conclude") /\ seen = "absent"
    /\ \/ HoldsForPending /\ WriteConditions(ready, "success") /\ UNCHANGED queue
       \/ ~HoldsForPending /\ queue' = queue \cup {"Create"} /\ UNCHANGED status
    /\ EndPass
    /\ UNCHANGED <<meta, api, faults, world>>

\* Mutant of AssumedToExist: the defect of #347, Synced is not consulted.
AssumedFromReady == ready \in {"Creating", "Available"}

\* Nothing to read with: Creating or Available is taken for existence, unless
\* the previous reconcile ended in an error (lastReconcileErrored).
AssumedToExist == ready \in {"Creating", "Available"} /\ synced # "error"

ConcludeBlind ==
    /\ At("conclude") /\ seen = "blind"
    /\ \/ /\ AssumedToExist
          /\ WriteStatus("Available", "success", id)
          /\ UNCHANGED queue
       \/ ~AssumedToExist /\ queue' = queue \cup {"Create"} /\ UNCHANGED status
    /\ EndPass
    /\ UNCHANGED <<meta, api, faults, world>>

\* observeAuthorizationDenied: the refusal is recorded and the error returned.
ConcludeDenied ==
    /\ At("conclude") /\ seen = "denied"
    /\ WriteStatus("AuthorizationDenied", "error", id)
    /\ EndPass
    /\ UNCHANGED <<meta, api, queue, faults, world>>

\* Any other error: the runtime writes ObserveFailed on a CR it fetches afresh.
ConcludeFailed ==
    /\ At("conclude") /\ seen = "failed"
    /\ WriteConditions("ObserveFailed", "error")
    /\ EndPass
    /\ UNCHANGED <<meta, api, queue, faults, world>>

Observe ==
    \/ StartObserve \/ RecoverLanded \/ RecoverAbsent \/ RecoverUndetermined
    \/ ReadFound \/ ReadNothing \/ ReadDenied \/ ReadFailed \/ OpenConflicts
    \/ RecordIdentity \/ ConcludeInSync \/ ConcludeDrifted \/ ConcludeAbsent
    \/ ConcludeBlind \/ ConcludeDenied \/ ConcludeFailed

-----------------------------------------------------------------------------
(* Create.                                                                 *)

\* The runtime marks the create pending before it calls Create.  A CR that is
\* being deleted is refused.
StartCreate ==
    /\ At("idle") /\ "Create" \in queue
    /\ queue' = queue \ {"Create"}
    /\ IF phase = "deleting"
       THEN UNCHANGED <<marker, pass>>
       ELSE /\ marker' = "pending"
            /\ StartPass("create")
    /\ UNCHANGED <<phase, status, api, faults, world>>

SkipCreate ==
    /\ At("create") /\ Present("definition") /\ ~Has("create")
    /\ Continue("settleCreate", "ok", 0)
    /\ UNCHANGED <<cr, api, queue, faults, world>>

\* A dependent lookup found nothing: PendingReferent.
AwaitReferent ==
    /\ At("create") /\ Present("definition") /\ Has("create") /\ ~Present("referent")
    /\ WriteStatus("Pending", synced, id)
    /\ Continue("settleCreate", IF Stale THEN "conflict" ELSE "ok", 0)
    /\ UNCHANGED <<meta, api, queue, faults, world>>

ReadyToPost == At("create") /\ Present("definition") /\ Has("create") /\ Present("referent")

\* The API will not make a second resource of the same name, nor more than the bound.
Accepts == minted < MaxCreates /\ (Is("named") => live \cup coming = {})

\* What a create that lands does at the API.
Land ==
    /\ minted' = minted + 1
    /\ spec' = "applied"
    /\ \/ /\ Is("async")
          /\ coming' = coming \cup {minted + 1} /\ late' = late \cup {minted + 1}
          /\ UNCHANGED live
       \/ ~Is("async") /\ live' = live \cup {minted + 1} /\ UNCHANGED <<coming, late>>
    /\ UNCHANGED <<dying, lost>>

PostCreate ==
    /\ ReadyToPost /\ Accepts /\ Land
    /\ Continue("recordCreate", IF Is("async") THEN "accepted" ELSE "ok",
            IF Is("echo") THEN minted + 1 ELSE 0)
    /\ UNCHANGED <<cr, queue, faults, world>>

\* The create lands and its answer is lost.
PostCreateLost ==
    /\ ReadyToPost /\ Accepts /\ Land /\ Fault("api")
    /\ Continue("settleCreate", "error", 0)
    /\ UNCHANGED <<cr, queue, world>>

PostCreateFails ==
    /\ At("create")
    /\ \/ ~Present("definition") /\ UNCHANGED faults
       \/ ReadyToPost /\ ~Accepts /\ UNCHANGED faults
       \/ ReadyToPost /\ Fault("api")
    /\ Continue("settleCreate", "error", 0)
    /\ UNCHANGED <<cr, api, queue, world>>

\* stopOnAuthorizationDenied and stopOnEndpointRefusal: the reason is recorded
\* and Create returns nil.
PostCreateRefused ==
    /\ ReadyToPost /\ Fault("denied")
    /\ \E reason \in {"AuthorizationDenied", "EndpointRefused"} :
          WriteStatus(reason, synced, id)
    /\ Continue("settleCreate", IF Stale THEN "conflict" ELSE "ok", 0)
    /\ UNCHANGED <<meta, api, queue, world>>

\* clearStatusFields, populateStatusFields and the one status write of Create.
CreatedReady == IF seen = "accepted" THEN "Pending" ELSE "Creating"

RecordCreate ==
    /\ At("recordCreate")
    /\ WriteStatus(CreatedReady, synced, target)
    /\ Continue("settleCreate", IF Stale THEN "conflict" ELSE "ok", 0)
    /\ UNCHANGED <<meta, api, queue, faults, world>>

\* The runtime settles the marker and Synced.  On success it leaves Ready alone;
\* a conflict writes no condition.
SettleCreate ==
    /\ At("settleCreate")
    /\ \/ /\ seen = "ok"
          /\ marker' = "succeeded" /\ WriteConditions(ready, "success")
       \/ /\ seen = "error"
          /\ marker' = "failed" /\ WriteConditions("Creating", "error")
       \/ /\ seen = "conflict"
          /\ marker' \in {"pending", "failed"} /\ UNCHANGED status
    /\ EndPass
    /\ UNCHANGED <<phase, api, queue, faults, world>>

Create ==
    \/ StartCreate \/ SkipCreate \/ AwaitReferent \/ PostCreate \/ PostCreateLost
    \/ PostCreateFails \/ PostCreateRefused \/ RecordCreate \/ SettleCreate

-----------------------------------------------------------------------------
(* Update.  Unlike Create it runs on a CR that is being deleted too.       *)

StartUpdate ==
    /\ At("idle") /\ "Update" \in queue
    /\ queue' = queue \ {"Update"}
    /\ StartPass("update")
    /\ UNCHANGED <<cr, api, faults, world>>

SkipUpdate ==
    /\ At("update") /\ Present("definition") /\ ~Has("update")
    /\ WriteConditions(ready, "success")
    /\ EndPass
    /\ UNCHANGED <<meta, api, queue, faults, world>>

AwaitReferentAgain ==
    /\ At("update") /\ Present("definition") /\ Has("update") /\ ~Present("referent")
    /\ WriteStatus("Pending", "success", id)
    /\ EndPass
    /\ UNCHANGED <<meta, api, queue, faults, world>>

ReadyToPut == At("update") /\ Present("definition") /\ Has("update") /\ Present("referent")

\* The update reaches the resource and is answered.
PutUpdate ==
    /\ ReadyToPut /\ Addressed # {}
    /\ spec' = "applied"
    /\ Continue("recordUpdate", IF Is("async") THEN "accepted" ELSE "ok", 0)
    /\ UNCHANGED <<cr, live, coming, dying, late, lost, minted, queue, faults, world>>

\* Refused before it is sent, answered 404 or 5xx, or applied with its answer lost.
PutFails ==
    /\ At("update")
    /\ \/ ~Present("definition") /\ UNCHANGED <<spec, faults>>
       \/ ReadyToPut /\ Addressed = {} /\ UNCHANGED <<spec, faults>>
       \/ /\ ReadyToPut /\ Addressed # {} /\ Fault("api")
          /\ spec' \in {spec, "applied"}
    /\ WriteConditions(ready, "error")
    /\ EndPass
    /\ UNCHANGED <<meta, live, coming, dying, late, lost, minted, queue, world>>

PutRefused ==
    /\ ReadyToPut /\ Addressed # {} /\ Fault("denied")
    /\ \E reason \in {"AuthorizationDenied", "EndpointRefused"} :
          WriteStatus(reason, "success", id)
    /\ EndPass
    /\ UNCHANGED <<meta, api, queue, world>>

\* Status is cleared and repopulated only from an answer with a body, so an
\* answer that does not carry the identifier erases it.
RecordUpdate ==
    /\ At("recordUpdate")
    /\ \E newId \in {id} \cup (IF Is("echo") THEN {} ELSE {0}) :
          WriteStatus(IF seen = "accepted" THEN "Pending" ELSE "Updating", "success", newId)
    /\ EndPass
    /\ UNCHANGED <<meta, api, queue, faults, world>>

Update ==
    \/ StartUpdate \/ SkipUpdate \/ AwaitReferentAgain \/ PutUpdate \/ PutFails
    \/ PutRefused \/ RecordUpdate

-----------------------------------------------------------------------------
(* Delete.  Returning nil is what lets the runtime remove the finalizer.   *)

StartDelete ==
    /\ At("idle") /\ phase = "deleting"
    /\ StartPass("delete")
    /\ UNCHANGED <<cr, api, queue, faults, world>>

\* An error before the call (listing definitions, building the client or the
\* request) holds the finalizer.
HoldDelete ==
    /\ At("delete") /\ Fault("api")
    /\ EndPass
    /\ UNCHANGED <<cr, api, queue, world>>

\* The three ways to release the finalizer without calling the API.
AbandonReason ==
    IF ~Present("definition") THEN "noDefinition"
    ELSE IF ~Has("delete") THEN "noDeleteVerb"
    ELSE IF ~Addressable THEN "unaddressable" ELSE "none"

AbandonDelete ==
    /\ At("delete") /\ AbandonReason # "none"
    /\ Continue("release", AbandonReason, 0)
    /\ UNCHANGED <<cr, api, queue, faults, world>>

ReadyToDelete == At("delete") /\ AbandonReason = "none"

\* The call is best effort: gone already, accepted (and carried out now or
\* later), or an error after which the deletion may or may not take place.
CallDelete ==
    /\ ReadyToDelete
    /\ \/ /\ Addressed = {} /\ Continue("verify", "gone", 0) /\ UNCHANGED <<live, dying, faults>>
       \/ /\ Addressed # {} /\ Continue("verify", "ok", 0) /\ UNCHANGED faults
          /\ \/ dying' = dying \cup Addressed /\ UNCHANGED live
             \/ live' = live \ Addressed /\ dying' = dying \ Addressed
       \/ /\ Continue("verify", "error", 0) /\ Fault("api")
          /\ dying' \in {dying, dying \cup Addressed} /\ UNCHANGED live
    /\ UNCHANGED <<cr, coming, late, lost, minted, spec, queue, world>>

\* Mutants of Verdict: a 2xx is taken for a deletion (#77); a 404 is an error (#98).
TrustTheCall == IF seen = "error" THEN "none" ELSE "verified"
GoneIsAnError ==
    IF Has("get")
    THEN IF Addressed = {} THEN "verified" ELSE "none"
    ELSE IF seen \in {"error", "gone"} THEN "none" ELSE "trusted"

\* resolveDeleteOutcome: the get verb decides when there is one, the outcome of
\* the call when there is not.
Verdict ==
    IF Has("get")
    THEN IF Addressed = {} THEN "verified" ELSE "none"
    ELSE IF seen = "error" THEN "none" ELSE "trusted"

VerifyDelete ==
    /\ At("verify")
    /\ IF Verdict # "none" THEN Continue("release", Verdict, 0) ELSE EndPass
    /\ UNCHANGED <<cr, api, queue, faults, world>>

\* A verification that fails says nothing about the resource: hold.
VerifyFails ==
    /\ At("verify") /\ Has("get") /\ Fault("api")
    /\ EndPass
    /\ UNCHANGED <<cr, api, queue, world>>

\* The runtime removes the finalizer, unless the CR changed under it.
ReleaseFinalizer ==
    /\ At("release")
    /\ phase' = IF Stale THEN phase ELSE "gone"
    /\ EndPass
    /\ UNCHANGED <<marker, status, api, queue, faults, world>>

Delete ==
    \/ StartDelete \/ HoldDelete \/ AbandonDelete \/ CallDelete \/ VerifyDelete
    \/ VerifyFails \/ ReleaseFinalizer

-----------------------------------------------------------------------------
(* Everybody else.                                                         *)

\* The copy the pass in progress holds is out of date from now on.
Outdate ==
    /\ copy' = IF pc = "idle" THEN copy ELSE "stale"
    /\ UNCHANGED <<pc, seen, target>>

UserDeletes ==
    /\ phase = "live"
    /\ phase' = "deleting"
    /\ Outdate
    /\ UNCHANGED <<marker, status, api, queue, faults, world>>

\* An edited spec no longer matches the resource.
UserEdits ==
    /\ phase # "gone" /\ live # {} /\ Fault("edit")
    /\ spec' = "drifted"
    /\ Outdate
    /\ UNCHANGED <<cr, live, coming, dying, late, lost, minted, queue, world>>

OtherWriter ==
    /\ pc # "idle" /\ Fault("conflict")
    /\ Outdate
    /\ UNCHANGED <<cr, api, queue, world>>

\* The API finishes what it accepted.
Materialise ==
    /\ \E i \in coming : coming' = coming \ {i} /\ live' = live \cup {i}
    /\ UNCHANGED <<cr, dying, late, lost, minted, spec, pass, queue, faults, world>>

Reap ==
    /\ \E i \in dying : dying' = dying \ {i} /\ live' = live \ {i}
    /\ UNCHANGED <<cr, coming, late, lost, minted, spec, pass, queue, faults, world>>

\* A resource disappears behind the controller's back, or a provisioning fails.
Lose ==
    /\ Fault("lose")
    /\ \E i \in live \cup coming :
          live' = live \ {i} /\ coming' = coming \ {i} /\ dying' = dying \ {i}
          /\ lost' = lost \cup {i}
    /\ UNCHANGED <<cr, late, minted, spec, pass, queue, world>>

ReferentAppears ==
    /\ ~Present("referent")
    /\ present' = present \cup {"referent"}
    /\ UNCHANGED <<kind, cr, api, pass, queue, faults>>

RemoveDefinition ==
    /\ Present("definition") /\ Fault("definition")
    /\ present' = present \ {"definition"}
    /\ UNCHANGED <<kind, cr, api, pass, queue>>

\* A restart loses the pass and the queued events; the CR and the API keep theirs.
Crash ==
    /\ phase # "gone" /\ Fault("crash")
    /\ EndPass
    /\ queue' = {}
    /\ UNCHANGED <<cr, api, world>>

Environment ==
    \/ UserDeletes \/ UserEdits \/ OtherWriter \/ Materialise \/ Reap \/ Lose
    \/ ReferentAppears \/ RemoveDefinition \/ Crash

Next == Observe \/ Create \/ Update \/ Delete \/ Environment

(***************************************************************************)
(* Fairness.  A worker finishes the pass it started (weak fairness of its  *)
(* steps).  A resync always comes, but so do others, so the runtime's      *)
(* first-in-first-out work queue is what serves a queued Create, Update or *)
(* deletion: strong fairness of the three starts.  The API eventually      *)
(* finishes what it accepted.                                              *)
(***************************************************************************)
Step == (Observe \/ Create \/ Update \/ Delete) /\ faults' = faults

Fairness ==
    /\ WF_vars(Step /\ pc # "idle")
    /\ WF_vars(StartObserve)
    /\ SF_vars(StartCreate) /\ SF_vars(StartUpdate) /\ SF_vars(StartDelete)
    /\ WF_vars(Materialise) /\ WF_vars(Reap) /\ WF_vars(ReferentAppears)

Spec     == Init /\ [][Next]_vars
FairSpec == Spec /\ Fairness

-----------------------------------------------------------------------------
(* Properties.                                                             *)

Observable == Has("get") \/ Has("findby")

\* A CR of a kind that can create never reports Available for a resource that
\* never was (#347): not even a kind with nothing to observe by, whose only
\* evidence is its own conditions.
AvailableOnlyIfReal == ready = "Available" /\ Has("create") => minted > 0

\* A create is sent next to an existing resource of this CR only when that
\* resource cannot be read with what the CR records: no failed read, refusal,
\* conflict, restart or recovery is ever taken for absence.  What an API
\* accepted with a 202 and brought up in the meantime is the one exception.
CreatesOnlyWhenBlind ==
    [][minted' > minted /\ ~Is("named") => Visible \subseteq late]_vars

\* The finalizer is removed while the resource the CR addresses still exists
\* only for the reasons the code gives: no definition, no delete verb, no
\* identifier, no get verb to check a successful delete with, or a create that
\* was still under way when absence was verified.
OrphanedOnlyByDesign ==
    [][phase # "gone" /\ phase' = "gone" =>
          \/ Addressed \subseteq late
          \/ seen \in {"noDefinition", "noDeleteVerb", "unaddressable"}
          \/ seen = "trusted" /\ ~Has("get")]_vars

\* While the API is bringing up the resource the CR names, or the first it ever
\* accepted, and the CR waits for it under Pending, the create of a kind that has
\* something to read with is not sent again.  Pending may also be the word for an
\* update that was accepted, while a create queued before it is still to come.
PendingIsNotRecreated ==
    [][minted' > minted /\ Reader # "none" /\ coming # {}
          /\ (id \in coming \/ live \cup lost = {})
          => ready # "Pending"]_vars

\* The promise to the author of the CR, for kinds that can be read, found again
\* and deleted and whose API answers a create when it is done, while no resource
\* was lost: after a loss the identifier in status names the lost one, and a
\* resource whose identifier never got there cannot be found.
Promised == /\ {"get", "delete"} \subseteq kind.verbs /\ Adopts(kind)
            /\ ~Is("async") /\ lost = {}
Contract == INSTANCE ManagedResource WITH
    Resources <- Ids, held <- IF Promised THEN live ELSE {},
    reach <- IF ~Present("definition") THEN {} ELSE IF Is("named") THEN Ids ELSE Ids \cap {id},
    phase <- phase
KeepsContract == Contract!Spec

\* A CR of such a kind that has a definition and is neither being deleted nor held
\* by an unsettled create marker comes back to Available again and again.
Convergent == Observable /\ Adopts(kind) /\ Has("create") /\ ~Is("async") /\ ~Is("lookup")
Converges ==
    []<>(\/ ready = "Available" \/ phase # "live" \/ ~Convergent
         \/ marker = "pending" \/ ~Present("definition"))

\* A CR being deleted goes.
DeletionCompletes == phase = "deleting" ~> phase = "gone"

-----------------------------------------------------------------------------
(* The inductive strengthenings the proofs use.                            *)

\* Every trace of a resource (one that exists or is coming, an answer that found
\* it, an update of it, a success recorded as Creating) means there was one.
Real == minted > 0

TracesAreReal ==
    /\ live # {} \/ coming # {} => Real
    /\ seen \in {"inSync", "drifted"} => Real
    /\ "Update" \in queue \/ pc \in {"update", "recordUpdate", "recordCreate"} => Real
    /\ Has("create") /\ ready = "Creating" => Real \/ synced = "error"
    /\ Has("create") /\ pc = "settleCreate" /\ seen = "ok" => Real \/ ready # "Creating"
    /\ AvailableOnlyIfReal

\* What the code knows when Delete has returned nil.
ReleaseIsJustified ==
    /\ coming \subseteq late
    /\ pc = "release" =>
          \/ seen \in {"noDefinition", "noDeleteVerb", "unaddressable"}
          \/ seen = "trusted" /\ ~Has("get")
          \/ seen = "verified" /\ Addressed \subseteq late

\* A create that was decided on is still to be sent.
CreateToCome == "Create" \in queue \/ pc = "create"

\* Resources are numbered as they are made; only a 202 makes one late.
Numbered ==
    /\ live \cup coming \subseteq 1 .. minted
    /\ live \cap coming = {}
    /\ id <= minted /\ target <= minted
    /\ coming \subseteq late
    /\ ~Is("async") => late = {}

\* What the step a pass has reached says of the CR and of the queue.
PassIsPlaced ==
    /\ pc \in {"create", "recordCreate", "settleCreate"} => "Create" \notin queue
    /\ pc \in {"delete", "verify", "release"} => phase # "live"
    /\ phase = "live" \/ pc = "create" => dying = {}
    /\ pc = "record" =>
          /\ Reader # "none" /\ seen \in {"inSync", "drifted"}
          /\ target # 0 /\ target \notin coming
    /\ pc = "conclude" /\ seen = "blind" => Reader = "none"
    /\ coming # {} => Present("referent")
    /\ pc = "release" =>
          /\ seen = "noDefinition" => ~Present("definition")
          /\ seen = "noDeleteVerb" => ~Has("delete")
          /\ seen = "unaddressable" => ~Addressable

\* From the 404 a create was decided on to its request, whatever can be read came
\* up late.  An update in between may make the controller forget the identifier
\* and read with findby instead, so everything there is has to be late by then.
CreateIsBlind ==
    ~Is("named") =>
        /\ CreateToCome \/ (pc = "conclude" /\ seen \in {"absent", "blind"}) => Visible \subseteq late
        /\ "Create" \in queue /\ pc = "record" => target \in late
        /\ "Create" \in queue /\ pc = "recordUpdate" => live \subseteq late \/ ~Observable
        /\ Is("async") /\ ~(live \subseteq late) => minted = 1 /\ Has("findby")

\* A CR that is Pending with a create still to come waits for an update.
PendingWaits ==
    ~Is("named") =>
        /\ pc = "recordUpdate" => id \notin coming /\ (phase # "live" \/ live \cup lost # {})
        /\ CreateToCome /\ ready = "Pending" /\ Reader # "none" =>
              /\ id \notin coming
              /\ coming = {} \/ live \cup lost # {} \/ (phase # "live" /\ pc # "create")

\* A kind the promise is made to gets one resource in its life, and has it until a
\* deletion begins.
OneResource ==
    Promised =>
        /\ minted <= 1
        /\ minted = 1 /\ (phase = "live" \/ pc = "create") => live = {1}

\* What a create, and the promise to the author of the CR, rest on.
Foreseen == Numbered /\ PassIsPlaced /\ CreateIsBlind /\ PendingWaits /\ OneResource
=============================================================================
