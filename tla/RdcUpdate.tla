----------------------------- MODULE RdcUpdate -----------------------------
(***************************************************************************)
(* Desired against observed state in the rest-dynamic-controller: Observe  *)
(* compares the spec with the body it read, the drift brake counts how     *)
(* often the same difference comes back, Update is sent until the brake    *)
(* holds it, and the Role through which the controller reads the Secrets   *)
(* of a CR is provisioned on the way to every request.                     *)
(*                                                                         *)
(* Identity, existence and the create marker are RdcLifecycle's; here the  *)
(* kind is read by a name from its spec, and what its documents say        *)
(* matters.                                                                *)
(***************************************************************************)
EXTENDS Comparison, FiniteSets

CONSTANTS
    Specs,          \* the specs a user may write: a document and the Secrets it refers to
    Secrets,        \* the names of Secrets a spec may refer to
    Paths,          \* every path of those documents
    Kinds,          \* kinds of resource
    Api,            \* of each kind: the bodies its API may answer with, what it makes of a
                    \* create and of an update, what it moves by itself, and the paths
                    \* compareScope leaves, or FullSpec
    FullSpec,       \* compareScope: fullSpec
    Absent,         \* no resource at the API
    NoSignature,    \* no drift-signature annotation
    NoRole,         \* no Role
    MaxDriftRepeats,
    MaxEdits,       \* how often the user edits the spec (a bound)
    Faults,         \* the kinds of disturbance that may happen
    MaxFaults       \* how many disturbances happen in all (a bound)

FaultKinds == {"api", "patch", "crash", "drift", "role", "rbac"}

\* The documents a spec may ask for.
Wanted == {s.doc : s \in Specs}

ASSUME KindsAssumption ==
    /\ Specs \subseteq [doc : Nodes, refs : SUBSET Secrets]
    /\ \A k \in Kinds :
        /\ Api[k].bodies \subseteq Nodes /\ Absent \notin Api[k].bodies
        /\ Api[k].created \in [Wanted -> Api[k].bodies]
        /\ Api[k].updated \in [Api[k].bodies \X Wanted -> Api[k].bodies]
        /\ Api[k].moves \in [Api[k].bodies -> SUBSET Api[k].bodies]
        /\ \A d \in Wanted : Api[k].scope # FullSpec => ProjectSpecFields[<<d, Api[k].scope>>] \in Nodes
ASSUME BoundsAssumption ==
    /\ MaxDriftRepeats \in Nat \ {0} /\ MaxEdits \in Nat /\ MaxFaults \in Nat
    /\ Faults \subseteq FaultKinds
ASSUME NoRoleAssumption == \A S \in SUBSET Secrets : S # NoRole

VARIABLES
    kind,       \* the kind of the resource, fixed
    \* the CR as the Kubernetes API server stores it
    phase,      \* live, deleting or gone
    spec,
    generation,
    noted,      \* annotation drift-signature
    repeats,    \* annotation drift-repeats
    ready,      \* the reason of its Ready condition
    \* the cluster and the API
    granted,    \* the Secrets its Role names, or NoRole
    bound,      \* whether its RoleBinding is there
    resource,   \* the resource as the API would answer it, or Absent
    \* the pass in progress
    pc,         \* its next step
    held,       \* what it read of the CR: document, Secrets and generation
    verdict,    \* what the comparison of that with the body it read says
    copy,       \* whether the CR changed since the pass read it
    \* the rest
    queue,      \* the Create and Update events the runtime has queued
    sent,       \* updates the API performed since the noted signature was first noted (history)
    leaked,     \* whether a teardown of the Role failed (history)
    faults      \* disturbances so far

cr      == <<phase, spec, generation, noted, repeats, ready>>
grant   == <<granted, bound>>
pass    == <<pc, held, verdict, copy>>
history == <<sent, leaked>>
vars    == <<kind, cr, grant, resource, pass, queue, history, faults>>

Readys == {"none", "Available", "NotUpToDate", "DriftNotConverging", "ObserveFailed",
           "Creating", "Updating"}
Steps  == {"idle", "read", "persist", "note", "clear", "status", "createGrant", "post",
           "recordCreate", "updateGrant", "put", "recordUpdate", "deleteGrant", "destroy",
           "teardown", "release"}

\* Whatever the comparison can name.
Places   == {CompareExisting[<<s, b>>].at : s \in Nodes, b \in Nodes}
Verdicts == {CompareExisting[<<s, b>>] : s \in Nodes, b \in Nodes}
Generations == 1 .. MaxEdits + 1
Signatures  == [gen : Generations, at : Places]
Views       == [spec : Specs, gen : Generations]

ASSUME NoSignatureAssumption == NoSignature \notin Signatures

TypeOK ==
    /\ kind \in Kinds
    /\ phase \in {"live", "deleting", "gone"}
    /\ spec \in Specs /\ generation \in Generations
    /\ noted \in Signatures \cup {NoSignature}
    /\ repeats \in 0 .. MaxDriftRepeats /\ (repeats = 0 <=> noted = NoSignature)
    /\ ready \in Readys
    /\ granted \in {NoRole} \cup SUBSET Secrets /\ bound \in BOOLEAN
    /\ resource \in Api[kind].bodies \cup {Absent}
    /\ pc \in Steps /\ held \in Views
    /\ verdict \in Verdicts \cup {Equal} /\ copy \in {"fresh", "stale"}
    /\ queue \subseteq {"Create", "Update"}
    /\ sent \in Nat /\ leaked \in BOOLEAN
    /\ faults \in 0 .. MaxFaults

View == [spec |-> spec, gen |-> generation]

\* The resource may have been there before the CR, made by somebody else.
Init ==
    /\ kind \in Kinds
    /\ phase = "live" /\ spec \in Specs /\ generation = 1
    /\ noted = NoSignature /\ repeats = 0 /\ ready = "none"
    /\ granted = NoRole /\ bound = FALSE
    /\ resource \in Api[kind].bodies \cup {Absent}
    /\ pc = "idle" /\ held = View /\ verdict = Equal /\ copy = "fresh"
    /\ queue = {}
    /\ sent = 0 /\ leaked = FALSE
    /\ faults = 0

-----------------------------------------------------------------------------
Stale    == copy = "stale"
Fault(f) == f \in Faults /\ faults < MaxFaults /\ faults' = faults + 1
At(step) == pc = step /\ phase # "gone"

\* A pass reads the CR, moves on and ends.
Holding(step)   == pc' = step /\ held' = View /\ verdict' = Equal
StartPass(step) == Holding(step) /\ copy' = "fresh"
EndPass         == Holding("idle") /\ copy' = "fresh"
Goto(step)      == pc' = step /\ UNCHANGED <<held, verdict, copy>>

\* A status write is refused when the CR changed since the pass read it.
WriteStatus(newReady) == ready' = IF Stale THEN ready ELSE newReady

\* A request that needs no Secret needs no Role.
RequestFor(grantStep, callStep) == IF spec.refs = {} THEN callStep ELSE grantStep

-----------------------------------------------------------------------------
(* Observe.                                                                *)

StartObserve ==
    /\ At("idle")
    /\ StartPass("read")
    /\ UNCHANGED <<kind, cr, grant, resource, queue, history, faults>>

\* The write that opens Observe fails on a CR that changed.
OpenConflicts ==
    /\ At("read") /\ Stale
    /\ EndPass
    /\ UNCHANGED <<kind, cr, grant, resource, queue, history, faults>>

\* isCRUpdated: the spec, or what compareScope leaves of it, against the body read.
Compared(d) == IF Api[kind].scope = FullSpec THEN d ELSE ProjectSpecFields[<<d, Api[kind].scope>>]

ReadFound ==
    /\ At("read") /\ resource # Absent
    /\ pc' = "persist" /\ verdict' = CompareExisting[<<Compared(held.spec.doc), resource>>]
    /\ UNCHANGED <<held, copy>>
    /\ UNCHANGED <<kind, cr, grant, resource, queue, history, faults>>

ReadAbsent ==
    /\ At("read") /\ resource = Absent
    /\ queue' = queue \cup {"Create"}
    /\ EndPass
    /\ UNCHANGED <<kind, cr, grant, resource, history, faults>>

\* An error of Observe: the runtime writes ObserveFailed on a CR it fetches afresh.
ObserveFails ==
    /\ \/ At("read") /\ Fault("api")
       \/ pc \in {"note", "clear"} /\ At(pc) /\ Fault("patch")
    /\ ready' = "ObserveFailed"
    /\ EndPass
    /\ UNCHANGED <<kind, phase, spec, generation, noted, repeats, grant, resource, queue,
                   history>>

\* The status write that persists what was observed comes before the verdict has
\* any effect, and ends the pass on a CR that changed.
PersistObserved ==
    /\ At("persist")
    /\ IF Stale THEN EndPass
       ELSE Goto(CASE verdict.as = "differs"                          -> "note"
                   [] verdict.as = "equal" /\ noted # NoSignature -> "clear"
                   [] OTHER                                          -> "status")
    /\ UNCHANGED <<kind, cr, grant, resource, queue, history, faults>>

\* Mutant of DriftSignature: an edit is not a new difference.
SignatureOfField == [gen |-> 1, at |-> verdict.at]

DriftSignature == [gen |-> held.gen, at |-> verdict.at]

DriftRepeats == IF noted = DriftSignature THEN repeats ELSE 0

\* recordDriftRepeat.  The patch carries no resourceVersion, and the pass goes on
\* with the CR as it left it.  The code counts on beyond the limit; nothing tells
\* those counts apart.
NoteDrift ==
    /\ At("note")
    /\ noted' = DriftSignature
    /\ repeats' = IF DriftRepeats < MaxDriftRepeats THEN DriftRepeats + 1 ELSE DriftRepeats
    /\ sent' = IF noted = DriftSignature THEN sent ELSE 0
    /\ pc' = "status" /\ copy' = "fresh" /\ UNCHANGED <<held, verdict>>
    /\ UNCHANGED <<kind, phase, spec, generation, ready, grant, resource, queue,
                   leaked, faults>>

ClearDrift ==
    /\ At("clear")
    /\ noted' = NoSignature /\ repeats' = 0 /\ sent' = 0
    /\ pc' = "status" /\ copy' = "fresh" /\ UNCHANGED <<held, verdict>>
    /\ UNCHANGED <<kind, phase, spec, generation, ready, grant, resource, queue,
                   leaked, faults>>

\* Mutants of Holds: one report too many is allowed; the brake is not there.
HoldsLate  == repeats > MaxDriftRepeats
HoldsNever == FALSE

Holds == repeats >= MaxDriftRepeats

\* The condition, and whether an Update is queued for the difference.
Conclude ==
    /\ At("status")
    /\ \/ verdict.as = "equal" /\ WriteStatus("Available") /\ UNCHANGED queue
       \/ verdict.as = "error" /\ ready' = "ObserveFailed" /\ UNCHANGED queue
       \/ verdict.as = "differs" /\ Holds /\ WriteStatus("DriftNotConverging") /\ UNCHANGED queue
       \/ /\ verdict.as = "differs" /\ ~Holds /\ WriteStatus("NotUpToDate")
          /\ queue' = IF Stale THEN queue ELSE queue \cup {"Update"}
    /\ EndPass
    /\ UNCHANGED <<kind, phase, spec, generation, noted, repeats, grant, resource,
                   history, faults>>

Observe ==
    \/ StartObserve \/ OpenConflicts \/ ReadFound \/ ReadAbsent \/ ObserveFails \/ PersistObserved
    \/ NoteDrift \/ ClearDrift \/ Conclude

-----------------------------------------------------------------------------
(* ensureSecretRefRBACAndResolve: the Role, then its binding, on the way   *)
(* to a request.  Update insists that the Role is there; Delete goes on    *)
(* without it.                                                             *)

GrantSteps == {"createGrant", "updateGrant", "deleteGrant"}

CallAfter(step) == CASE step = "createGrant" -> "post"
                     [] step = "updateGrant" -> "put"
                     [] OTHER                -> "destroy"

RoleIsMissing == pc = "updateGrant" /\ granted = NoRole

\* EnsureSecretRole replaces the names the Role grants by those the spec refers to.
GrantRole ==
    /\ pc \in GrantSteps /\ At(pc) /\ ~RoleIsMissing
    /\ granted' = held.spec.refs /\ bound' = TRUE
    /\ Goto(CallAfter(pc))
    /\ UNCHANGED <<kind, cr, resource, queue, history, faults>>

\* A Role that Update finds missing, or a write that is refused, the second one
\* perhaps: only Delete goes on.
GrantFails ==
    /\ pc \in GrantSteps /\ At(pc)
    /\ \/ RoleIsMissing /\ UNCHANGED <<granted, faults>>
       \/ ~RoleIsMissing /\ Fault("rbac") /\ granted' \in {granted, held.spec.refs}
    /\ IF pc = "deleteGrant" THEN Goto("destroy") ELSE EndPass
    /\ ready' = IF pc = "createGrant" THEN "Creating" ELSE ready
    /\ UNCHANGED <<kind, phase, spec, generation, noted, repeats, bound, resource, queue,
                   history>>

Ensure == GrantRole \/ GrantFails

-----------------------------------------------------------------------------
(* Create and Update send the spec the pass read.                          *)

StartCreate ==
    /\ At("idle") /\ "Create" \in queue
    /\ queue' = queue \ {"Create"}
    /\ IF phase = "live" THEN StartPass(RequestFor("createGrant", "post")) ELSE UNCHANGED pass
    /\ UNCHANGED <<kind, cr, grant, resource, history, faults>>

\* The create is performed, its answer read or lost; a name that is taken is refused.
Post ==
    /\ At("post") /\ resource = Absent
    /\ resource' = Api[kind].created[held.spec.doc]
    /\ \/ Goto("recordCreate") /\ UNCHANGED <<ready, faults>>
       \/ Fault("api") /\ EndPass /\ ready' = "Creating"
    /\ UNCHANGED <<kind, phase, spec, generation, noted, repeats, grant, queue, sent, leaked>>

PostFails ==
    /\ At("post")
    /\ \/ resource # Absent /\ UNCHANGED faults
       \/ Fault("api")
    /\ ready' = "Creating"
    /\ EndPass
    /\ UNCHANGED <<kind, phase, spec, generation, noted, repeats, grant, resource, queue,
                   history>>

StartUpdate ==
    /\ At("idle") /\ "Update" \in queue
    /\ queue' = queue \ {"Update"}
    /\ StartPass(RequestFor("updateGrant", "put"))
    /\ UNCHANGED <<kind, cr, grant, resource, history, faults>>

\* The update is performed, its answer read or lost.
Put ==
    /\ At("put") /\ resource # Absent
    /\ resource' = Api[kind].updated[<<resource, held.spec.doc>>]
    /\ sent' = IF noted = NoSignature THEN sent ELSE sent + 1
    /\ \/ Goto("recordUpdate") /\ UNCHANGED faults
       \/ Fault("api") /\ EndPass
    /\ UNCHANGED <<kind, cr, grant, queue, leaked>>

\* Not found, or an error before the update took place.
PutFails ==
    /\ At("put")
    /\ \/ resource = Absent /\ UNCHANGED faults
       \/ Fault("api")
    /\ EndPass
    /\ UNCHANGED <<kind, cr, grant, resource, queue, history>>

Record ==
    /\ pc \in {"recordCreate", "recordUpdate"} /\ At(pc)
    /\ WriteStatus(IF pc = "recordCreate" THEN "Creating" ELSE "Updating")
    /\ EndPass
    /\ UNCHANGED <<kind, phase, spec, generation, noted, repeats, grant, resource, queue,
                   history, faults>>

Send == StartCreate \/ Post \/ PostFails \/ StartUpdate \/ Put \/ PutFails \/ Record

-----------------------------------------------------------------------------
(* Delete tears its own access down before it lets the finalizer go.       *)

StartDelete ==
    /\ At("idle") /\ phase = "deleting"
    /\ StartPass(RequestFor("deleteGrant", "destroy"))
    /\ UNCHANGED <<kind, cr, grant, resource, queue, history, faults>>

Destroy ==
    /\ At("destroy")
    /\ \/ resource' = Absent /\ Goto("teardown") /\ UNCHANGED faults
       \/ Fault("api") /\ EndPass /\ UNCHANGED resource
    /\ UNCHANGED <<kind, cr, grant, queue, history>>

\* Mutant of Teardown: the Role is left behind.
UnbindOnly ==
    /\ At("teardown")
    /\ bound' = FALSE
    /\ Goto("release")
    /\ UNCHANGED <<kind, cr, granted, resource, queue, history, faults>>

\* DeleteSecretRole, whether or not the CR refers to a Secret now.
Teardown ==
    /\ At("teardown")
    /\ granted' = NoRole /\ bound' = FALSE
    /\ Goto("release")
    /\ UNCHANGED <<kind, cr, resource, queue, history, faults>>

\* A teardown that fails, the binding gone or not, is logged and the finalizer goes
\* all the same.
TeardownFails ==
    /\ At("teardown") /\ Fault("rbac")
    /\ bound' \in {bound, FALSE} /\ leaked' = TRUE
    /\ Goto("release")
    /\ UNCHANGED <<kind, cr, granted, resource, queue, sent>>

Release ==
    /\ At("release")
    /\ phase' = IF Stale THEN phase ELSE "gone"
    /\ EndPass
    /\ UNCHANGED <<kind, spec, generation, noted, repeats, ready, grant, resource, queue,
                   history, faults>>

Delete == StartDelete \/ Destroy \/ Teardown \/ TeardownFails \/ Release

-----------------------------------------------------------------------------
(* Everybody else.                                                         *)

\* The CR changes under the pass, or between two passes.
Outdate ==
    /\ copy' = IF pc = "idle" THEN copy ELSE "stale"
    /\ held' = IF pc = "idle" THEN View' ELSE held
    /\ UNCHANGED <<pc, verdict>>

UserEdits ==
    /\ phase = "live" /\ generation <= MaxEdits
    /\ spec' \in Specs \ {spec}
    /\ generation' = generation + 1
    /\ Outdate
    /\ UNCHANGED <<kind, phase, noted, repeats, ready, grant, resource, queue, history, faults>>

UserDeletes ==
    /\ phase = "live" /\ phase' = "deleting"
    /\ UNCHANGED <<kind, spec, generation, noted, repeats, ready, grant, resource, queue,
                   history, faults>>
    /\ Outdate

\* A field the API moves by itself.
ApiMoves ==
    /\ phase # "gone" /\ resource # Absent
    /\ \E b \in Api[kind].moves[resource] : resource' = b
    /\ UNCHANGED <<kind, cr, grant, pass, queue, history, faults>>

\* Somebody else changes or removes the resource.
ResourceDrifts ==
    /\ phase # "gone" /\ resource # Absent /\ Fault("drift")
    /\ \E b \in (Api[kind].bodies \cup {Absent}) \ {resource} : resource' = b
    /\ UNCHANGED <<kind, cr, grant, pass, queue, history>>

RoleRemoved ==
    /\ phase # "gone" /\ granted # NoRole /\ Fault("role")
    /\ granted' = NoRole
    /\ UNCHANGED <<kind, cr, bound, resource, pass, queue, history>>

Crash ==
    /\ phase # "gone" /\ Fault("crash")
    /\ EndPass
    /\ queue' = {}
    /\ UNCHANGED <<kind, cr, grant, resource, history>>

Environment ==
    \/ UserEdits \/ UserDeletes \/ ApiMoves \/ ResourceDrifts \/ RoleRemoved
    \/ Crash

Next == Observe \/ Ensure \/ Send \/ Delete \/ Environment

\* As in RdcLifecycle: a started pass is finished, resyncs come, the queue is served.
Step == (Observe \/ Ensure \/ Send \/ Delete) /\ faults' = faults

Fairness ==
    /\ WF_vars(Step /\ pc # "idle")
    /\ WF_vars(StartObserve)
    /\ SF_vars(StartCreate) /\ SF_vars(StartUpdate) /\ SF_vars(StartDelete)

Spec     == Init /\ [][Next]_vars
FairSpec == Spec /\ Fairness

-----------------------------------------------------------------------------
(* Properties.                                                             *)

\* The walk over two documents reports a difference exactly where one is, the first
\* of them in the order of the keys, and gives up only where shapes clash.
CorrectVerdict(v, desired, body) ==
    LET clashes == Clashes(desired, body, Paths)
    IN  /\ v.as = "equal" <=> clashes = {}
        /\ clashes # {} => v.at \in clashes /\ \A p \in clashes : Before(v.at, p)
        /\ v.as = "error" => /\ Follow(desired, v.at).kind \in {"object", "list"}
                            /\ Follow(desired, v.at).kind # Follow(body, v.at).kind
ReportsFirstClash ==
    [][pc' = "persist" /\ pc # pc' =>
          CorrectVerdict(verdict', Compared(held.spec.doc), resource)]_vars

\* The same difference is answered by fewer updates than the limit, whatever the
\* API does with them, and whatever fails, crashes or is edited in between.
FutileUpdatesAreBounded == sent < MaxDriftRepeats

\* Updates go on for ever only if the difference they answer keeps changing.
NoUpdate  == phase = "gone" \/ ("Update" \notin queue /\ pc \notin {"updateGrant", "put", "recordUpdate"})
Settles   == <>[][FALSE]_noted => <>[]NoUpdate

\* A CR that was held back for its spec of old does not stay so: the repeats are counted
\* anew for the spec it has now.
HeldOfOld  == phase = "live" /\ ready = "DriftNotConverging" /\ noted # NoSignature
              /\ noted.gen < generation
EditIsTried == HeldOfOld ~> ~HeldOfOld

\* No Role and no binding outlive the CR they were made for, unless their deletion
\* failed.
NoGrantOutlivesItsCR == phase = "gone" /\ ~leaked => granted = NoRole /\ ~bound
=============================================================================
