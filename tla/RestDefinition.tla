--------------------------- MODULE RestDefinition ---------------------------
(***************************************************************************)
(* The oasgen-provider: RestDefinitions of one group and kind, and what    *)
(* the provider makes of them.  A definition names an OpenAPI document;    *)
(* its version names the served version of the CRD, its content is that    *)
(* version's schema.  Definitions of the same kind share one CRD.  Each    *)
(* live definition runs its own rest-dynamic-controller.                   *)
(*                                                                         *)
(* provider-runtime runs passes, one at a time per definition and those of *)
(* several definitions at once: Observe, and then what it asked for.       *)
(***************************************************************************)
EXTENDS Naturals

CONSTANTS
    Defs,        \* RestDefinitions of one group and kind
    Docs,        \* contents of a document, with what else generation reads
    Versions,    \* CRD API versions
    VersionOf,   \* targetVersion of each content
    Fallback,    \* resourceVersion
    Secured,     \* the contents that also generate a Configuration CRD
    Instances,   \* resources of the generated kind
    None,
    Bare,        \* the version label of an instance that carries none
    MaxEdits,    \* how many things the users do (a bound)
    MaxFaults    \* how many things go wrong (a bound)

ASSUME DocsAssumption ==
    VersionOf \in [Docs -> Versions] /\ Fallback \in Versions /\ Secured \subseteq Docs
ASSUME NamesAssumption ==
    /\ None \notin Docs \cup Versions \cup Defs
    /\ Bare \notin Versions \cup {None}
ASSUME BoundsAssumption == MaxEdits \in Nat /\ MaxFaults \in Nat

VARIABLES
    phase,     \* whether a definition is absent, live or deleting
    doc,       \* the content its oasPath leads to
    status,    \* its status, see StatusType
    held,      \* its restresources-still-exist finalizer
    crd,       \* the CRD of the kind, see CrdType
    config,    \* the owner of the Configuration CRD
    ctrl,      \* the version its rest-dynamic-controller is deployed for
    rolling,   \* the definitions whose controller is rolling out
    inst,      \* the version label of each instance, None if there is no instance
    pc,        \* the next step of a definition's pass
    work,      \* what a pass remembers, see WorkType
    applied,   \* history: the content it last applied to the CRD there is
    late,      \* history: instances that came after a pass counted them
    overlooked, \* history: definitions whose CRD may not be of the content recorded
    edits, faults

(***************************************************************************)
(* status.resource, status.configuration, the hashes of what was generated *)
(* from (oasHash, resourceHash, generatorBuild), the digest of what was    *)
(* deployed and the Ready condition.                                       *)
(***************************************************************************)
StatusType ==
    [version : Versions \cup {None}, configured : BOOLEAN, hash : Docs \cup {None},
     digest : Versions \cup {None}, ready : {"none", "Creating", "Unavailable", "Available"}]

\* The CRD is there when it has an owner; a version without schema is not in it.
CrdType ==
    [owner : Defs \cup {None}, schema : [Versions -> Docs \cup {None}], stored : SUBSET Versions]

\* The content fetched, the verb, the versions to retire, and whether the list
\* that counted instances was refused as naming a version that is not served.
WorkType ==
    [doc : Docs \cup {None}, verb : {"none", "create", "update", "delete"},
     prune : SUBSET Versions, blind : BOOLEAN]

objects == <<doc, held, crd, config, ctrl, rolling, inst>>
vars    == <<phase, doc, status, held, crd, config, ctrl, rolling, inst,
             pc, work, applied, late, overlooked, edits, faults>>

Blank    == [version |-> None, configured |-> FALSE, hash |-> None,
             digest |-> None, ready |-> "none"]
NoWork   == [doc |-> None, verb |-> "none", prune |-> {}, blind |-> FALSE]
NoSchema == [v \in Versions |-> None]
Absent   == [owner |-> None, schema |-> NoSchema, stored |-> {}]

Served(v)     == crd.schema[v] # None
ServedSet     == {v \in Versions : Served(v)}
Live          == {i \in Instances : inst[i] # None}
Labelled(v)   == {i \in Instances : inst[i] = v}
TheVersion(d) == VersionOf[work[d].doc]

TypeOK ==
    /\ phase \in [Defs -> {"absent", "live", "deleting"}]
    /\ doc \in [Defs -> Docs]
    /\ status \in [Defs -> StatusType]
    /\ held \in [Defs -> BOOLEAN]
    /\ crd \in CrdType /\ crd.stored \subseteq ServedSet
    /\ config \in Defs \cup {None}
    /\ ctrl \in [Defs -> Versions \cup {None}]
    /\ rolling \subseteq Defs
    /\ inst \in [Instances -> Versions \cup {Bare, None}]
    /\ pc \in [Defs -> {"idle", "claim", "weigh", "create", "update", "apply", "configure",
                        "note", "inspect", "retire", "deploy", "record",
                        "count", "drop", "undeploy"}]
    /\ work \in [Defs -> WorkType]
    /\ applied \in [Defs -> Docs \cup {None}]
    /\ late \in [Defs -> SUBSET Instances]
    /\ overlooked \subseteq Defs
    /\ edits \in 0 .. MaxEdits /\ faults \in 0 .. MaxFaults

Init ==
    /\ phase \in [Defs -> {"absent", "live"}]
    /\ doc \in [Defs -> Docs]
    /\ status = [d \in Defs |-> Blank] /\ held = [d \in Defs |-> FALSE]
    /\ crd = Absent /\ config = None
    /\ ctrl = [d \in Defs |-> None] /\ rolling = {}
    /\ inst = [i \in Instances |-> None]
    /\ pc = [d \in Defs |-> "idle"] /\ work = [d \in Defs |-> NoWork]
    /\ applied = [d \in Defs |-> None] /\ late = [d \in Defs |-> {}]
    /\ overlooked = {}
    /\ edits = 0 /\ faults = 0

Fault == faults < MaxFaults /\ faults' = faults + 1
Edit  == edits < MaxEdits /\ edits' = edits + 1

-----------------------------------------------------------------------------
(* Observe of a definition that is not being deleted.                      *)

At(d, l)       == pc[d] = l
Goto(d, l)     == pc' = [pc EXCEPT ![d] = l]
Remember(d, w) == work' = [work EXCEPT ![d] = w]
Ready(d, r)    == status' = [status EXCEPT ![d].ready = r]

\* The pass ends, with an answer, an error or a restart of the provider.
End(d) ==
    /\ Goto(d, "idle") /\ Remember(d, NoWork)
    /\ late' = [late EXCEPT ![d] = {}]

\* A pass ends that applied what it did not record.
Overlook(d) ==
    overlooked' = IF applied[d] \in {None, status[d].hash} THEN overlooked
                  ELSE overlooked \cup {d}

ObservedVersion(d) == IF status[d].version = None THEN Fallback ELSE status[d].version

\* Before the first status write, the version the document names is looked up too.
Found(d) ==
    \/ Served(ObservedVersion(d))
    \/ status[d].version = None /\ Served(VersionOf[doc[d]])
Deployed(d) == Found(d) /\ ctrl[d] # None
RolledOut(d) == Deployed(d) /\ d \notin rolling

\* A document that cannot be fetched is not drift.
Drifted(d) == status[d].hash # doc[d]

Observe(d) ==
    /\ At(d, "idle") /\ phase[d] = "live"
    /\ \/ ~Deployed(d)
            /\ Ready(d, "Unavailable") /\ Goto(d, "create") /\ UNCHANGED faults
       \/ Deployed(d) /\ ~RolledOut(d)
            /\ Ready(d, "Unavailable") /\ UNCHANGED <<pc, faults>>
       \/ RolledOut(d) /\ Drifted(d)
            /\ Ready(d, "Creating") /\ Goto(d, "update") /\ UNCHANGED faults
       \/ RolledOut(d) /\ ~Drifted(d)
            /\ Goto(d, "claim") /\ UNCHANGED <<status, faults>>
       \/ RolledOut(d) /\ Drifted(d) /\ status[d].hash # None /\ Fault
            /\ Goto(d, "claim") /\ UNCHANGED status
    /\ UNCHANGED <<phase, objects, work, applied, overlooked, late, edits>>

\* Instances, or their labels, appear behind the back of a pass that has counted them.
Arrivals == {i \in Instances : inst'[i] \notin {inst[i], None}}
Arrive ==
    late' = [d \in Defs |->
                IF pc[d] \in {"retire", "drop"} THEN late[d] \cup Arrivals ELSE late[d]]

\* backfillVersionLabel: instances without a label are claimed for version v.
Stamped(v) ==
    IF Served(v) THEN [i \in Instances |-> IF inst[i] = Bare THEN v ELSE inst[i]] ELSE inst

Claim(v) == inst' = Stamped(v) /\ Arrive

\* backfillVersionLabels.
Backfill(d) ==
    /\ At(d, "claim") /\ Claim(ObservedVersion(d))
    /\ Goto(d, "weigh")
    /\ UNCHANGED <<phase, doc, status, held, crd, config, ctrl, rolling, work, applied, overlooked,
                   edits, faults>>

\* APIVersion is group and version; the reference check compares it with a version.
APIVersion(d)    == <<"group", status[d].version>>
Referenced(d, v) == \E e \in Defs \ {d} : phase[e] # "absent" /\ APIVersion(e) = v

\* Mutant of Prunable: versions are retired whether instances carry them or not.
PrunableUsed(d, v) == IF Served(v) THEN {u \in ServedSet \ {v} : ~Referenced(d, u)} ELSE {}

\* The versions a definition that serves v may retire.  Instances are counted by
\* label, through v.
Prunable(d, v) ==
    IF Served(v)
    THEN {u \in ServedSet \ {v} : ~Referenced(d, u) /\ Labelled(u) = {}}
    ELSE {}

Redeployed(d) == status[d].digest = ObservedVersion(d) /\ ctrl[d] = status[d].digest

\* The instances a list through version v shows.
Seen(v) == IF Served(v) THEN Live ELSE {}

\* manageFinalizers, without a failure: a version that is not served has no instances.
Hold(d) == held' = [held EXCEPT ![d] = Seen(ObservedVersion(d)) # {}]

\* generatedKindsServed.
KindsServed(d) == Served(ObservedVersion(d)) /\ (status[d].configured => config # None)

UpToDate(d) == Prunable(d, ObservedVersion(d)) = {} /\ Redeployed(d)

\* Versions to retire, or a render that is not what is deployed.
Weigh(d) ==
    /\ At(d, "weigh") /\ ~UpToDate(d)
    /\ Ready(d, "Creating") /\ Goto(d, "update")
    /\ UNCHANGED <<phase, objects, work, applied, overlooked, late, edits, faults>>

Conclude(d) ==
    /\ At(d, "weigh") /\ UpToDate(d)
    /\ Hold(d)
    /\ Ready(d, IF KindsServed(d) THEN "Available" ELSE "Creating")
    /\ End(d)
    /\ UNCHANGED <<phase, doc, crd, config, ctrl, rolling, inst, applied, overlooked, edits, faults>>

-----------------------------------------------------------------------------
(* Create and Update.                                                      *)

\* Create generates the CRD when its version is not there, and deploys when it is.
Create(d) ==
    /\ At(d, "create")
    /\ Remember(d, [NoWork EXCEPT !.doc = doc[d], !.verb = "create"])
    /\ Goto(d, IF Served(VersionOf[doc[d]]) THEN "deploy" ELSE "apply")
    /\ UNCHANGED <<phase, status, objects, applied, overlooked, late, edits, faults>>

Update(d) ==
    /\ At(d, "update")
    /\ Remember(d, [NoWork EXCEPT !.doc = doc[d], !.verb = "update"])
    /\ Goto(d, IF status[d].hash # doc[d] THEN "apply" ELSE "inspect")
    /\ UNCHANGED <<phase, status, objects, applied, overlooked, late, edits, faults>>

\* Mutant of MayOwn: the owner of the CRD is not looked at.
MayOwnAlways(d, owner) == TRUE

\* A CRD of a definition that is gone is adopted.
MayOwn(d, owner) == \A o \in {owner} \ {None, d} : phase[o] = "absent"

Generated(d) == IF work[d].verb = "create" THEN "note" ELSE "inspect"

\* ErrOwnershipConflict.
Refuse(d) ==
    /\ \/ At(d, "apply") /\ ~MayOwn(d, crd.owner)
       \/ At(d, "configure") /\ ~MayOwn(d, config)
    /\ End(d) /\ Overlook(d)
    /\ UNCHANGED <<phase, status, objects, applied, edits, faults>>

\* ApplyOrUpdateCRD: a new CRD, the schema of one version replaced, or a version added.
Apply(d) ==
    /\ At(d, "apply") /\ MayOwn(d, crd.owner)
    /\ crd' = [owner |-> d,
               schema |-> [crd.schema EXCEPT ![TheVersion(d)] = work[d].doc],
               stored |-> IF crd.owner = None THEN {TheVersion(d)} ELSE crd.stored]
    /\ applied' = [applied EXCEPT ![d] = work[d].doc]
    /\ Goto(d, IF work[d].doc \in Secured THEN "configure" ELSE Generated(d))
    /\ UNCHANGED <<phase, doc, status, held, config, ctrl, rolling, inst, work, late,
                   overlooked, edits, faults>>

Configure(d) ==
    /\ At(d, "configure") /\ MayOwn(d, config)
    /\ config' = d
    /\ Goto(d, Generated(d))
    /\ UNCHANGED <<phase, doc, status, held, crd, ctrl, rolling, inst, work, applied, overlooked, late,
                   edits, faults>>

\* persistCreatePhaseStatus.
Note(d) ==
    /\ At(d, "note")
    /\ status' = [status EXCEPT ![d].version = TheVersion(d), ![d].ready = "Creating"]
    /\ End(d) /\ Overlook(d)
    /\ UNCHANGED <<phase, objects, applied, edits, faults>>

\* pruneStaleServedVersions counts again and removes what it counted.
Inspect(d) ==
    /\ At(d, "inspect")
    /\ LET versions == Prunable(d, TheVersion(d)) IN
       /\ Remember(d, [work[d] EXCEPT !.prune = versions])
       /\ Goto(d, IF versions = {} THEN "deploy" ELSE "retire")
    /\ UNCHANGED <<phase, status, objects, applied, overlooked, late, edits, faults>>

Without(S) == [v \in Versions |-> IF v \in S THEN None ELSE crd.schema[v]]

\* storedVersions first, then the versions; a failure in between is reported only.
Retire(d) ==
    /\ At(d, "retire")
    /\ \/ crd' = [crd EXCEPT !.stored = crd.stored \ work[d].prune, !.schema = Without(work[d].prune)]
            /\ UNCHANGED faults
       \/ Fault /\ crd' = [crd EXCEPT !.stored = crd.stored \ work[d].prune]
    /\ Goto(d, "deploy") /\ late' = [late EXCEPT ![d] = {}]
    /\ UNCHANGED <<phase, doc, status, held, config, ctrl, rolling, inst, work, applied, overlooked, edits>>

\* The labels once more, deploy.Deploy, which restarts the controller, and
\* PruneServedVersions, whose failure is not even reported.
Deploy(d) ==
    /\ At(d, "deploy") /\ Claim(TheVersion(d))
    /\ ctrl' = [ctrl EXCEPT ![d] = TheVersion(d)]
    /\ rolling' = rolling \cup {d}
    /\ \/ crd' = [crd EXCEPT !.schema = Without(Versions \ (crd.stored \cup {TheVersion(d)}))]
            /\ UNCHANGED faults
       \/ Fault /\ UNCHANGED crd
    /\ Goto(d, "record")
    /\ UNCHANGED <<phase, doc, status, held, config, work, applied, overlooked, edits>>

\* Mutant of Recorded: the digest of what was deployed is not among it.
RecordedButDigest(d) ==
    [status[d] EXCEPT !.version = TheVersion(d), !.hash = work[d].doc, !.ready = "Creating",
                      !.configured = @ \/ work[d].doc \in Secured]

Recorded(d) ==
    [version |-> TheVersion(d), hash |-> work[d].doc, digest |-> TheVersion(d),
     configured |-> status[d].configured \/ work[d].doc \in Secured, ready |-> "Creating"]

Record(d) ==
    /\ At(d, "record")
    /\ status' = [status EXCEPT ![d] = Recorded(d)]
    /\ overlooked' = IF applied[d] = work[d].doc THEN overlooked \ {d}
                     ELSE IF work[d].verb = "create" THEN overlooked \cup {d} ELSE overlooked
    /\ End(d)
    /\ UNCHANGED <<phase, objects, applied, edits, faults>>

-----------------------------------------------------------------------------
(* Observe of a definition that is being deleted, and Delete.              *)

ObserveDeleted(d) ==
    /\ At(d, "idle") /\ phase[d] = "deleting"
    /\ Hold(d) /\ Goto(d, "count")
    /\ Remember(d, [NoWork EXCEPT !.verb = "delete"])
    /\ UNCHANGED <<phase, doc, status, crd, config, ctrl, rolling, inst, applied, overlooked, late,
                   edits, faults>>

\* Mutant of Count: the finalizer that Observe wrote is taken for the count.
CountByFinalizer(d) ==
    /\ At(d, "count") /\ ~held[d]
    /\ Goto(d, "drop")
    /\ Remember(d, [work[d] EXCEPT !.blind = ~Served(ObservedVersion(d))])
    /\ UNCHANGED <<phase, status, objects, applied, overlooked, late, edits, faults>>

\* Mutant of Count: a version that is not served cannot be counted.
CountServedOnly(d) ==
    /\ At(d, "count") /\ Served(ObservedVersion(d)) /\ Seen(ObservedVersion(d)) = {}
    /\ Goto(d, "drop")
    /\ Remember(d, [work[d] EXCEPT !.blind = FALSE])
    /\ UNCHANGED <<phase, status, objects, applied, overlooked, late, edits, faults>>

\* liveInstanceCount finds none; a version that is not served has none.
Count(d) ==
    /\ At(d, "count") /\ Seen(ObservedVersion(d)) = {}
    /\ Goto(d, "drop")
    /\ Remember(d, [work[d] EXCEPT !.blind = ~Served(ObservedVersion(d))])
    /\ UNCHANGED <<phase, status, objects, applied, overlooked, late, edits, faults>>

\* ErrLiveInstances.
RefuseToDrop(d) ==
    /\ At(d, "count") /\ Seen(ObservedVersion(d)) # {}
    /\ End(d)
    /\ UNCHANGED <<phase, status, objects, applied, overlooked, edits, faults>>

\* crd.Uninstall takes every instance with it.
Drop(d) ==
    /\ At(d, "drop")
    /\ crd' = Absent /\ inst' = [i \in Instances |-> None]
    /\ applied' = [e \in Defs |-> None]
    /\ \/ held[d] /\ End(d)
       \/ ~held[d] /\ Goto(d, "undeploy") /\ UNCHANGED <<work, late>>
    /\ UNCHANGED <<phase, doc, status, held, config, ctrl, rolling, overlooked, edits, faults>>

\* The controller goes, and the runtime releases the definition.
Undeploy(d) ==
    /\ At(d, "undeploy")
    /\ ctrl' = [ctrl EXCEPT ![d] = None] /\ rolling' = rolling \ {d}
    /\ phase' = [phase EXCEPT ![d] = "absent"]
    /\ status' = [status EXCEPT ![d] = Blank]
    /\ applied' = [applied EXCEPT ![d] = None] /\ overlooked' = overlooked \ {d}
    /\ End(d)
    /\ UNCHANGED <<doc, held, crd, config, inst, edits, faults>>

\* A call failed, or the provider restarted.
Abandon(d) ==
    /\ ~At(d, "idle") /\ Fault
    /\ End(d) /\ Overlook(d)
    /\ UNCHANGED <<phase, status, objects, applied, edits>>

Pass(d) ==
    \/ Observe(d) \/ Backfill(d) \/ Weigh(d) \/ Conclude(d)
    \/ Create(d) \/ Update(d) \/ Refuse(d) \/ Apply(d) \/ Configure(d) \/ Note(d)
    \/ Inspect(d) \/ Retire(d) \/ Deploy(d) \/ Record(d)
    \/ ObserveDeleted(d) \/ Count(d) \/ RefuseToDrop(d) \/ Drop(d) \/ Undeploy(d)
    \/ Abandon(d)

-----------------------------------------------------------------------------
(* Users, and the cluster.                                                 *)

CreateDefinition(d) ==
    /\ phase[d] = "absent" /\ Edit
    /\ phase' = [phase EXCEPT ![d] = "live"]
    /\ UNCHANGED <<status, objects, pc, work, applied, overlooked, late, faults>>

\* A definition that no pass observed has no finalizer, and is gone at once.
DeleteDefinition(d) ==
    /\ phase[d] = "live" /\ Edit
    /\ phase' = [phase EXCEPT ![d] = IF status[d].ready = "none" THEN "absent" ELSE "deleting"]
    /\ UNCHANGED <<status, objects, pc, work, applied, overlooked, late, faults>>

EditDocument(d) ==
    /\ phase[d] = "live" /\ Edit
    /\ \E c \in Docs \ {doc[d]} : doc' = [doc EXCEPT ![d] = c]
    /\ UNCHANGED <<phase, status, held, crd, config, ctrl, rolling, inst, pc, work, applied, overlooked,
                   late, faults>>

\* The admission policy labels an instance with the version it is written through.
WriteInstance(i) ==
    /\ Edit
    /\ \E v \in ServedSet \ {inst[i]} : inst' = [inst EXCEPT ![i] = v]
    /\ Arrive
    /\ UNCHANGED <<phase, doc, status, held, crd, config, ctrl, rolling, pc, work, applied, overlooked,
                   faults>>

\* Without the policy it carries no label.
WriteUnlabelled(i) ==
    /\ ServedSet # {} /\ inst[i] = None /\ Fault
    /\ inst' = [inst EXCEPT ![i] = Bare]
    /\ Arrive
    /\ UNCHANGED <<phase, doc, status, held, crd, config, ctrl, rolling, pc, work, applied, overlooked,
                   edits>>

DeleteInstance(i) ==
    /\ inst[i] # None /\ Edit
    /\ inst' = [inst EXCEPT ![i] = None]
    /\ UNCHANGED <<phase, doc, status, held, crd, config, ctrl, rolling, pc, work, applied, overlooked,
                   late, faults>>

RollOut(d) ==
    /\ d \in rolling /\ rolling' = rolling \ {d}
    /\ UNCHANGED <<phase, doc, status, held, crd, config, ctrl, inst, pc, work, applied, overlooked, late,
                   edits, faults>>

LoseController(d) ==
    /\ ctrl[d] # None /\ Fault
    /\ ctrl' = [ctrl EXCEPT ![d] = None] /\ rolling' = rolling \ {d}
    /\ UNCHANGED <<phase, doc, status, held, crd, config, inst, pc, work, applied, overlooked, late, edits>>

Users ==
    \/ \E d \in Defs : CreateDefinition(d) \/ DeleteDefinition(d) \/ EditDocument(d)
    \/ \E i \in Instances : WriteInstance(i) \/ WriteUnlabelled(i) \/ DeleteInstance(i)
Cluster == \E d \in Defs : RollOut(d) \/ LoseController(d)

Next == (\E d \in Defs : Pass(d)) \/ Users \/ Cluster

Spec == Init /\ [][Next]_vars

\* A pass goes on, the next one comes (a watch or the poll interval), and a deployed
\* controller comes up.
FairSpec ==
    /\ Spec
    /\ \A d \in Defs : WF_vars(Pass(d) /\ faults' = faults) /\ WF_vars(RollOut(d))

-----------------------------------------------------------------------------
(* Properties.                                                             *)

Dropped     == crd.owner # None /\ crd'.owner = None
Retired(v)  == Served(v) /\ crd'.owner # None /\ crd'.schema[v] = None
Missed      == UNION {late[d] : d \in Defs}
Announced(d) == status[d].ready # "Available" /\ status'[d].ready = "Available"

\* The CRD is dropped over no instance that was there when a pass counted through a
\* version that is served (deploy.go).
DropsNoneItSaw ==
    [][Dropped => Live \subseteq Missed \/ \E d \in Defs : At(d, "drop") /\ work[d].blind]_vars

\* A version that may hold stored objects is retired only when no instance carries it,
\* but for those that came after the count (prune.go).
StoredVersionsInUseStay ==
    [][\A v \in crd.stored : Retired(v) => Labelled(v) \subseteq Missed]_vars

\* What a definition last applied is what it is Available for: nobody else rewrites the
\* CRD of a live definition (apply.go).
AvailableForWhatItApplied ==
    [][\A d \in Defs :
          Announced(d) /\ applied[d] = status[d].hash
             => crd.schema[status[d].version] = status[d].hash]_vars

\* Another definition owns one of the CRDs.
Rivalled(d) ==
    \E o \in {crd.owner, config} \ {None, d} : phase[o] # "absent"

\* The Configuration CRD was never applied (see the README).
Unconfigured(d) == config = None /\ (doc[d] \in Secured \/ status[d].configured)

\* The CRD serves the version the document names, generated from the document but where
\* a pass ended between the two or deployed what another had generated, and beside it
\* only versions that instances carry; the controller runs for it, and is what status says.
Matches(d, v) ==
    /\ status[d].hash = doc[d] /\ status[d].version = v /\ status[d].digest = v
    /\ ctrl[d] = v /\ d \notin rolling
    /\ Served(v) /\ (d \in overlooked \/ crd.schema[v] = doc[d])
    /\ \A u \in ServedSet \ {v} : Labelled(u) # {}

Settled(d) ==
    status[d].ready = "Available" /\ Matches(d, VersionOf[doc[d]]) /\ Labelled(Bare) = {}

\* Once users and disturbances stop, a live definition without a rival becomes Available
\* for its document, which is what is served and what its controller is deployed for,
\* and no instance is without a version label.  One that is labelled with a version the
\* document no longer names keeps it: no controller watches it (see the README).
Settles ==
    \A d \in Defs :
        <>[](phase[d] = "live" /\ ~Rivalled(d) /\ ~Unconfigured(d)) => <>[]Settled(d)

\* A deleted definition goes once no instance is left.
DeletedGoes ==
    \A d \in Defs : []<>(phase[d] = "deleting" => Live # {})

-----------------------------------------------------------------------------
(* What comments in the code say.                                          *)

\* deploy.go: REFUSE TO DROP A CRD THAT STILL HAS INSTANCES.
RefusesToDropInstances == [][Dropped => Live \subseteq Missed]_vars
=============================================================================
