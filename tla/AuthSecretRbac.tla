--------------------------- MODULE AuthSecretRbac ---------------------------
(***************************************************************************)
(* The grants through which a generated controller reads its credentials.  *)
(* The instances of a Configuration kind refer to Secrets of any           *)
(* namespace; the provider keeps, in each of those namespaces, a Role that *)
(* names exactly these Secrets and a RoleBinding to the controller's       *)
(* ServiceAccount, and remembers in status where it put them.              *)
(*                                                                         *)
(* Definitions are RestDefinitions of one plural in different groups.      *)
(* Their grants carried one name before the group became part of it, and   *)
(* those legacy grants are swept away as definitions are reconciled.       *)
(***************************************************************************)
EXTENDS Integers, FiniteSets

CONSTANTS
    Definitions, Namespaces, Secrets,
    Configurable,   \* of each definition: the sets of references its Configuration may hold
    NoRole,     \* no Role
    NoDigest,   \* no digest in status
    MaxEdits,   \* how often somebody edits a Configuration instance (a bound)
    MaxFaults   \* how many calls fail and how many grants somebody removes (a bound)

\* A reference is a namespace and the name of a Secret.
References == Namespaces \X Secrets

ASSUME ConfigurableAssumption == Configurable \in [Definitions -> SUBSET SUBSET References]
ASSUME BoundsAssumption == MaxEdits \in Nat /\ MaxFaults \in Nat
ASSUME NothingAssumption ==
    /\ \A S \in SUBSET Secrets : S # NoRole
    /\ \A R \in SUBSET References : R # NoDigest

VARIABLES
    refs,       \* of each definition: what the instances of its Configuration refer to
    role,       \* the Secrets its Role names in each namespace, or NoRole
    bound,      \* the namespaces with its RoleBinding
    legacy,     \* the namespaces with a grant under the legacy name
    phase,      \* live, deleting or gone
    recorded,   \* status.authSecretRBACNamespaces
    digest,     \* status.authSecretDigest
    deployed,   \* whether its controller is deployed
    pc,         \* the next step of its pass
    held,       \* the references that pass collected
    todo,       \* the namespaces its loop has still to do
    lost,       \* namespaces where a failure left a grant nobody remembers (history)
    taken,      \* namespaces where somebody removed a grant and no sync made it again (history)
    edits, faults

grants  == <<role, bound>>
status  == <<recorded, digest>>
vars    == <<refs, grants, legacy, phase, status, deployed, pc, held, todo, lost, taken,
             edits, faults>>

Steps == {"idle", "collect", "provision", "retract", "deploy", "persist",
          "teardown", "release"}

TypeOK ==
    /\ refs \in [Definitions -> SUBSET References]
    /\ role \in [Definitions -> [Namespaces -> {NoRole} \cup SUBSET Secrets]]
    /\ bound \in [Definitions -> SUBSET Namespaces]
    /\ legacy \subseteq Namespaces
    /\ phase \in [Definitions -> {"live", "deleting", "gone"}]
    /\ recorded \in [Definitions -> SUBSET Namespaces]
    /\ digest \in [Definitions -> {NoDigest} \cup SUBSET References]
    /\ deployed \in [Definitions -> BOOLEAN]
    /\ pc \in [Definitions -> Steps]
    /\ held \in [Definitions -> SUBSET References]
    /\ todo \in [Definitions -> SUBSET Namespaces]
    /\ lost \in [Definitions -> SUBSET Namespaces]
    /\ taken \in [Definitions -> SUBSET Namespaces]
    /\ edits \in 0 .. MaxEdits /\ faults \in 0 .. MaxFaults
    /\ \A d \in Definitions : pc[d] = "idle" => held[d] = {} /\ todo[d] = {}

NamespacesOf(R)  == {r[1] : r \in R}
SecretsIn(R, ns) == {r[2] : r \in {q \in R : q[1] = ns}}

\* A definition is new, or was reconciled by a provider that used the legacy name.
Init ==
    /\ refs \in [Definitions -> SUBSET References] /\ \A d \in Definitions : refs[d] \in Configurable[d]
    /\ role = [d \in Definitions |-> [ns \in Namespaces |-> NoRole]]
    /\ bound = [d \in Definitions |-> {}]
    /\ deployed \in [Definitions -> BOOLEAN]
    /\ phase = [d \in Definitions |-> "live"]
    /\ recorded = [d \in Definitions |-> IF deployed[d] THEN NamespacesOf(refs[d]) ELSE {}]
    /\ digest = [d \in Definitions |-> IF deployed[d] THEN refs[d] ELSE NoDigest]
    /\ legacy = UNION {recorded[d] : d \in Definitions}
    /\ pc = [d \in Definitions |-> "idle"]
    /\ held = [d \in Definitions |-> {}]
    /\ todo = [d \in Definitions |-> {}]
    /\ lost = [d \in Definitions |-> {}]
    /\ taken = [d \in Definitions |-> {}]
    /\ edits = 0 /\ faults = 0

-----------------------------------------------------------------------------
Fault == faults < MaxFaults /\ faults' = faults + 1

Goto(d, step) == pc' = [pc EXCEPT ![d] = step]
Do(d, S)      == todo' = [todo EXCEPT ![d] = S]

EndPass(d)    == /\ Goto(d, "idle") /\ Do(d, {})
                 /\ held' = [held EXCEPT ![d] = {}]

Apply(d, ns, names) == /\ role' = [role EXCEPT ![d][ns] = names]
                       /\ bound' = [bound EXCEPT ![d] = @ \cup {ns}]
Remove(d, ns)       == /\ role' = [role EXCEPT ![d][ns] = NoRole]
                       /\ bound' = [bound EXCEPT ![d] = @ \ {ns}]

\* A pass that ends early forgets the namespaces it has not recorded.
Forget(d) == lost' = [lost EXCEPT ![d] = @ \cup (NamespacesOf(held[d]) \ recorded[d])]

-----------------------------------------------------------------------------
(* Observe: the references are hashed again, and the grants of the         *)
(* recorded namespaces looked up.  A check that cannot be made is skipped. *)

MissingAuthSecretRBAC(d) == {ns \in recorded[d] : role[d][ns] = NoRole \/ ns \notin bound[d]}

\* Mutant of Drifted: only the references are compared, the grants are not looked up.
DriftedByDigest(d) == digest[d] # refs[d]

Drifted(d) == digest[d] # refs[d] \/ MissingAuthSecretRBAC(d) # {}

Observe(d) ==
    /\ pc[d] = "idle" /\ phase[d] = "live"
    /\ ~deployed[d] \/ Drifted(d)
    /\ Goto(d, "collect")
    /\ UNCHANGED <<refs, grants, legacy, phase, status, deployed, held, todo, lost, taken, edits, faults>>

\* Something else about the definition changed, and Update syncs the grants as well.
ObserveOther(d) ==
    /\ pc[d] = "idle" /\ phase[d] = "live"
    /\ Goto(d, "collect")
    /\ UNCHANGED <<refs, grants, legacy, phase, status, deployed, held, todo, lost, taken, edits, faults>>

-----------------------------------------------------------------------------
(* syncAuthSecretRBAC, in Create and Update.                               *)

CollectAuthSecretRefs(d) ==
    /\ pc[d] = "collect"
    /\ held' = [held EXCEPT ![d] = refs[d]]
    /\ Goto(d, "provision") /\ Do(d, NamespacesOf(refs[d]))
    /\ UNCHANGED <<refs, grants, legacy, phase, status, deployed, lost, taken, edits, faults>>

\* The map of namespaces is walked in any order.
Provision(d) ==
    /\ pc[d] = "provision"
    /\ \E ns \in todo[d] :
          /\ Apply(d, ns, SecretsIn(held[d], ns))
          /\ Do(d, todo[d] \ {ns})
          /\ taken' = [taken EXCEPT ![d] = @ \ {ns}]
    /\ UNCHANGED <<refs, legacy, phase, status, deployed, pc, held, lost, edits, faults>>

\* Mutant of ProvisionFails: a call that is refused is logged, and the sync goes on.
ProvisionFailsQuietly(d) ==
    /\ pc[d] = "provision" /\ Fault
    /\ \E ns \in todo[d] :
          /\ role' \in {role, [role EXCEPT ![d][ns] = SecretsIn(held[d], ns)]}
          /\ Do(d, todo[d] \ {ns})
    /\ UNCHANGED <<refs, bound, legacy, phase, status, deployed, pc, held, lost, taken, edits>>

\* A call is refused, the Role applied already or not.
ProvisionFails(d) ==
    /\ pc[d] = "provision" /\ Fault
    /\ \E ns \in todo[d] : role' \in {role, [role EXCEPT ![d][ns] = SecretsIn(held[d], ns)]}
    /\ Forget(d) /\ EndPass(d)
    /\ UNCHANGED <<refs, bound, legacy, phase, status, deployed, taken, edits>>

\* The namespaces no reference names any more are next.
Provisioned(d) ==
    /\ pc[d] = "provision" /\ todo[d] = {}
    /\ Goto(d, "retract") /\ Do(d, recorded[d] \ NamespacesOf(held[d]))
    /\ UNCHANGED <<refs, grants, legacy, phase, status, deployed, held, lost, taken, edits, faults>>

Retract(d) ==
    /\ pc[d] = "retract"
    /\ \E ns \in todo[d] : Remove(d, ns) /\ Do(d, todo[d] \ {ns})
    /\ UNCHANGED <<refs, legacy, phase, status, deployed, pc, held, lost, taken, edits, faults>>

RetractFails(d) ==
    /\ pc[d] = "retract" /\ Fault
    /\ \E ns \in todo[d] : role' \in {role, [role EXCEPT ![d][ns] = NoRole]}
    /\ Forget(d) /\ EndPass(d)
    /\ UNCHANGED <<refs, bound, legacy, phase, status, deployed, taken, edits>>

\* The legacy grants go where this definition has or had its own; one that cannot be
\* removed is logged.
SweepLegacy(d) ==
    /\ pc[d] = "retract" /\ todo[d] = {}
    /\ \/ legacy' = legacy \ (recorded[d] \cup NamespacesOf(held[d])) /\ UNCHANGED faults
       \/ legacy' \in SUBSET legacy /\ legacy \ legacy' \subseteq recorded[d] \cup NamespacesOf(held[d])
          /\ Fault
    /\ Goto(d, "deploy")
    /\ UNCHANGED <<refs, grants, phase, status, deployed, held, todo, lost, taken, edits>>

\* Only now is the controller deployed.
Deploy(d) ==
    /\ pc[d] = "deploy"
    /\ deployed' = [deployed EXCEPT ![d] = TRUE]
    /\ Goto(d, "persist")
    /\ UNCHANGED <<refs, grants, legacy, phase, status, held, todo, lost, taken, edits, faults>>

\* Mutant of Persist: the status that is written leaves the namespaces out.
PersistDigestOnly(d) ==
    /\ pc[d] = "persist"
    /\ digest' = [digest EXCEPT ![d] = held[d]]
    /\ EndPass(d)
    /\ UNCHANGED <<refs, grants, legacy, phase, recorded, deployed, lost, taken, edits, faults>>

RecordGrants(d) ==
    /\ recorded' = [recorded EXCEPT ![d] = NamespacesOf(held[d])]
    /\ digest' = [digest EXCEPT ![d] = held[d]]
    /\ lost' = [lost EXCEPT ![d] = @ \ NamespacesOf(held[d])]

Persist(d) ==
    /\ pc[d] = "persist"
    /\ RecordGrants(d) /\ EndPass(d)
    /\ UNCHANGED <<refs, grants, legacy, phase, deployed, taken, edits, faults>>

\* A restart of the provider, or a collection, a deployment or a status write that fails.
PassFails(d) ==
    /\ pc[d] \in {"collect", "provision", "retract", "deploy", "persist"} /\ Fault
    /\ Forget(d) /\ EndPass(d)
    /\ UNCHANGED <<refs, grants, legacy, phase, status, deployed, taken, edits>>

\* Once the sync is done the status in memory names its grants, and the runtime writes that
\* status with the error of a deployment or a status write that failed.
PassFailsRecorded(d) ==
    /\ pc[d] \in {"deploy", "persist"} /\ Fault
    /\ RecordGrants(d) /\ EndPass(d)
    /\ UNCHANGED <<refs, grants, legacy, phase, deployed, taken, edits>>

Sync(d) ==
    \/ CollectAuthSecretRefs(d) \/ Provision(d) \/ ProvisionFails(d) \/ Provisioned(d)
    \/ Retract(d) \/ RetractFails(d) \/ SweepLegacy(d)
    \/ Deploy(d) \/ Persist(d) \/ PassFails(d) \/ PassFailsRecorded(d)

-----------------------------------------------------------------------------
(* Delete, once nothing holds the definition back: the controller first,   *)
(* then the grants of every recorded namespace.                            *)

Undeploy(d) ==
    /\ pc[d] = "idle" /\ phase[d] = "deleting"
    /\ \/ /\ deployed' = [deployed EXCEPT ![d] = FALSE]
          /\ Goto(d, "teardown") /\ Do(d, recorded[d])
          /\ UNCHANGED faults
       \/ Fault /\ UNCHANGED <<deployed, pc, todo>>
    /\ UNCHANGED <<refs, grants, legacy, phase, status, held, lost, taken, edits>>

TearDown(d) ==
    /\ pc[d] = "teardown"
    /\ \E ns \in todo[d] : Remove(d, ns) /\ Do(d, todo[d] \ {ns})
    /\ UNCHANGED <<refs, legacy, phase, status, deployed, pc, held, lost, taken, edits, faults>>

\* A failure is kept for the log, and the other namespaces have their turn.
TearDownFails(d) ==
    /\ pc[d] = "teardown" /\ Fault
    /\ \E ns \in todo[d] :
          /\ role' \in {role, [role EXCEPT ![d][ns] = NoRole]}
          /\ lost' = [lost EXCEPT ![d] = @ \cup {ns}]
          /\ Do(d, todo[d] \ {ns})
    /\ UNCHANGED <<refs, bound, legacy, phase, status, deployed, taken, pc, held, edits>>

TornDown(d) ==
    /\ pc[d] = "teardown" /\ todo[d] = {}
    /\ \/ legacy' = legacy \ recorded[d] /\ UNCHANGED faults
       \/ legacy' \in SUBSET legacy /\ legacy \ legacy' \subseteq recorded[d] /\ Fault
    /\ phase' = [phase EXCEPT ![d] = "gone"]
    /\ EndPass(d)
    /\ UNCHANGED <<refs, grants, status, deployed, lost, taken, edits>>

Delete(d) == Undeploy(d) \/ TearDown(d) \/ TearDownFails(d) \/ TornDown(d)

-----------------------------------------------------------------------------
(* Everybody else.                                                         *)

\* Configuration instances come, go and refer to other Secrets.
EditReferences(d) ==
    /\ edits < MaxEdits /\ edits' = edits + 1
    /\ phase[d] # "gone"
    /\ \E R \in Configurable[d] \ {refs[d]} : refs' = [refs EXCEPT ![d] = R]
    /\ UNCHANGED <<grants, legacy, phase, status, deployed, pc, held, todo, lost, taken, faults>>

RequestDeletion(d) ==
    /\ phase[d] = "live"
    /\ phase' = [phase EXCEPT ![d] = "deleting"]
    /\ UNCHANGED <<refs, grants, legacy, status, deployed, pc, held, todo, lost, taken, edits, faults>>

\* Somebody removes a Role or a RoleBinding, or the namespace is rebuilt.
GrantRemoved(d) ==
    /\ Fault
    /\ \E ns \in Namespaces :
          /\ role[d][ns] # NoRole \/ ns \in bound[d]
          /\ \/ role' = [role EXCEPT ![d][ns] = NoRole] /\ bound' \in {bound, [bound EXCEPT ![d] = @ \ {ns}]}
             \/ role' = role /\ bound' = [bound EXCEPT ![d] = @ \ {ns}]
          /\ taken' = [taken EXCEPT ![d] = @ \cup {ns}]
    /\ UNCHANGED <<refs, legacy, phase, status, deployed, pc, held, todo, lost, edits>>

Next ==
    \E d \in Definitions :
        \/ Observe(d) \/ ObserveOther(d) \/ Sync(d) \/ Delete(d)
        \/ EditReferences(d) \/ RequestDeletion(d) \/ GrantRemoved(d)

\* A started pass is finished, and definitions are reconciled again and again.
Advance(d) == (Sync(d) \/ Delete(d)) /\ faults' = faults

Fairness == \A d \in Definitions : WF_vars(Advance(d)) /\ SF_vars(Observe(d))

Spec     == Init /\ [][Next]_vars
FairSpec == Spec /\ Fairness

-----------------------------------------------------------------------------
(* Properties.                                                             *)

Granted(d, ns) == role[d][ns] # NoRole \/ ns \in bound[d]

\* Where a deletion or the next sync will look for a definition's grants.
Known(d) == IF phase[d] = "gone" THEN {} ELSE recorded[d] \cup NamespacesOf(held[d])

\* No grant is forgotten, by an edit, by a sync or by the deletion of its definition,
\* but where a call failed before status was written or while it was torn down.
NoGrantIsForgotten ==
    \A d \in Definitions, ns \in Namespaces : Granted(d, ns) => ns \in Known(d) \cup lost[d]

\* What the controller of d may read in a namespace.
Access(d, ns) == IF ns \in bound[d] /\ role[d][ns] # NoRole THEN role[d][ns] ELSE {}

\* A live definition comes to read what its Configuration refers to, and nothing else
\* but where a grant was forgotten: across edits, grants that somebody removes, passes that
\* fail, and a legacy name shared with another definition that sweeps it away.
ReadsWhatItRefersTo ==
    \A d \in Definitions :
        <>[](phase[d] = "live" =>
                \A ns \in Namespaces \ (lost[d] \ NamespacesOf(refs[d])) :
                    Access(d, ns) = SecretsIn(refs[d], ns))

\* A controller is first deployed when it can read what its sync collected for it, but for a
\* grant that somebody removed after the sync had made it: whatever calls failed, in this pass
\* or in earlier ones, none of them is deployed over (restdefinition.go).
DeployedWithItsGrants ==
    [][\A d \in Definitions : ~deployed[d] /\ deployed'[d] =>
          \A ns \in Namespaces \ taken[d] : SecretsIn(held[d], ns) \subseteq Access(d, ns)]_vars
=============================================================================
