------------------------ MODULE AuthSecretRbacProofs ------------------------
(***************************************************************************)
(* Theorems of AuthSecretRbac for any number of definitions, namespaces,   *)
(* Secrets, edits and failures.                                            *)
(***************************************************************************)
EXTENDS AuthSecretRbac, TLAPS

USE ConfigurableAssumption, BoundsAssumption, NothingAssumption

\* References are named by their namespaces and Secrets.
LEMMA NamesThereAre ==
    ASSUME NEW R \in SUBSET References, NEW ns \in Namespaces
    PROVE  NamespacesOf(R) \subseteq Namespaces /\ SecretsIn(R, ns) \subseteq Secrets
BY DEF References, NamespacesOf, SecretsIn

\* No reference, no namespace.
LEMMA NoneHasNamespaces == NamespacesOf({}) = {}
BY DEF NamespacesOf

(***************************************************************************)
(* Type correctness.                                                       *)
(***************************************************************************)

\* The initial states are well typed.
LEMMA InitIsTyped == Init => TypeOK
<1> SUFFICES ASSUME Init PROVE TypeOK
  OBVIOUS
<1> USE DEF Init
<1>1. \A d \in Definitions : NamespacesOf(refs[d]) \subseteq Namespaces
  BY DEF NamespacesOf, References
<1>2. recorded \in [Definitions -> SUBSET Namespaces]
  BY <1>1
<1>3. legacy \subseteq Namespaces
  BY <1>2
<1>4. digest \in [Definitions -> {NoDigest} \cup SUBSET References]
  OBVIOUS
<1>5. deployed \in [Definitions -> BOOLEAN]
  OBVIOUS
<1>6. role \in [Definitions -> [Namespaces -> {NoRole} \cup SUBSET Secrets]]
  OBVIOUS
<1>7. /\ pc \in [Definitions -> Steps] /\ \A d \in Definitions : pc[d] = "idle" => held[d] = {} /\ todo[d] = {}
      /\ phase \in [Definitions -> {"live", "deleting", "gone"}]
  BY DEF Steps
<1>8. /\ bound \in [Definitions -> SUBSET Namespaces] /\ held \in [Definitions -> SUBSET References]
      /\ todo \in [Definitions -> SUBSET Namespaces] /\ lost \in [Definitions -> SUBSET Namespaces]
      /\ taken \in [Definitions -> SUBSET Namespaces]
  OBVIOUS
<1> QED
  BY <1>2, <1>3, <1>4, <1>5, <1>6, <1>7, <1>8 DEF TypeOK

Roles == [Definitions -> [Namespaces -> {NoRole} \cup SUBSET Secrets]]

\* A Role that is replaced or removed keeps the types.
LEMMA RoleIsTyped ==
    ASSUME TypeOK, NEW d \in Definitions, NEW ns \in Namespaces, NEW names \in {NoRole} \cup SUBSET Secrets
    PROVE  role \in Roles /\ [role EXCEPT ![d][ns] = names] \in Roles
BY DEF TypeOK, Roles

\* A grant that may have been taken away keeps the types.
LEMMA TakenIsTyped ==
    ASSUME TypeOK, NEW d \in Definitions, NEW ns \in Namespaces,
           role' = role \/ role' = [role EXCEPT ![d][ns] = NoRole]
    PROVE  role' \in Roles
<1>1. role \in Roles
  BY DEF TypeOK, Roles
<1>2. CASE role' = role
  BY <1>1, <1>2
<1>3. CASE role' = [role EXCEPT ![d][ns] = NoRole]
  BY <1>3, RoleIsTyped
<1> QED
  BY <1>2, <1>3

\* Looking keeps the types.
LEMMA ObserveKeepsType ==
    ASSUME TypeOK, NEW d \in Definitions, Observe(d) \/ ObserveOther(d) PROVE TypeOK'
BY DEF Observe, ObserveOther, TypeOK, Goto, Steps, grants, status

\* A pass that ends holds nothing.
LEMMA EndPassKeepsType ==
    ASSUME TypeOK, NEW d \in Definitions, EndPass(d)
    PROVE  /\ pc' \in [Definitions -> Steps] /\ held' \in [Definitions -> SUBSET References]
           /\ todo' \in [Definitions -> SUBSET Namespaces]
           /\ \A e \in Definitions : pc'[e] = "idle" => held'[e] = {} /\ todo'[e] = {}
BY DEF EndPass, Goto, Do, TypeOK, Steps

\* What a pass forgets are namespaces.
LEMMA ForgetKeepsType ==
    ASSUME TypeOK, NEW d \in Definitions, Forget(d)
    PROVE  lost' \in [Definitions -> SUBSET Namespaces]
<1>1. NamespacesOf(held[d]) \subseteq Namespaces
  BY DEF TypeOK, NamespacesOf, References
<1> QED
  BY <1>1 DEF Forget, TypeOK

\* What a pass records are namespaces and references.
LEMMA RecordGrantsKeepsType ==
    ASSUME TypeOK, NEW d \in Definitions, RecordGrants(d)
    PROVE  /\ recorded' \in [Definitions -> SUBSET Namespaces] /\ lost' \in [Definitions -> SUBSET Namespaces]
           /\ digest' \in [Definitions -> {NoDigest} \cup SUBSET References]
<1>1. NamespacesOf(held[d]) \subseteq Namespaces /\ held[d] \in SUBSET References
  BY DEF TypeOK, NamespacesOf, References
<1> QED
  BY <1>1 DEF RecordGrants, TypeOK

\* A sync keeps the types.
LEMMA SyncKeepsType ==
    ASSUME TypeOK, NEW d \in Definitions, Sync(d) PROVE TypeOK'
<1> USE DEF TypeOK, Goto, Do, Apply, Remove, Fault, grants, status
<1>0. held[d] \in SUBSET References /\ refs[d] \in SUBSET References
  OBVIOUS
<1>1. CASE CollectAuthSecretRefs(d)
  <2>1. NamespacesOf(refs[d]) \subseteq Namespaces
    BY <1>0 DEF NamespacesOf, References
  <2> QED
    BY <1>1, <2>1 DEF CollectAuthSecretRefs, Steps
<1>2. CASE Provision(d)
  <2>1. PICK ns \in todo[d] : /\ Apply(d, ns, SecretsIn(held[d], ns))
                              /\ Do(d, todo[d] \ {ns})
                              /\ taken' = [taken EXCEPT ![d] = @ \ {ns}]
    BY <1>2 DEF Provision
  <2>2. ns \in Namespaces /\ SecretsIn(held[d], ns) \in {NoRole} \cup SUBSET Secrets
    BY <1>0, NamesThereAre
  <2>3. role' \in [Definitions -> [Namespaces -> {NoRole} \cup SUBSET Secrets]]
    BY <2>1, <2>2
  <2>4. bound' \in [Definitions -> SUBSET Namespaces] /\ todo' \in [Definitions -> SUBSET Namespaces]
        /\ taken' \in [Definitions -> SUBSET Namespaces]
    BY <2>1, <2>2
  <2>5. pc[d] # "idle" /\ UNCHANGED <<refs, legacy, phase, status, deployed, pc, held, lost, edits, faults>>
        /\ \A e \in Definitions : e # d => todo'[e] = todo[e]
    BY <1>2, <2>1 DEF Provision
  <2> QED
    BY <2>3, <2>4, <2>5
<1>3. CASE ProvisionFails(d)
  <2>1. PICK ns \in todo[d] : role' = role \/ role' = [role EXCEPT ![d][ns] = SecretsIn(held[d], ns)]
    BY <1>3 DEF ProvisionFails
  <2>2. ns \in Namespaces /\ SecretsIn(held[d], ns) \in {NoRole} \cup SUBSET Secrets
    BY <1>0, NamesThereAre
  <2>3. role' \in Roles
    <3>1. CASE role' = role
      BY <3>1 DEF Roles
    <3>2. CASE role' = [role EXCEPT ![d][ns] = SecretsIn(held[d], ns)]
      BY <2>2, <3>2, RoleIsTyped
    <3> QED
      BY <2>1, <3>1, <3>2
  <2>4. Forget(d) /\ EndPass(d) /\ UNCHANGED <<refs, bound, legacy, phase, status, deployed, taken, edits>>
        /\ faults' \in 0 .. MaxFaults
    BY <1>3 DEF ProvisionFails
  <2> QED
    BY <2>3, <2>4, EndPassKeepsType, ForgetKeepsType DEF Roles
<1>4. CASE Provisioned(d)
  BY <1>4 DEF Provisioned, Steps
<1>5. CASE Retract(d)
  <2>1. PICK ns \in todo[d] : Remove(d, ns) /\ Do(d, todo[d] \ {ns})
    BY <1>5 DEF Retract
  <2>2. ns \in Namespaces
    OBVIOUS
  <2>3. role' \in [Definitions -> [Namespaces -> {NoRole} \cup SUBSET Secrets]]
    BY <2>1, <2>2
  <2>4. bound' \in [Definitions -> SUBSET Namespaces] /\ todo' \in [Definitions -> SUBSET Namespaces]
    BY <2>1, <2>2
  <2>5. pc[d] # "idle" /\ UNCHANGED <<refs, legacy, phase, status, deployed, pc, held, lost, taken, edits, faults>>
        /\ \A e \in Definitions : e # d => todo'[e] = todo[e]
    BY <1>5, <2>1 DEF Retract
  <2> QED
    BY <2>3, <2>4, <2>5
<1>6. CASE RetractFails(d)
  <2>1. PICK ns \in todo[d] : (role' = role \/ role' = [role EXCEPT ![d][ns] = NoRole])
    BY <1>6 DEF RetractFails
  <2>2. role' \in Roles
    <3>1. ns \in Namespaces
      OBVIOUS
    <3> QED
      BY <2>1, <3>1, TakenIsTyped
  <2>3. Forget(d) /\ EndPass(d) /\ UNCHANGED <<refs, bound, legacy, phase, status, deployed, taken, edits>>
        /\ faults' \in 0 .. MaxFaults
    BY <1>6 DEF RetractFails
  <2> QED
    BY <2>2, <2>3, EndPassKeepsType, ForgetKeepsType DEF Roles
<1>7. CASE SweepLegacy(d)
  <2>1. legacy' \subseteq legacy /\ faults' \in 0 .. MaxFaults
    BY <1>7 DEF SweepLegacy
  <2> QED
    BY <1>7, <2>1 DEF SweepLegacy, Steps
<1>8. CASE Deploy(d)
  <2>1. deployed' \in [Definitions -> BOOLEAN]
    BY <1>8 DEF Deploy
  <2> QED
    BY <1>8, <2>1 DEF Deploy, Steps
<1>9. CASE Persist(d)
  <2>1. RecordGrants(d) /\ EndPass(d) /\ UNCHANGED <<refs, grants, legacy, phase, deployed, taken, edits, faults>>
    BY <1>9 DEF Persist
  <2> QED
    BY <2>1, EndPassKeepsType, RecordGrantsKeepsType
<1>10. CASE PassFails(d)
  <2>1. Forget(d) /\ EndPass(d) /\ UNCHANGED <<refs, grants, legacy, phase, status, deployed, taken, edits>>
        /\ faults' \in 0 .. MaxFaults
    BY <1>10 DEF PassFails
  <2> QED
    BY <2>1, EndPassKeepsType, ForgetKeepsType
<1>11. CASE PassFailsRecorded(d)
  <2>1. RecordGrants(d) /\ EndPass(d) /\ UNCHANGED <<refs, grants, legacy, phase, deployed, taken, edits>>
        /\ faults' \in 0 .. MaxFaults
    BY <1>11 DEF PassFailsRecorded
  <2> QED
    BY <2>1, EndPassKeepsType, RecordGrantsKeepsType
<1> QED
  BY <1>1, <1>2, <1>3, <1>4, <1>5, <1>6, <1>7, <1>8, <1>9, <1>10, <1>11 DEF Sync

\* Deletion keeps the types.
LEMMA DeleteKeepsType ==
    ASSUME TypeOK, NEW d \in Definitions, Delete(d) PROVE TypeOK'
<1> USE DEF TypeOK, Goto, Do, Remove, Fault, grants, status
<1>1. CASE Undeploy(d)
  <2>1. CASE UNCHANGED <<deployed, pc, todo>>
    BY <1>1, <2>1 DEF Undeploy
  <2>2. CASE deployed' = [deployed EXCEPT ![d] = FALSE] /\ Goto(d, "teardown") /\ Do(d, recorded[d])
             /\ UNCHANGED faults
    <3>1. deployed' \in [Definitions -> BOOLEAN]
      BY <2>2
    <3> QED
      BY <1>1, <2>2, <3>1 DEF Undeploy, Steps
  <2> QED
    BY <1>1, <2>1, <2>2 DEF Undeploy
<1>2. CASE TearDown(d)
  <2>1. PICK ns \in todo[d] : Remove(d, ns) /\ Do(d, todo[d] \ {ns})
    BY <1>2 DEF TearDown
  <2>2. ns \in Namespaces
    OBVIOUS
  <2>3. role' \in Roles
    BY <2>1, <2>2, RoleIsTyped
  <2>4. bound' \in [Definitions -> SUBSET Namespaces] /\ todo' \in [Definitions -> SUBSET Namespaces]
    BY <2>1, <2>2
  <2>5. pc[d] # "idle" /\ UNCHANGED <<refs, legacy, phase, status, deployed, pc, held, lost, taken, edits, faults>>
        /\ \A e \in Definitions : e # d => todo'[e] = todo[e]
    BY <1>2, <2>1 DEF TearDown
  <2> QED
    BY <2>3, <2>4, <2>5 DEF Roles
<1>3. CASE TearDownFails(d)
  <2>1. PICK ns \in todo[d] : /\ (role' = role \/ role' = [role EXCEPT ![d][ns] = NoRole])
                              /\ lost' = [lost EXCEPT ![d] = @ \cup {ns}]
                              /\ Do(d, todo[d] \ {ns})
    BY <1>3 DEF TearDownFails
  <2>2. role' \in Roles
    <3>1. ns \in Namespaces
      OBVIOUS
    <3> QED
      BY <2>1, <3>1, TakenIsTyped
  <2>3. lost' \in [Definitions -> SUBSET Namespaces] /\ todo' \in [Definitions -> SUBSET Namespaces]
    BY <2>1
  <2>4. pc[d] # "idle" /\ UNCHANGED <<refs, bound, legacy, phase, status, deployed, pc, held, taken, edits>>
        /\ faults' \in 0 .. MaxFaults /\ \A e \in Definitions : e # d => todo'[e] = todo[e]
    BY <1>3, <2>1 DEF TearDownFails
  <2> QED
    BY <2>2, <2>3, <2>4 DEF Roles
<1>4. CASE TornDown(d)
  <2>1. legacy' \subseteq legacy /\ faults' \in 0 .. MaxFaults
    BY <1>4 DEF TornDown
  <2>2. EndPass(d) /\ phase' = [phase EXCEPT ![d] = "gone"]
        /\ UNCHANGED <<refs, grants, status, deployed, lost, taken, edits>>
    BY <1>4 DEF TornDown
  <2> QED
    BY <2>1, <2>2, EndPassKeepsType
<1> QED
  BY <1>1, <1>2, <1>3, <1>4 DEF Delete

\* Everybody else keeps the types.
LEMMA OthersKeepType ==
    ASSUME TypeOK, NEW d \in Definitions, EditReferences(d) \/ RequestDeletion(d) \/ GrantRemoved(d)
    PROVE  TypeOK'
<1> USE DEF TypeOK, Fault, grants, status
<1>1. CASE EditReferences(d)
  <2>1. PICK R \in Configurable[d] : refs' = [refs EXCEPT ![d] = R]
    BY <1>1 DEF EditReferences
  <2>2. R \in SUBSET References
    OBVIOUS
  <2> QED
    BY <1>1, <2>1, <2>2 DEF EditReferences
<1>2. CASE RequestDeletion(d)
  BY <1>2 DEF RequestDeletion
<1>3. CASE GrantRemoved(d)
  <2>1. PICK ns \in Namespaces :
           /\ (role' = role \/ role' = [role EXCEPT ![d][ns] = NoRole])
           /\ (bound' = bound \/ bound' = [bound EXCEPT ![d] = @ \ {ns}])
           /\ taken' = [taken EXCEPT ![d] = @ \cup {ns}]
    BY <1>3 DEF GrantRemoved
  <2>2. role' \in Roles
    <3>1. ns \in Namespaces
      OBVIOUS
    <3> QED
      BY <2>1, <3>1, TakenIsTyped
  <2>3. bound' \in [Definitions -> SUBSET Namespaces]
    <3>1. CASE bound' = bound
      BY <3>1
    <3>2. CASE bound' = [bound EXCEPT ![d] = @ \ {ns}]
      BY <3>2
    <3> QED
      BY <2>1, <3>1, <3>2
  <2>4. taken' \in [Definitions -> SUBSET Namespaces]
    BY <2>1
  <2> QED
    BY <1>3, <2>2, <2>3, <2>4 DEF GrantRemoved, Roles
<1> QED
  BY <1>1, <1>2, <1>3

\* Variables keep their types, and a pass that ended holds no references (authsecretrbac.go).
THEOREM TypeCorrect == Spec => []TypeOK
<1>1. TypeOK /\ [Next]_vars => TypeOK'
  <2> SUFFICES ASSUME TypeOK, [Next]_vars PROVE TypeOK'
    OBVIOUS
  <2>1. CASE UNCHANGED vars
    BY <2>1 DEF TypeOK, vars, grants, status
  <2>2. CASE Next
    BY <2>2, ObserveKeepsType, SyncKeepsType, DeleteKeepsType, OthersKeepType DEF Next
  <2> QED
    BY <2>1, <2>2
<1> QED
  BY InitIsTyped, <1>1, PTL DEF Spec

(***************************************************************************)
(* Where the grants of a definition are accounted for at each step.        *)
(***************************************************************************)

\* What a pass holds at its steps.
Shape(d) ==
    /\ pc[d] \in {"idle", "collect"} => held[d] = {}
    /\ pc[d] = "provision" => todo[d] \subseteq NamespacesOf(held[d])
    /\ pc[d] = "retract" => todo[d] \subseteq recorded[d] \ NamespacesOf(held[d])
    /\ pc[d] = "teardown" => todo[d] \subseteq recorded[d]
    /\ phase[d] = "gone" => pc[d] = "idle"

\* A pass narrows down where there is a grant of its definition, until only that is recorded.
Reach(d) ==
    CASE pc[d] = "retract" -> todo[d] \cup NamespacesOf(held[d])
      [] pc[d] \in {"deploy", "persist"} -> NamespacesOf(held[d])
      [] pc[d] = "teardown" -> todo[d]
      [] OTHER -> Known(d)
Traced(d) == \A ns \in Namespaces : Granted(d, ns) => ns \in Reach(d) \cup lost[d]

\* What a pass has provisioned stays until somebody takes it away.
Served(d) ==
    pc[d] \in {"provision", "retract", "deploy"} =>
        \A ns \in NamespacesOf(held[d]) \ (IF pc[d] = "provision" THEN todo[d] ELSE {}) :
          ns \notin taken[d] =>
            ns \in bound[d] /\ role[d][ns] = SecretsIn(held[d], ns)

Accounted(d) == Shape(d) /\ Traced(d) /\ Served(d)
GrantInv == TypeOK /\ \A d \in Definitions : Accounted(d)

\* A definition that a step leaves alone stays accounted for.
LEMMA OthersStayAccounted ==
    ASSUME TypeOK, NEW e \in Definitions, Accounted(e), taken'[e] = taken[e],
           pc'[e] = pc[e], held'[e] = held[e], todo'[e] = todo[e], recorded'[e] = recorded[e],
           lost'[e] = lost[e], phase'[e] = phase[e], role'[e] = role[e], bound'[e] = bound[e]
    PROVE  Accounted(e)'
<1>1. Shape(e)'
  BY DEF Accounted, Shape
<1>2. Reach(e)' = Reach(e)
  BY DEF Reach, Known
<1>3. Traced(e)'
  BY <1>2 DEF Accounted, Traced, Granted
<1>4. Served(e)'
  BY DEF Accounted, Served
<1> QED
  BY <1>1, <1>3, <1>4 DEF Accounted

\* All definitions are accounted for when the one that moved is.
LEMMA OneMoves ==
    ASSUME GrantInv, TypeOK', NEW d \in Definitions, Accounted(d)',
           \A e \in Definitions \ {d} :
               /\ pc'[e] = pc[e] /\ held'[e] = held[e] /\ todo'[e] = todo[e]
               /\ recorded'[e] = recorded[e] /\ lost'[e] = lost[e] /\ phase'[e] = phase[e]
               /\ role'[e] = role[e] /\ bound'[e] = bound[e] /\ taken'[e] = taken[e]
    PROVE  GrantInv'
<1> SUFFICES ASSUME NEW e \in Definitions PROVE Accounted(e)'
  BY DEF GrantInv
<1>1. CASE e = d
  BY <1>1
<1>2. CASE e # d
  BY <1>2, OthersStayAccounted DEF GrantInv
<1> QED
  BY <1>1, <1>2

\* A pass that ends early leaves what it provisioned among the forgotten.
LEMMA FailureIsAccounted ==
    ASSUME TypeOK, NEW d \in Definitions, Accounted(d), Forget(d), EndPass(d), UNCHANGED <<phase, recorded>>,
           pc[d] \in {"collect", "provision", "retract", "deploy", "persist"},
           \A ns \in Namespaces : Granted(d, ns)' => Granted(d, ns) \/ ns \in NamespacesOf(held[d])
    PROVE  Accounted(d)'
<1>1. pc'[d] = "idle" /\ held'[d] = {} /\ todo'[d] = {}
  BY DEF EndPass, Goto, Do, TypeOK
<1>2. lost'[d] = lost[d] \cup (NamespacesOf(held[d]) \ recorded[d])
  BY DEF Forget, TypeOK
<1>3. Shape(d)' /\ Served(d)'
  BY <1>1 DEF Shape, Served, Accounted
<1>4. phase[d] # "gone"
  BY DEF Accounted, Shape
<1>5. Reach(d)' = recorded[d]
  BY <1>1, <1>4, NoneHasNamespaces DEF Reach, Known
<1>6. Reach(d) \subseteq recorded[d] \cup NamespacesOf(held[d])
  BY <1>4 DEF Reach, Known, Accounted, Shape
<1>7. Traced(d)'
  BY <1>2, <1>5, <1>6 DEF Traced, Accounted
<1> QED
  BY <1>3, <1>7 DEF Accounted

\* What a step of d may not touch.
Alone(d) ==
    \A e \in Definitions \ {d} :
        /\ pc'[e] = pc[e] /\ held'[e] = held[e] /\ todo'[e] = todo[e]
        /\ recorded'[e] = recorded[e] /\ lost'[e] = lost[e] /\ phase'[e] = phase[e]
        /\ role'[e] = role[e] /\ bound'[e] = bound[e] /\ taken'[e] = taken[e]

\* Looking moves no grant.
LEMMA ObserveAccounts ==
    ASSUME GrantInv, NEW d \in Definitions, Observe(d) \/ ObserveOther(d) PROVE Accounted(d)' /\ Alone(d)
<1> USE DEF GrantInv, TypeOK, grants, status
<1>1. pc' = [pc EXCEPT ![d] = "collect"] /\ pc[d] = "idle" /\ phase[d] = "live"
      /\ UNCHANGED <<grants, phase, status, held, todo, lost, taken>>
  BY DEF Observe, ObserveOther, Goto
<1>2. Shape(d)' /\ Served(d)'
  BY <1>1 DEF Accounted, Shape, Served
<1>3. Reach(d)' = Reach(d)
  BY <1>1 DEF Reach, Known
<1>4. Traced(d)'
  BY <1>1, <1>3 DEF Accounted, Traced, Granted
<1> QED
  BY <1>1, <1>2, <1>4 DEF Accounted, Alone

\* A sync that goes on accounts for the grants it makes and removes.
LEMMA SyncAccounts ==
    ASSUME GrantInv, NEW d \in Definitions, Sync(d) PROVE Accounted(d)' /\ Alone(d)
<1> USE DEF Goto, Do, Fault, grants, status
<1>0. TypeOK /\ Accounted(d) /\ Shape(d) /\ Traced(d) /\ Served(d)
  BY DEF GrantInv, Accounted
<1>1. CASE CollectAuthSecretRefs(d)
  <2>1. /\ pc' = [pc EXCEPT ![d] = "provision"] /\ held' = [held EXCEPT ![d] = refs[d]]
        /\ todo' = [todo EXCEPT ![d] = NamespacesOf(refs[d])] /\ pc[d] = "collect"
        /\ UNCHANGED <<grants, phase, status, lost, taken>>
    BY <1>1 DEF CollectAuthSecretRefs
  <2>2. held[d] = {} /\ phase[d] # "gone"
    BY <1>0, <2>1 DEF Shape
  <2>3. pc'[d] = "provision" /\ held'[d] = refs[d] /\ todo'[d] = NamespacesOf(refs[d])
    BY <1>0, <2>1 DEF TypeOK
  <2>4. Shape(d)' /\ Served(d)'
    BY <2>1, <2>2, <2>3 DEF Shape, Served
  <2>5. Reach(d) \subseteq Reach(d)'
    BY <2>1, <2>2, <2>3, NoneHasNamespaces DEF Reach, Known
  <2>6. Traced(d)'
    BY <1>0, <2>1, <2>5 DEF Traced, Granted
  <2>7. Alone(d)
    BY <1>0, <2>1 DEF Alone, TypeOK
  <2> QED
    BY <2>4, <2>6, <2>7 DEF Accounted
<1>2. CASE Provision(d)
  <2>1. PICK ns \in todo[d] :
           /\ role' = [role EXCEPT ![d][ns] = SecretsIn(held[d], ns)]
           /\ bound' = [bound EXCEPT ![d] = @ \cup {ns}]
           /\ todo' = [todo EXCEPT ![d] = @ \ {ns}]
           /\ taken' = [taken EXCEPT ![d] = @ \ {ns}]
    BY <1>2 DEF Provision, Apply
  <2>2. pc[d] = "provision" /\ UNCHANGED <<phase, status, pc, held, lost>>
    BY <1>2 DEF Provision
  <2>3. ns \in Namespaces /\ ns \in NamespacesOf(held[d]) /\ phase[d] # "gone"
    BY <1>0, <2>2 DEF Shape, TypeOK
  <2>4. /\ bound'[d] = bound[d] \cup {ns} /\ todo'[d] = todo[d] \ {ns} /\ taken'[d] = taken[d] \ {ns}
        /\ \A m \in Namespaces : role'[d][m] = IF m = ns THEN SecretsIn(held[d], ns) ELSE role[d][m]
    BY <1>0, <2>1, <2>3 DEF TypeOK
  <2>5. NamespacesOf(held[d]) \subseteq Namespaces
    BY <1>0 DEF TypeOK, NamespacesOf, References
  <2>6. Shape(d)'
    BY <1>0, <2>2, <2>4 DEF Shape
  <2>7. Served(d)'
    BY <1>0, <2>2, <2>4, <2>5 DEF Served
  <2>8. Reach(d)' = Reach(d) /\ ns \in Reach(d)
    BY <2>2, <2>3 DEF Reach, Known
  <2>9. Traced(d)'
    BY <1>0, <2>2, <2>4, <2>8 DEF Traced, Granted
  <2>10. Alone(d)
    BY <1>0, <2>1, <2>2 DEF Alone, TypeOK
  <2> QED
    BY <2>6, <2>7, <2>9, <2>10 DEF Accounted
<1>3. CASE ProvisionFails(d)
  <2>1. PICK ns \in todo[d] : role' = role \/ role' = [role EXCEPT ![d][ns] = SecretsIn(held[d], ns)]
    BY <1>3 DEF ProvisionFails
  <2>2. pc[d] = "provision" /\ Forget(d) /\ EndPass(d) /\ UNCHANGED <<bound, phase, status, taken>>
    BY <1>3 DEF ProvisionFails
  <2>3. ns \in NamespacesOf(held[d]) /\ ns \in Namespaces
    BY <1>0, <2>2 DEF Shape, TypeOK
  <2>4. \A m \in Namespaces \ {ns} : role'[d][m] = role[d][m]
    BY <1>0, <2>1, <2>3 DEF TypeOK
  <2>5. \A m \in Namespaces : Granted(d, m)' => Granted(d, m) \/ m \in NamespacesOf(held[d])
    BY <2>2, <2>3, <2>4 DEF Granted
  <2>6. \A e \in Definitions \ {d} : role'[e] = role[e]
    BY <1>0, <2>1 DEF TypeOK
  <2>7. Alone(d)
    BY <1>0, <2>2, <2>6 DEF Alone, TypeOK, Forget, EndPass
  <2> QED
    BY <1>0, <2>2, <2>5, <2>7, FailureIsAccounted
<1>4. CASE Provisioned(d)
  <2>1. /\ pc' = [pc EXCEPT ![d] = "retract"] /\ todo' = [todo EXCEPT ![d] = recorded[d] \ NamespacesOf(held[d])]
        /\ pc[d] = "provision" /\ todo[d] = {} /\ UNCHANGED <<grants, phase, status, held, lost, taken>>
    BY <1>4 DEF Provisioned
  <2>2. pc'[d] = "retract" /\ todo'[d] = recorded[d] \ NamespacesOf(held[d]) /\ phase[d] # "gone"
    BY <1>0, <2>1 DEF TypeOK, Shape
  <2>3. Shape(d)' /\ Served(d)'
    BY <1>0, <2>1, <2>2 DEF Shape, Served
  <2>4. Reach(d) \subseteq Reach(d)'
    BY <2>1, <2>2 DEF Reach, Known
  <2>5. Traced(d)'
    BY <1>0, <2>1, <2>4 DEF Traced, Granted
  <2>6. Alone(d)
    BY <1>0, <2>1 DEF Alone, TypeOK
  <2> QED
    BY <2>3, <2>5, <2>6 DEF Accounted
<1>5. CASE Retract(d)
  <2>1. PICK ns \in todo[d] :
           /\ role' = [role EXCEPT ![d][ns] = NoRole]
           /\ bound' = [bound EXCEPT ![d] = @ \ {ns}]
           /\ todo' = [todo EXCEPT ![d] = @ \ {ns}]
    BY <1>5 DEF Retract, Remove
  <2>2. pc[d] = "retract" /\ UNCHANGED <<phase, status, pc, held, lost, taken>>
    BY <1>5 DEF Retract
  <2>3. ns \in Namespaces /\ ns \notin NamespacesOf(held[d])
    BY <1>0, <2>2 DEF Shape, TypeOK
  <2>4. /\ bound'[d] = bound[d] \ {ns} /\ todo'[d] = todo[d] \ {ns}
        /\ \A m \in Namespaces : role'[d][m] = IF m = ns THEN NoRole ELSE role[d][m]
    BY <1>0, <2>1, <2>3 DEF TypeOK
  <2>5. NamespacesOf(held[d]) \subseteq Namespaces
    BY <1>0 DEF TypeOK, NamespacesOf, References
  <2>6. Shape(d)' /\ Served(d)'
    BY <1>0, <2>2, <2>3, <2>4, <2>5 DEF Shape, Served
  <2>7. Reach(d)' = todo'[d] \cup NamespacesOf(held[d]) /\ Reach(d) = todo[d] \cup NamespacesOf(held[d])
    BY <2>2 DEF Reach
  <2>8. ~Granted(d, ns)' /\ \A m \in Namespaces \ {ns} : Granted(d, m)' => Granted(d, m)
    BY <2>3, <2>4 DEF Granted
  <2>9. Traced(d)'
    BY <1>0, <2>2, <2>4, <2>7, <2>8 DEF Traced
  <2>10. Alone(d)
    BY <1>0, <2>1, <2>2 DEF Alone, TypeOK
  <2> QED
    BY <2>6, <2>9, <2>10 DEF Accounted
<1>6. CASE RetractFails(d)
  <2>1. PICK ns \in todo[d] : role' = role \/ role' = [role EXCEPT ![d][ns] = NoRole]
    BY <1>6 DEF RetractFails
  <2>2. pc[d] = "retract" /\ Forget(d) /\ EndPass(d) /\ UNCHANGED <<bound, phase, status, taken>>
    BY <1>6 DEF RetractFails
  <2>3. ns \in Namespaces
    BY <1>0 DEF TypeOK
  <2>4. \A m \in Namespaces : role'[d][m] = role[d][m] \/ role'[d][m] = NoRole
    BY <1>0, <2>1, <2>3 DEF TypeOK
  <2>5. \A m \in Namespaces : Granted(d, m)' => Granted(d, m) \/ m \in NamespacesOf(held[d])
    BY <2>2, <2>4 DEF Granted
  <2>6. \A e \in Definitions \ {d} : role'[e] = role[e]
    BY <1>0, <2>1 DEF TypeOK
  <2>7. Alone(d)
    BY <1>0, <2>2, <2>6 DEF Alone, TypeOK, Forget, EndPass
  <2> QED
    BY <1>0, <2>2, <2>5, <2>7, FailureIsAccounted
<1>7. CASE SweepLegacy(d)
  <2>1. /\ pc' = [pc EXCEPT ![d] = "deploy"] /\ pc[d] = "retract" /\ todo[d] = {}
        /\ UNCHANGED <<grants, phase, status, held, todo, lost, taken>>
    BY <1>7 DEF SweepLegacy
  <2>2. pc'[d] = "deploy" /\ phase[d] # "gone"
    BY <1>0, <2>1 DEF TypeOK, Shape
  <2>3. Shape(d)' /\ Served(d)'
    BY <1>0, <2>1, <2>2 DEF Shape, Served
  <2>4. Reach(d)' = Reach(d)
    BY <2>1, <2>2 DEF Reach
  <2>5. Traced(d)'
    BY <1>0, <2>1, <2>4 DEF Traced, Granted
  <2>6. Alone(d)
    BY <1>0, <2>1 DEF Alone, TypeOK
  <2> QED
    BY <2>3, <2>5, <2>6 DEF Accounted
<1>8. CASE Deploy(d)
  <2>1. /\ pc' = [pc EXCEPT ![d] = "persist"] /\ pc[d] = "deploy"
        /\ UNCHANGED <<grants, phase, status, held, todo, lost, taken>>
    BY <1>8 DEF Deploy
  <2>2. pc'[d] = "persist" /\ phase[d] # "gone"
    BY <1>0, <2>1 DEF TypeOK, Shape
  <2>3. Shape(d)' /\ Served(d)'
    BY <1>0, <2>1, <2>2 DEF Shape, Served
  <2>4. Reach(d)' = Reach(d)
    BY <2>1, <2>2 DEF Reach
  <2>5. Traced(d)'
    BY <1>0, <2>1, <2>4 DEF Traced, Granted
  <2>6. Alone(d)
    BY <1>0, <2>1 DEF Alone, TypeOK
  <2> QED
    BY <2>3, <2>5, <2>6 DEF Accounted
<1>9. CASE Persist(d) \/ PassFailsRecorded(d)
  <2>1. /\ recorded' = [recorded EXCEPT ![d] = NamespacesOf(held[d])]
        /\ lost' = [lost EXCEPT ![d] = @ \ NamespacesOf(held[d])]
        /\ EndPass(d) /\ pc[d] \in {"deploy", "persist"} /\ UNCHANGED <<grants, phase, taken>>
    BY <1>9 DEF Persist, PassFailsRecorded, RecordGrants
  <2>2. /\ recorded'[d] = NamespacesOf(held[d]) /\ lost'[d] = lost[d] \ NamespacesOf(held[d])
        /\ pc'[d] = "idle" /\ held'[d] = {} /\ todo'[d] = {} /\ phase[d] # "gone"
    BY <1>0, <2>1 DEF TypeOK, Shape, EndPass
  <2>3. Shape(d)' /\ Served(d)'
    BY <2>2 DEF Shape, Served
  <2>4. Reach(d)' = NamespacesOf(held[d]) /\ Reach(d) = NamespacesOf(held[d])
    BY <2>1, <2>2, NoneHasNamespaces DEF Reach, Known
  <2>5. Traced(d)'
    BY <1>0, <2>1, <2>2, <2>4 DEF Traced, Granted
  <2>6. Alone(d)
    BY <1>0, <2>1 DEF Alone, TypeOK, EndPass
  <2> QED
    BY <2>3, <2>5, <2>6 DEF Accounted
<1>10. CASE PassFails(d)
  <2>1. pc[d] \in {"collect", "provision", "retract", "deploy", "persist"} /\ Forget(d) /\ EndPass(d)
        /\ UNCHANGED <<grants, phase, status, taken>>
    BY <1>10 DEF PassFails
  <2>2. \A m \in Namespaces : Granted(d, m)' => Granted(d, m)
    BY <2>1 DEF Granted
  <2>3. Alone(d)
    BY <1>0, <2>1 DEF Alone, TypeOK, Forget, EndPass
  <2> QED
    BY <1>0, <2>1, <2>2, <2>3, FailureIsAccounted
<1> QED
  BY <1>1, <1>2, <1>3, <1>4, <1>5, <1>6, <1>7, <1>8, <1>9, <1>10 DEF Sync

\* A teardown accounts for what it could not remove.
LEMMA DeleteAccounts ==
    ASSUME GrantInv, NEW d \in Definitions, Delete(d) PROVE Accounted(d)' /\ Alone(d)
<1> USE DEF Goto, Do, Fault, grants, status
<1>0. TypeOK /\ Accounted(d) /\ Shape(d) /\ Traced(d) /\ Served(d)
  BY DEF GrantInv, Accounted
<1>1. CASE Undeploy(d)
  <2>1. CASE UNCHANGED <<deployed, pc, todo>>
    <3>1. UNCHANGED <<grants, phase, status, held, lost, taken, pc, todo>>
      BY <1>1, <2>1 DEF Undeploy
    <3>2. Alone(d)
      BY <3>1 DEF Alone
    <3>3. Accounted(d)'
      BY <1>0, <3>1, OthersStayAccounted
    <3> QED
      BY <3>2, <3>3
  <2>2. CASE pc' = [pc EXCEPT ![d] = "teardown"] /\ todo' = [todo EXCEPT ![d] = recorded[d]] /\ UNCHANGED faults
    <3>1. pc[d] = "idle" /\ phase[d] = "deleting" /\ UNCHANGED <<grants, phase, status, held, lost, taken>>
      BY <1>1 DEF Undeploy
    <3>2. pc'[d] = "teardown" /\ todo'[d] = recorded[d] /\ held[d] = {}
      BY <1>0, <2>2, <3>1 DEF TypeOK, Shape
    <3>3. Shape(d)' /\ Served(d)'
      BY <3>1, <3>2 DEF Shape, Served
    <3>4. Reach(d)' = Reach(d)
      BY <3>1, <3>2, NoneHasNamespaces DEF Reach, Known
    <3>5. Traced(d)'
      BY <1>0, <3>1, <3>4 DEF Traced, Granted
    <3>6. Alone(d)
      BY <1>0, <2>2, <3>1 DEF Alone, TypeOK
    <3> QED
      BY <3>3, <3>5, <3>6 DEF Accounted
  <2> QED
    BY <1>1, <2>1, <2>2 DEF Undeploy
<1>2. CASE TearDown(d)
  <2>1. PICK ns \in todo[d] :
           /\ role' = [role EXCEPT ![d][ns] = NoRole]
           /\ bound' = [bound EXCEPT ![d] = @ \ {ns}]
           /\ todo' = [todo EXCEPT ![d] = @ \ {ns}]
    BY <1>2 DEF TearDown, Remove
  <2>2. pc[d] = "teardown" /\ UNCHANGED <<phase, status, pc, held, lost, taken>>
    BY <1>2 DEF TearDown
  <2>3. ns \in Namespaces
    BY <1>0 DEF TypeOK
  <2>4. /\ bound'[d] = bound[d] \ {ns} /\ todo'[d] = todo[d] \ {ns}
        /\ \A m \in Namespaces : role'[d][m] = IF m = ns THEN NoRole ELSE role[d][m]
    BY <1>0, <2>1, <2>3 DEF TypeOK
  <2>5. Shape(d)' /\ Served(d)'
    BY <1>0, <2>2, <2>4 DEF Shape, Served
  <2>6. Reach(d)' = todo'[d] /\ Reach(d) = todo[d]
    BY <2>2 DEF Reach
  <2>7. ~Granted(d, ns)' /\ \A m \in Namespaces \ {ns} : Granted(d, m)' => Granted(d, m)
    BY <2>3, <2>4 DEF Granted
  <2>8. Traced(d)'
    BY <1>0, <2>2, <2>4, <2>6, <2>7 DEF Traced
  <2>9. Alone(d)
    BY <1>0, <2>1, <2>2 DEF Alone, TypeOK
  <2> QED
    BY <2>5, <2>8, <2>9 DEF Accounted
<1>3. CASE TearDownFails(d)
  <2>1. PICK ns \in todo[d] :
           /\ role' = role \/ role' = [role EXCEPT ![d][ns] = NoRole]
           /\ lost' = [lost EXCEPT ![d] = @ \cup {ns}]
           /\ todo' = [todo EXCEPT ![d] = @ \ {ns}]
    BY <1>3 DEF TearDownFails
  <2>2. pc[d] = "teardown" /\ UNCHANGED <<bound, phase, status, pc, held, taken>>
    BY <1>3 DEF TearDownFails
  <2>3. ns \in Namespaces
    BY <1>0 DEF TypeOK
  <2>4. \A m \in Namespaces : role'[d][m] = role[d][m] \/ role'[d][m] = NoRole
    BY <1>0, <2>1, <2>3 DEF TypeOK
  <2>5. lost'[d] = lost[d] \cup {ns} /\ todo'[d] = todo[d] \ {ns}
    BY <1>0, <2>1 DEF TypeOK
  <2>6. Shape(d)' /\ Served(d)'
    BY <1>0, <2>2, <2>5 DEF Shape, Served
  <2>7. Reach(d)' = todo'[d] /\ Reach(d) = todo[d]
    BY <2>2 DEF Reach
  <2>8. Traced(d)'
    BY <1>0, <2>2, <2>4, <2>5, <2>7 DEF Traced, Granted
  <2>9. \A e \in Definitions \ {d} : role'[e] = role[e] /\ lost'[e] = lost[e] /\ todo'[e] = todo[e]
    BY <1>0, <2>1 DEF TypeOK
  <2>10. Alone(d)
    BY <2>2, <2>9 DEF Alone
  <2> QED
    BY <2>6, <2>8, <2>10 DEF Accounted
<1>4. CASE TornDown(d)
  <2>1. /\ pc[d] = "teardown" /\ todo[d] = {} /\ phase' = [phase EXCEPT ![d] = "gone"]
        /\ EndPass(d) /\ UNCHANGED <<grants, status, lost, taken>>
    BY <1>4 DEF TornDown
  <2>2. pc'[d] = "idle" /\ held'[d] = {} /\ phase'[d] = "gone"
    BY <1>0, <2>1 DEF TypeOK, EndPass
  <2>3. Shape(d)' /\ Served(d)'
    BY <2>2 DEF Shape, Served
  <2>4. Reach(d) = {}
    BY <2>1 DEF Reach
  <2>5. Traced(d)'
    BY <1>0, <2>1, <2>4 DEF Traced, Granted
  <2>6. Alone(d)
    BY <1>0, <2>1 DEF Alone, TypeOK, EndPass
  <2> QED
    BY <2>3, <2>5, <2>6 DEF Accounted
<1> QED
  BY <1>1, <1>2, <1>3, <1>4 DEF Delete

\* What users and other clients do makes no grant.
LEMMA OthersAccount ==
    ASSUME GrantInv, NEW d \in Definitions, EditReferences(d) \/ RequestDeletion(d) \/ GrantRemoved(d)
    PROVE  Accounted(d)' /\ Alone(d)
<1> USE DEF Fault, grants, status
<1>0. TypeOK /\ Accounted(d) /\ Shape(d) /\ Traced(d) /\ Served(d)
  BY DEF GrantInv, Accounted
<1>1. CASE EditReferences(d)
  <2>1. UNCHANGED <<grants, phase, status, pc, held, todo, lost, taken>>
    BY <1>1 DEF EditReferences
  <2> QED
    BY <1>0, <2>1, OthersStayAccounted DEF Alone
<1>2. CASE RequestDeletion(d)
  <2>1. /\ phase[d] = "live" /\ phase' = [phase EXCEPT ![d] = "deleting"]
        /\ UNCHANGED <<grants, status, pc, held, todo, lost, taken>>
    BY <1>2 DEF RequestDeletion
  <2>2. phase'[d] = "deleting"
    BY <1>0, <2>1 DEF TypeOK
  <2>3. Shape(d)' /\ Served(d)'
    BY <1>0, <2>1, <2>2 DEF Shape, Served
  <2>4. Reach(d)' = Reach(d)
    BY <2>1, <2>2 DEF Reach, Known
  <2>5. Traced(d)'
    BY <1>0, <2>1, <2>4 DEF Traced, Granted
  <2>6. Alone(d)
    BY <1>0, <2>1 DEF Alone, TypeOK
  <2> QED
    BY <2>3, <2>5, <2>6 DEF Accounted
<1>3. CASE GrantRemoved(d)
  <2>1. PICK ns \in Namespaces :
           /\ role' = role \/ role' = [role EXCEPT ![d][ns] = NoRole]
           /\ bound' = bound \/ bound' = [bound EXCEPT ![d] = @ \ {ns}]
           /\ taken' = [taken EXCEPT ![d] = @ \cup {ns}]
    BY <1>3 DEF GrantRemoved
  <2>2. UNCHANGED <<phase, status, pc, held, todo, lost>>
    BY <1>3 DEF GrantRemoved
  <2>3. \A m \in Namespaces : role'[d][m] = role[d][m] \/ role'[d][m] = NoRole
    BY <1>0, <2>1 DEF TypeOK
  <2>4. bound'[d] \subseteq bound[d]
    BY <1>0, <2>1 DEF TypeOK
  <2>5. \A e \in Definitions \ {d} : role'[e] = role[e] /\ bound'[e] = bound[e] /\ taken'[e] = taken[e]
    BY <1>0, <2>1 DEF TypeOK
  <2>6. /\ taken'[d] = taken[d] \cup {ns}
        /\ \A m \in Namespaces \ {ns} : role'[d][m] = role[d][m] /\ (m \in bound'[d] <=> m \in bound[d])
    BY <1>0, <2>1 DEF TypeOK
  <2>11. NamespacesOf(held[d]) \subseteq Namespaces
    BY <1>0, NamesThereAre DEF TypeOK, NamespacesOf, References
  <2>7. Shape(d)' /\ Served(d)'
    BY <1>0, <2>2, <2>6, <2>11 DEF Shape, Served
  <2>8. Reach(d)' = Reach(d)
    BY <2>2 DEF Reach, Known
  <2>9. Traced(d)'
    BY <1>0, <2>2, <2>3, <2>4, <2>8 DEF Traced, Granted
  <2>10. Alone(d)
    BY <2>2, <2>5 DEF Alone
  <2> QED
    BY <2>7, <2>9, <2>10 DEF Accounted
<1> QED
  BY <1>1, <1>2, <1>3

\* At the start no grant has been made.
LEMMA InitAccounts == Init => GrantInv
<1> SUFFICES ASSUME Init PROVE GrantInv
  OBVIOUS
<1>1. TypeOK
  BY InitIsTyped
<1>2. ASSUME NEW d \in Definitions PROVE Accounted(d)
  <2>1. /\ pc[d] = "idle" /\ held[d] = {} /\ phase[d] = "live" /\ bound[d] = {}
        /\ \A ns \in Namespaces : role[d][ns] = NoRole
    BY DEF Init
  <2> QED
    BY <2>1 DEF Accounted, Shape, Traced, Served, Granted
<1> QED
  BY <1>1, <1>2 DEF GrantInv

\* Every behaviour accounts for its grants.
LEMMA AccountsHold == Spec => []GrantInv
<1>1. ASSUME GrantInv, [Next]_vars, TypeOK' PROVE GrantInv'
  <2>1. CASE UNCHANGED vars
    <3>1. ASSUME NEW e \in Definitions PROVE Accounted(e)'
      BY <1>1, <2>1, OthersStayAccounted DEF vars, grants, status, GrantInv
    <3> QED
      BY <1>1, <3>1 DEF GrantInv
  <2>2. CASE Next
    <3>1. PICK d \in Definitions :
             \/ Observe(d) \/ ObserveOther(d) \/ Sync(d) \/ Delete(d)
             \/ EditReferences(d) \/ RequestDeletion(d) \/ GrantRemoved(d)
      BY <2>2 DEF Next
    <3>2. Accounted(d)' /\ Alone(d)
      BY <1>1, <3>1, ObserveAccounts, SyncAccounts, DeleteAccounts, OthersAccount
    <3> QED
      BY <1>1, <3>2, OneMoves DEF Alone
  <2> QED
    BY <1>1, <2>1, <2>2
<1> QED
  BY InitAccounts, TypeCorrect, <1>1, PTL DEF Spec

(***************************************************************************)
(* The theorems.                                                           *)
(***************************************************************************)

\* No grant of a definition is forgotten but where a call failed, for any number of definitions,
\* namespaces, edits and failures (authsecretrbac.go).
THEOREM GrantsAreRemembered == Spec => []NoGrantIsForgotten
<1>1. ASSUME GrantInv, NEW d \in Definitions, NEW ns \in Namespaces, Granted(d, ns)
      PROVE  ns \in Known(d) \cup lost[d]
  <2>1. Accounted(d)
    BY <1>1 DEF GrantInv
  <2>2. Reach(d) \subseteq Known(d)
    BY <2>1 DEF Accounted, Shape, Reach, Known
  <2> QED
    BY <1>1, <2>1, <2>2 DEF Accounted, Traced
<1>2. GrantInv => NoGrantIsForgotten
  BY <1>1 DEF NoGrantIsForgotten
<1> QED
  BY AccountsHold, <1>2, PTL

\* A controller is not deployed before it can read what the sync collected for it, but for grants that
\* somebody removed since, for any number of definitions, namespaces and failed calls (restdefinition.go).
THEOREM GrantsPrecedeDeployment == Spec => DeployedWithItsGrants
<1>1. ASSUME GrantInv, [Next]_vars, NEW d \in Definitions, ~deployed[d], deployed'[d],
             NEW ns \in Namespaces \ taken[d]
      PROVE  SecretsIn(held[d], ns) \subseteq Access(d, ns)
  <2>1. PICK e \in Definitions : Deploy(e) \/ (Undeploy(e) /\ deployed' # deployed)
    BY <1>1 DEF Next, vars, Observe, ObserveOther, Sync, Delete, EditReferences, RequestDeletion,
                GrantRemoved, CollectAuthSecretRefs, Provision, ProvisionFails, Provisioned, Retract,
                RetractFails, SweepLegacy, Persist, PassFails, PassFailsRecorded, TearDown, TearDownFails, TornDown, status
  <2>2. Deploy(d)
    BY <1>1, <2>1 DEF Deploy, Undeploy, GrantInv, TypeOK
  <2>3. Accounted(d) /\ pc[d] = "deploy"
    BY <1>1, <2>2 DEF GrantInv, Deploy
  <2>4. CASE ns \in NamespacesOf(held[d])
    <3>1. ns \in bound[d] /\ role[d][ns] = SecretsIn(held[d], ns)
      BY <1>1, <2>3, <2>4 DEF Accounted, Served
    <3>2. role[d][ns] # NoRole
      BY <1>1, <3>1, NamesThereAre DEF GrantInv, TypeOK
    <3> QED
      BY <3>1, <3>2 DEF Access
  <2>5. CASE ns \notin NamespacesOf(held[d])
    BY <2>5 DEF NamespacesOf, SecretsIn
  <2> QED
    BY <2>4, <2>5
<1>2. GrantInv /\ [Next]_vars =>
         [\A d \in Definitions : ~deployed[d] /\ deployed'[d] =>
             \A ns \in Namespaces \ taken[d] : SecretsIn(held[d], ns) \subseteq Access(d, ns)]_vars
  BY <1>1
<1> QED
  BY AccountsHold, <1>2, PTL DEF Spec, DeployedWithItsGrants
=============================================================================
