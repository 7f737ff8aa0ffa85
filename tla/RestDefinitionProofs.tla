------------------------ MODULE RestDefinitionProofs ------------------------
(* What the passes of the oasgen-provider never do, for any number of        *)
(* definitions, documents, versions and instances.                           *)
EXTENDS RestDefinition, TLAPS

-----------------------------------------------------------------------------
(* The inductive invariant.                                                *)

\* A pass that makes something knows the content it makes it from, and a definition
\* that has a pass is there.
PassKnows ==
    \A d \in Defs :
        /\ pc[d] \in {"apply", "configure", "note", "inspect", "retire", "deploy", "record"}
              => work[d].doc \in Docs
        /\ pc[d] # "idle" => phase[d] # "absent"

\* Between the count and what it allows, only late instances come.
CountHolds ==
    \A d \in Defs :
        /\ pc[d] = "drop" /\ ~work[d].blind => Live \subseteq late[d]
        /\ pc[d] = "retire" => \A v \in work[d].prune : Labelled(v) \subseteq late[d]

\* A definition owns the CRD it applied something to, and nobody else replaced it.
Owns ==
    \A d \in Defs :
        applied[d] # None =>
            /\ crd.owner = d /\ phase[d] # "absent"
            /\ crd.schema[VersionOf[applied[d]]] \in {None, applied[d]}

\* The digest is recorded with the hash of the document it belongs to.
DigestHasHash ==
    \A d \in Defs :
        status[d].digest # None =>
            /\ status[d].hash \in Docs /\ status[d].version # None
            /\ status[d].digest = VersionOf[status[d].hash]

\* A definition that no pass observed has made nothing, and cannot linger.
Unobserved ==
    \A d \in Defs :
        status[d].ready = "none" =>
            /\ pc[d] = "idle" /\ phase[d] # "deleting"
            /\ applied[d] = None /\ status[d].hash = None

IInv == TypeOK /\ PassKnows /\ CountHolds /\ Owns /\ DigestHasHash /\ Unobserved

-----------------------------------------------------------------------------

\* The initial states satisfy it.
LEMMA InitType == Init => IInv
<1> USE DocsAssumption, NamesAssumption, BoundsAssumption
<1> SUFFICES ASSUME Init PROVE IInv OBVIOUS
<1>1. TypeOK
  BY DEF Init, TypeOK, StatusType, CrdType, WorkType, Blank, NoWork, NoSchema, Absent,
         ServedSet, Served
<1>2. PassKnows /\ CountHolds /\ Owns /\ DigestHasHash /\ Unobserved
  BY DEF Init, PassKnows, CountHolds, Owns, DigestHasHash, Unobserved, Blank
<1> QED BY <1>1, <1>2 DEF IInv

\* Writing one field of a status, or one of what a pass remembers, keeps the type.
LEMMA ReadyType ==
    ASSUME status \in [Defs -> StatusType], NEW d \in Defs,
           NEW r \in {"none", "Creating", "Unavailable", "Available"}, Ready(d, r)
    PROVE  status' \in [Defs -> StatusType]
<1>1. [status[d] EXCEPT !.ready = r] \in StatusType
  BY DEF StatusType
<1> QED BY <1>1 DEF Ready

LEMMA NoteType ==
    ASSUME NEW s \in StatusType, NEW v \in Versions
    PROVE  [s EXCEPT !.version = v, !.ready = "Creating"] \in StatusType
BY DEF StatusType

LEMMA PruneType ==
    ASSUME NEW w \in WorkType, NEW S \in SUBSET Versions
    PROVE  [w EXCEPT !.prune = S] \in WorkType
BY DEF WorkType

LEMMA BlindType ==
    ASSUME NEW w \in WorkType, NEW b \in BOOLEAN
    PROVE  [w EXCEPT !.blind = b] \in WorkType
BY DEF WorkType

\* Trimming storedVersions changes nothing else.
LEMMA TrimType ==
    ASSUME NEW c \in CrdType, NEW S
    PROVE  /\ [c EXCEPT !.stored = c.stored \ S] \in CrdType
           /\ [c EXCEPT !.stored = c.stored \ S].stored = c.stored \ S
           /\ [c EXCEPT !.stored = c.stored \ S].schema = c.schema
           /\ [c EXCEPT !.stored = c.stored \ S].owner = c.owner
BY DEF CrdType

\* What is left of a version when some are taken away.
LEMMA WithoutKeeps ==
    ASSUME NEW S, NEW v \in Versions
    PROVE  Without(S)[v] = crd.schema[v] \/ (Without(S)[v] = None /\ v \in S)
<1>1. v \notin S => Without(S)[v] = crd.schema[v]
  BY DEF Without
<1>2. v \in S => Without(S)[v] = None
  BY DEF Without
<1> QED BY <1>1, <1>2

\* What Retire leaves of the CRD.
LEMMA RetireCrd ==
    ASSUME TypeOK, NEW d \in Defs, Retire(d)
    PROVE  /\ crd' \in CrdType /\ crd'.owner = crd.owner
           /\ crd'.stored = crd.stored \ work[d].prune
           /\ \A v \in Versions :
                 crd'.schema[v] = crd.schema[v]
                   \/ (crd'.schema[v] = None /\ v \in work[d].prune)
<1>1. crd \in CrdType
  BY DEF TypeOK
<1>2. Without(work[d].prune) \in [Versions -> Docs \cup {None}]
  BY <1>1 DEF Without, CrdType
<1>3. \A v \in Versions :
         Without(work[d].prune)[v] = crd.schema[v]
           \/ (Without(work[d].prune)[v] = None /\ v \in work[d].prune)
  BY WithoutKeeps
<1>4. CASE crd' = [crd EXCEPT !.stored = crd.stored \ work[d].prune, !.schema = Without(work[d].prune)]
  <2>1. /\ crd' \in CrdType /\ crd'.stored = crd.stored \ work[d].prune
        /\ crd'.schema = Without(work[d].prune) /\ crd'.owner = crd.owner
    BY <1>1, <1>2, <1>4 DEF CrdType
  <2> QED BY <2>1, <1>3
<1>5. CASE crd' = [crd EXCEPT !.stored = crd.stored \ work[d].prune]
  <2>1. /\ crd' \in CrdType /\ crd'.stored = crd.stored \ work[d].prune
        /\ crd'.schema = crd.schema /\ crd'.owner = crd.owner
    BY <1>1, <1>5, TrimType, Zenon
  <2> QED BY <2>1
<1> QED BY <1>4, <1>5 DEF Retire

\* An idle pass remembers nothing.
LEMMA NoWorkType == NoWork \in WorkType
BY DEF NoWork, WorkType

\* A step that leaves the CRD alone keeps its type.
LEMMA CrdKept ==
    ASSUME crd \in CrdType, crd.stored \subseteq ServedSet, UNCHANGED crd
    PROVE  crd' \in CrdType /\ crd'.stored \subseteq ServedSet'
BY DEF ServedSet, Served

\* A step of a pass keeps the types.
LEMMA PassType ==
    ASSUME TypeOK, PassKnows, NEW d \in Defs, Pass(d)
    PROVE  TypeOK'
<1> USE DocsAssumption, NamesAssumption, BoundsAssumption
<1> USE DEF objects, End, Overlook, Goto, Remember, At, Ready, Fault
<1>1. CASE Observe(d)
  <2>1. status' \in [Defs -> StatusType]
    BY <1>1, ReadyType DEF Observe, TypeOK
  <2>2. pc' \in [Defs -> {"idle", "claim", "weigh", "create", "update", "apply", "configure",
                         "note", "inspect", "retire", "deploy", "record",
                         "count", "drop", "undeploy"}]
    BY <1>1 DEF Observe, TypeOK
  <2>3. faults' \in 0 .. MaxFaults
    BY <1>1 DEF Observe, TypeOK
  <2> QED BY <1>1, <2>1, <2>2, <2>3, CrdKept DEF Observe, TypeOK
<1>2. CASE Backfill(d)
  BY <1>2 DEF Backfill, Claim, Stamped, Arrive, Arrivals, ObservedVersion, TypeOK, StatusType, ServedSet, Served
<1>3. CASE Weigh(d)
  <2>1. status' \in [Defs -> StatusType]
    BY <1>3, ReadyType DEF Weigh, TypeOK
  <2> QED BY <1>3, <2>1, CrdKept DEF Weigh, TypeOK
<1>4. CASE Conclude(d)
  <2>1. status' \in [Defs -> StatusType]
    BY <1>4, ReadyType DEF Conclude, TypeOK
  <2> QED BY <1>4, <2>1, NoWorkType, CrdKept DEF Conclude, Hold, TypeOK
<1>5. CASE Create(d)
  BY <1>5 DEF Create, TypeOK, WorkType, NoWork, ServedSet, Served
<1>6. CASE Update(d)
  BY <1>6 DEF Update, TypeOK, WorkType, NoWork, ServedSet, Served
<1>7. CASE Refuse(d)
  BY <1>7 DEF Refuse, TypeOK, WorkType, NoWork, ServedSet, Served
<1>8. CASE Apply(d)
  BY <1>8 DEF Apply, PassKnows, Generated, TheVersion, TypeOK, CrdType, WorkType, ServedSet, Served
<1>9. CASE Configure(d)
  BY <1>9 DEF Configure, Generated, TypeOK, WorkType, ServedSet, Served
<1>10. CASE Note(d)
  <2>1. [status[d] EXCEPT !.version = TheVersion(d), !.ready = "Creating"] \in StatusType
    <3>1. TheVersion(d) \in Versions
      BY <1>10 DEF Note, PassKnows, TheVersion
    <3>2. status[d] \in StatusType
      BY DEF TypeOK
    <3> QED BY <3>1, <3>2, NoteType
  <2>2. status' \in [Defs -> StatusType]
    BY <1>10, <2>1, Zenon DEF Note, TypeOK
  <2> QED BY <1>10, <2>2, NoWorkType, CrdKept DEF Note, TypeOK
<1>11. CASE Inspect(d)
  <2>1. Prunable(d, TheVersion(d)) \subseteq Versions
    BY DEF Prunable, ServedSet
  <2>2. [work[d] EXCEPT !.prune = Prunable(d, TheVersion(d))] \in WorkType
    <3>1. work[d] \in WorkType
      BY DEF TypeOK
    <3> QED BY <2>1, <3>1, PruneType, Zenon
  <2> QED BY <1>11, <2>2, CrdKept DEF Inspect, TypeOK
<1>12. CASE Retire(d)
  <2>2. crd' \in CrdType
    BY <1>12, RetireCrd
  <2>3. ASSUME NEW v \in crd'.stored PROVE v \in ServedSet'
    BY <1>12, <2>3, RetireCrd DEF TypeOK, ServedSet, Served
  <2>4. faults' \in 0 .. MaxFaults
    BY <1>12 DEF Retire, TypeOK
  <2> QED BY <1>12, <2>2, <2>3, <2>4 DEF Retire, TypeOK
<1>13. CASE Deploy(d)
  BY <1>13 DEF Deploy, PassKnows, Claim, Stamped, Arrive, Arrivals, TheVersion, Without, TypeOK, CrdType, ServedSet, Served
<1>14. CASE Record(d)
  BY <1>14 DEF Record, Recorded, PassKnows, TheVersion, TypeOK, StatusType, WorkType, NoWork, ServedSet, Served
<1>15. CASE ObserveDeleted(d)
  BY <1>15 DEF ObserveDeleted, Hold, TypeOK, WorkType, NoWork, ServedSet, Served
<1>16. CASE Count(d)
  <2>1. [work[d] EXCEPT !.blind = ~Served(ObservedVersion(d))] \in WorkType
    <3>1. work[d] \in WorkType
      BY DEF TypeOK
    <3>2. (~Served(ObservedVersion(d))) \in BOOLEAN
      BY Zenon
    <3> QED BY <3>1, <3>2, BlindType, Zenon
  <2> QED BY <1>16, <2>1, CrdKept DEF Count, TypeOK
<1>17. CASE RefuseToDrop(d)
  BY <1>17 DEF RefuseToDrop, TypeOK, WorkType, NoWork, ServedSet, Served
<1>18. CASE Drop(d)
  <2>1. crd' \in CrdType /\ crd'.stored \subseteq ServedSet'
    BY <1>18 DEF Drop, Absent, NoSchema, CrdType
  <2>2. inst' \in [Instances -> Versions \cup {Bare, None}]
    BY <1>18 DEF Drop
  <2>3. applied' \in [Defs -> Docs \cup {None}]
    BY <1>18 DEF Drop
  <2> QED BY <1>18, <2>1, <2>2, <2>3, NoWorkType DEF Drop, TypeOK
<1>19. CASE Undeploy(d)
  BY <1>19 DEF Undeploy, Blank, TypeOK, StatusType, WorkType, NoWork, ServedSet, Served
<1>20. CASE Abandon(d)
  BY <1>20 DEF Abandon, TypeOK, WorkType, NoWork, ServedSet, Served
<1> QED
  BY <1>1, <1>2, <1>3, <1>4, <1>5, <1>6, <1>7, <1>8, <1>9, <1>10, <1>11, <1>12, <1>13,
     <1>14, <1>15, <1>16, <1>17, <1>18, <1>19, <1>20 DEF Pass

\* Users and cluster keep the types.
LEMMA OthersType ==
    ASSUME TypeOK, Users \/ Cluster
    PROVE  TypeOK'
<1> USE DocsAssumption, NamesAssumption, BoundsAssumption DEF objects, Fault, Edit
<1>1. ASSUME NEW d \in Defs, CreateDefinition(d) PROVE TypeOK'
  BY <1>1, CrdKept DEF CreateDefinition, TypeOK
<1>2. ASSUME NEW d \in Defs, DeleteDefinition(d) PROVE TypeOK'
  BY <1>2, CrdKept DEF DeleteDefinition, TypeOK
<1>3. ASSUME NEW d \in Defs, EditDocument(d) PROVE TypeOK'
  BY <1>3, CrdKept DEF EditDocument, TypeOK
<1>4. ASSUME NEW i \in Instances, WriteInstance(i) PROVE TypeOK'
  BY <1>4, CrdKept DEF WriteInstance, Arrive, Arrivals, ServedSet, TypeOK
<1>5. ASSUME NEW i \in Instances, WriteUnlabelled(i) PROVE TypeOK'
  BY <1>5, CrdKept DEF WriteUnlabelled, Arrive, Arrivals, TypeOK
<1>6. ASSUME NEW i \in Instances, DeleteInstance(i) PROVE TypeOK'
  BY <1>6, CrdKept DEF DeleteInstance, TypeOK
<1>7. ASSUME NEW d \in Defs, RollOut(d) PROVE TypeOK'
  BY <1>7, CrdKept DEF RollOut, TypeOK
<1>8. ASSUME NEW d \in Defs, LoseController(d) PROVE TypeOK'
  BY <1>8, CrdKept DEF LoseController, TypeOK
<1> QED BY <1>1, <1>2, <1>3, <1>4, <1>5, <1>6, <1>7, <1>8 DEF Users, Cluster

\* A step of a pass keeps what passes know.
LEMMA PassKnowsKept ==
    ASSUME TypeOK, PassKnows, NEW d \in Defs, Pass(d)
    PROVE  PassKnows'
<1> USE DEF objects, Goto, Remember, At, PassKnows, TypeOK, WorkType
<1>1. CASE End(d) /\ UNCHANGED phase
  BY <1>1 DEF End
<1>2. CASE Create(d) \/ Update(d)
  <2>1. work'[d].doc \in Docs
    <3>1. \/ work'[d] = [NoWork EXCEPT !.doc = doc[d], !.verb = "create"]
          \/ work'[d] = [NoWork EXCEPT !.doc = doc[d], !.verb = "update"]
      BY <1>2 DEF Create, Update
    <3>2. doc[d] \in Docs
      OBVIOUS
    <3> QED BY <3>1, <3>2 DEF NoWork
  <2>2. \A e \in Defs \ {d} : work'[e] = work[e] /\ pc'[e] = pc[e]
    BY <1>2 DEF Create, Update
  <2>3. phase' = phase
    BY <1>2 DEF Create, Update
  <2>4. phase[d] # "absent"
    BY <1>2 DEF Create, Update
  <2> QED BY <2>1, <2>2, <2>3, <2>4
<1>3. CASE Apply(d) \/ Configure(d)
  BY <1>3 DEF Apply, Configure, Generated
<1>4. CASE Inspect(d)
  BY <1>4 DEF Inspect
<1>5. CASE Observe(d) \/ Backfill(d) \/ Weigh(d) \/ Retire(d) \/ Deploy(d) \/ ObserveDeleted(d) \/ Count(d)
  BY <1>5 DEF Observe, Backfill, Weigh, Retire, Deploy, ObserveDeleted, Count
<1>6. CASE Drop(d) /\ Goto(d, "undeploy") /\ UNCHANGED <<work, late>>
  BY <1>6 DEF Drop
<1>7. CASE Undeploy(d)
  BY <1>7 DEF Undeploy, End
<1> QED
  BY <1>1, <1>2, <1>3, <1>4, <1>5, <1>6, <1>7
  DEF Pass, Conclude, Refuse, Note, Record, RefuseToDrop, Drop, Abandon

\* What was counted still holds, but for late instances.
LEMMA CountHoldsWhile ==
    ASSUME TypeOK, CountHolds, NEW e \in Defs,
           pc'[e] = pc[e], work'[e] = work[e],
           \/ inst' = inst /\ late' [e] = late[e]
           \/ inst' \in [Instances -> Versions \cup {Bare, None}] /\ Arrive
           \/ (\A i \in Instances : inst'[i] \in {None, inst[i]}) /\ late'[e] = late[e]
    PROVE  /\ (pc'[e] = "drop" /\ ~work'[e].blind) => Live' \subseteq late'[e]
           /\ pc'[e] = "retire" => \A v \in work'[e].prune : Labelled(v)' \subseteq late'[e]
<1> USE NamesAssumption DEF CountHolds, TypeOK, WorkType
<1>1. CASE inst' = inst /\ late' [e] = late[e]
  BY <1>1 DEF Live, Labelled
<1>2. CASE Arrive
  <2>1. Live' \subseteq Live \cup Arrivals
    BY DEF Live, Arrivals
  <2>2. \A v \in Versions : Labelled(v)' \subseteq Labelled(v) \cup Arrivals
    BY DEF Labelled, Arrivals
  <2>3. pc[e] \in {"retire", "drop"} => late'[e] = late[e] \cup Arrivals
    BY <1>2 DEF Arrive
  <2> QED BY <2>1, <2>2, <2>3
<1>3. CASE (\A i \in Instances : inst'[i] \in {None, inst[i]}) /\ late'[e] = late[e]
  <2>1. Live' \subseteq Live
    BY <1>3 DEF Live
  <2>2. \A v \in Versions : Labelled(v)' \subseteq Labelled(v)
    BY <1>3 DEF Labelled
  <2> QED BY <1>3, <2>1, <2>2
<1> QED BY <1>1, <1>2, <1>3

\* A step of a pass keeps what was counted.
LEMMA CountHoldsKept ==
    ASSUME TypeOK, TypeOK', CountHolds, NEW d \in Defs, Pass(d)
    PROVE  CountHolds'
<1> USE NamesAssumption DEF objects, Goto, Remember, At, Ready, End
<1>1. ASSUME NEW e \in Defs \ {d}
      PROVE  /\ (pc'[e] = "drop" /\ ~work'[e].blind) => Live' \subseteq late'[e]
             /\ pc'[e] = "retire" => \A v \in work'[e].prune : Labelled(v)' \subseteq late'[e]
  <2>1. pc'[e] = pc[e] /\ work'[e] = work[e]
    BY DEF Pass, TypeOK, Observe, Backfill, Weigh, Conclude, Create, Update, Refuse, Apply, Configure,
      Note, Inspect, Retire, Deploy, Record, ObserveDeleted, Count, RefuseToDrop, Drop,
      Undeploy, Abandon
  <2>2. CASE Backfill(d) \/ Deploy(d)
    <3>1. Arrive
      BY <2>2 DEF Backfill, Deploy, Claim
    <3> QED BY <2>1, <3>1, CountHoldsWhile DEF TypeOK
  <2>3. CASE Drop(d)
    <3>1. \A i \in Instances : inst'[i] \in {None, inst[i]}
      BY <2>3 DEF Drop
    <3>2. late'[e] = late[e]
      BY <2>3 DEF Drop, TypeOK
    <3> QED BY <2>1, <3>1, <3>2, CountHoldsWhile
  <2>4. CASE ~(Backfill(d) \/ Deploy(d) \/ Drop(d))
    <3>1. inst' = inst /\ late'[e] = late[e]
      BY <2>4 DEF Pass, TypeOK, Observe, Weigh, Conclude, Create, Update, Refuse, Apply,
         Configure, Note, Inspect, Retire, Record, ObserveDeleted, Count, RefuseToDrop,
         Undeploy, Abandon
    <3> QED BY <2>1, <3>1, CountHoldsWhile
  <2> QED BY <2>2, <2>3, <2>4
<1>2. CASE Count(d)
  <2>1. (pc'[d] = "drop" /\ ~work'[d].blind) => Served(ObservedVersion(d))
    BY <1>2 DEF Count, TypeOK, WorkType
  <2>2. Served(ObservedVersion(d)) => Live' = {}
    BY <1>2 DEF Count, Seen, Live
  <2>3. pc'[d] = "drop"
    BY <1>2 DEF Count, TypeOK
  <2> QED BY <1>1, <2>1, <2>2, <2>3 DEF CountHolds
<1>3. CASE Inspect(d)
  <2>1. pc'[d] \in {"deploy", "retire"}
    BY <1>3 DEF Inspect, TypeOK
  <2>2. work'[d].prune = Prunable(d, TheVersion(d))
    BY <1>3 DEF Inspect, TypeOK, WorkType
  <2>3. \A v \in work'[d].prune : Labelled(v)' = {}
    BY <1>3, <2>2 DEF Inspect, Prunable, Labelled
  <2> QED BY <1>1, <2>1, <2>3 DEF CountHolds
<1>4. CASE ~(Count(d) \/ Inspect(d))
  <2>1. pc'[d] \notin {"drop", "retire"}
    BY <1>4 DEF Pass, TypeOK, Generated, Observe, Backfill, Weigh, Conclude, Create, Update,
       Refuse, Apply, Configure, Note, Retire, Deploy, Record, ObserveDeleted, RefuseToDrop,
       Drop, Undeploy, Abandon
  <2> QED BY <1>1, <2>1 DEF CountHolds
<1> QED BY <1>2, <1>3, <1>4

\* A step of a pass keeps who owns the CRD.
LEMMA OwnsKept ==
    ASSUME TypeOK, PassKnows, Owns, NEW d \in Defs, Pass(d)
    PROVE  Owns'
<1> USE DocsAssumption, NamesAssumption DEF objects, Goto, Remember, At, Ready, End
<1>1. CASE Apply(d)
  <2>1. applied'[d] = work[d].doc /\ work[d].doc \in Docs /\ TheVersion(d) \in Versions
    BY <1>1 DEF Apply, TypeOK, PassKnows, TheVersion
  <2>2. crd'.owner = d /\ crd'.schema[TheVersion(d)] = work[d].doc
    BY <1>1, <2>1 DEF Apply, TypeOK, CrdType
  <2>3. phase'[d] # "absent"
    BY <1>1 DEF Apply, PassKnows
  <2>4. ASSUME NEW e \in Defs \ {d} PROVE applied'[e] = None
    <3>1. applied[e] # None => crd.owner = e /\ phase[e] # "absent"
      BY DEF Owns
    <3>2. applied[e] = None
      BY <1>1, <3>1 DEF Apply, MayOwn
    <3> QED BY <1>1, <3>2 DEF Apply, TypeOK
  <2> QED BY <2>1, <2>2, <2>3, <2>4 DEF Owns, TheVersion
<1>2. CASE Retire(d)
  <2>1. UNCHANGED <<applied, phase>>
    BY <1>2 DEF Retire
  <2>2. \A e \in Defs : applied[e] # None => VersionOf[applied[e]] \in Versions
    BY DEF TypeOK
  <2> QED BY <1>2, <2>1, <2>2, RetireCrd DEF Owns
<1>3. CASE Deploy(d)
  <2>1. UNCHANGED <<applied, phase>>
    BY <1>3 DEF Deploy
  <2>2. \A e \in Defs : applied[e] # None => VersionOf[applied[e]] \in Versions
    BY DEF TypeOK
  <2>3. /\ crd'.owner = crd.owner
        /\ \A v \in Versions : crd'.schema[v] \in {None, crd.schema[v]}
    BY <1>3 DEF Deploy, Without, TypeOK, CrdType
  <2> QED BY <2>1, <2>2, <2>3 DEF Owns
<1>4. CASE Drop(d)
  BY <1>4 DEF Drop, Owns
<1>5. CASE Undeploy(d)
  BY <1>5 DEF Undeploy, Owns, TypeOK
<1>6. CASE ~(Apply(d) \/ Retire(d) \/ Deploy(d) \/ Drop(d) \/ Undeploy(d))
  <2>1. UNCHANGED <<applied, phase, crd>>
    BY <1>6 DEF Pass, Observe, Backfill, Weigh, Conclude, Create, Update, Refuse, Configure,
       Note, Inspect, Record, ObserveDeleted, Count, RefuseToDrop, Abandon
  <2> QED BY <2>1 DEF Owns
<1> QED BY <1>1, <1>2, <1>3, <1>4, <1>5, <1>6

\* A step of a pass keeps digest and hash together.
LEMMA DigestKept ==
    ASSUME TypeOK, PassKnows, DigestHasHash, NEW d \in Defs, Pass(d)
    PROVE  DigestHasHash'
<1> USE DocsAssumption, NamesAssumption DEF objects, Goto, Remember, At, Ready, End
<1>1. CASE Note(d)
  <2>1. work[d].doc \in Docs
    BY <1>1 DEF Note, PassKnows
  <2>2. TheVersion(d) \in Versions
    BY <2>1 DEF TheVersion
  <2>3. /\ status'[d].digest = status[d].digest /\ status'[d].hash = status[d].hash
        /\ status'[d].version = TheVersion(d)
        /\ \A e \in Defs \ {d} : status'[e] = status[e]
    BY <1>1 DEF Note, TypeOK, StatusType
  <2> QED BY <2>2, <2>3 DEF DigestHasHash
<1>2. CASE Record(d)
  <2>1. work[d].doc \in Docs
    BY <1>2 DEF Record, PassKnows
  <2>2. TheVersion(d) \in Versions
    BY <2>1 DEF TheVersion
  <2>3. /\ status'[d] = Recorded(d)
        /\ \A e \in Defs \ {d} : status'[e] = status[e]
    BY <1>2 DEF Record, TypeOK
  <2> QED BY <2>1, <2>2, <2>3 DEF DigestHasHash, Recorded, TheVersion
<1>3. CASE Undeploy(d)
  <2>1. status'[d].digest = None /\ \A e \in Defs \ {d} : status'[e] = status[e]
    BY <1>3 DEF Undeploy, TypeOK, Blank
  <2> QED BY <2>1 DEF DigestHasHash
<1>4. CASE ~(Note(d) \/ Record(d) \/ Undeploy(d))
  <2>1. \/ UNCHANGED status
        \/ \E a \in {"none", "Creating", "Unavailable", "Available"} : Ready(d, a)
    BY <1>4 DEF Pass, Observe, Backfill, Weigh, Conclude, Create, Update, Refuse, Apply,
       Configure, Inspect, Retire, Deploy, ObserveDeleted, Count, RefuseToDrop, Drop, Abandon
  <2>2. \A e \in Defs : /\ status'[e].digest = status[e].digest
                        /\ status'[e].hash = status[e].hash
                        /\ status'[e].version = status[e].version
    <3>1. ASSUME NEW a, Ready(d, a), NEW e \in Defs
          PROVE  /\ status'[e].digest = status[e].digest
                 /\ status'[e].hash = status[e].hash
                 /\ status'[e].version = status[e].version
      <4>1. status[d] \in StatusType
        BY DEF TypeOK
      <4>2. status'[e] = IF e = d THEN [status[d] EXCEPT !.ready = a] ELSE status[e]
        BY <3>1 DEF TypeOK
      <4> QED BY <4>1, <4>2 DEF StatusType
    <3> QED BY <2>1, <3>1
  <2> QED BY <2>2 DEF DigestHasHash
<1> QED BY <1>1, <1>2, <1>3, <1>4

\* A step of a pass leaves what no pass observed alone.
LEMMA UnobservedKept ==
    ASSUME TypeOK, Unobserved, NEW d \in Defs, Pass(d)
    PROVE  Unobserved'
<1> USE DocsAssumption, NamesAssumption DEF objects, Goto, Remember, At, End
<1>1. \A e \in Defs \ {d} : /\ status'[e] = status[e] /\ pc'[e] = pc[e] /\ phase'[e] = phase[e]
                          /\ applied'[e] \in {None, applied[e]}
  BY DEF Pass, TypeOK, Ready, Observe, Backfill, Weigh, Conclude, Create, Update, Refuse,
     Apply, Configure, Note, Inspect, Retire, Deploy, Record, ObserveDeleted, Count,
     RefuseToDrop, Drop, Undeploy, Abandon
<1>2. CASE Undeploy(d)
  BY <1>1, <1>2 DEF Undeploy, Unobserved, TypeOK, Blank
<1>3. CASE ~Undeploy(d)
  <2>1. status[d].ready # "none" \/ (Observe(d) /\ status[d].hash = None)
    <3>1. CASE Observe(d)
      BY <3>1 DEF Unobserved
    <3>2. CASE ObserveDeleted(d)
      BY <3>2 DEF ObserveDeleted, Unobserved
    <3>3. CASE ~(Observe(d) \/ ObserveDeleted(d))
      <4>1. pc[d] # "idle"
        BY <1>3, <3>3
        DEF Pass, Backfill, Weigh, Conclude, Create, Update, Refuse, Apply, Configure, Note,
            Inspect, Retire, Deploy, Record, Count, RefuseToDrop, Drop, Abandon
      <4> QED BY <4>1 DEF Unobserved
    <3> QED BY <3>1, <3>2, <3>3
  <2>2. status'[d].ready # "none"
    <3>1. CASE Note(d) \/ Record(d)
      <4>1. status'[d].ready = "Creating"
        BY <3>1 DEF Note, Record, Recorded, TypeOK, StatusType
      <4> QED BY <4>1
    <3>2. CASE \E a \in {"Creating", "Unavailable", "Available"} : Ready(d, a)
      BY <3>2 DEF Ready, TypeOK, StatusType
    <3>3. CASE UNCHANGED status /\ status[d].ready # "none"
      BY <3>3
    <3>4. CASE Observe(d) /\ status[d].hash = None /\ UNCHANGED status
      <4>1. Drifted(d)
        BY <3>4 DEF Drifted, TypeOK
      <4>2. \E a \in {"Creating", "Unavailable"} : Ready(d, a)
        BY <3>4, <4>1 DEF Observe, RolledOut
      <4> QED BY <4>2, <3>2
    <3> QED
      BY <1>3, <2>1, <3>1, <3>2, <3>3, <3>4
      DEF Pass, Observe, Backfill, Weigh, Conclude, Create, Update, Refuse, Apply, Configure,
          Inspect, Retire, Deploy, ObserveDeleted, Count, RefuseToDrop, Drop, Abandon
  <2> QED BY <1>1, <2>2 DEF Unobserved
<1> QED BY <1>2, <1>3

\* Users and cluster keep the rest of the invariant.
LEMMA OthersKeep ==
    ASSUME IInv, TypeOK', Users \/ Cluster
    PROVE  PassKnows' /\ CountHolds' /\ Owns' /\ DigestHasHash' /\ Unobserved'
<1> USE DEF IInv, objects, Edit, Fault
<1>1. UNCHANGED <<pc, work, applied, crd, status>>
  BY DEF Users, Cluster, CreateDefinition, DeleteDefinition, EditDocument, WriteInstance,
     WriteUnlabelled, DeleteInstance, RollOut, LoseController
<1>2. \A d \in Defs : phase[d] # "absent" /\ status[d].ready # "none" => phase'[d] # "absent"
  BY DEF Users, Cluster, CreateDefinition, DeleteDefinition, EditDocument, WriteInstance,
     WriteUnlabelled, DeleteInstance, RollOut, LoseController, TypeOK
<1>3. \/ UNCHANGED <<inst, late>>
      \/ Arrive
      \/ (\A i \in Instances : inst'[i] \in {None, inst[i]}) /\ late' = late
  BY DEF Users, Cluster, CreateDefinition, DeleteDefinition, EditDocument, WriteInstance,
     WriteUnlabelled, DeleteInstance, RollOut, LoseController, TypeOK
<1>4. CountHolds'
  BY <1>1, <1>3, CountHoldsWhile DEF CountHolds, TypeOK
<1>5. \A d \in Defs : phase'[d] = "deleting" => phase[d] = "deleting" \/ status[d].ready # "none"
  BY DEF Users, Cluster, CreateDefinition, DeleteDefinition, EditDocument, WriteInstance,
     WriteUnlabelled, DeleteInstance, RollOut, LoseController, TypeOK
<1> QED BY <1>1, <1>2, <1>4, <1>5 DEF PassKnows, Owns, DigestHasHash, Unobserved

\* The invariant holds in every reachable state.
LEMMA InductiveInvariant == Spec => []IInv
<1>1. ASSUME IInv, [Next]_vars PROVE IInv'
  <2>1. ASSUME NEW d \in Defs, Pass(d) PROVE IInv'
    BY <1>1, <2>1, PassType, PassKnowsKept, CountHoldsKept, OwnsKept, DigestKept,
       UnobservedKept DEF IInv
  <2>2. CASE Users \/ Cluster
    BY <1>1, <2>2, OthersType, OthersKeep DEF IInv
  <2>3. CASE UNCHANGED vars
    BY <1>1, <2>3
    DEF vars, IInv, TypeOK, ServedSet, Served, PassKnows, CountHolds, Live, Labelled, Owns,
        DigestHasHash, Unobserved
  <2> QED BY <1>1, <2>1, <2>2, <2>3 DEF Next
<1> QED BY <1>1, InitType, PTL DEF Spec

-----------------------------------------------------------------------------
(* The theorems.                                                           *)

\* Every variable keeps its type, and a version that may hold stored objects is served.
THEOREM TypeCorrect == Spec => []TypeOK
BY InductiveInvariant, PTL DEF IInv

\* Whatever the other definitions do between its count and its drop, a pass that could
\* count drops no instance that was there when it counted.
THEOREM DropsNoneItCounted == Spec => DropsNoneItSaw
<1>1. ASSUME IInv, [Next]_vars
      PROVE  [Dropped => Live \subseteq Missed
                          \/ \E d \in Defs : At(d, "drop") /\ work[d].blind]_vars
  <2> USE NamesAssumption DEF IInv, Dropped
  <2>1. SUFFICES ASSUME Next, crd.owner # None, crd'.owner = None
                 PROVE  Live \subseteq Missed \/ \E d \in Defs : At(d, "drop") /\ work[d].blind
    BY <1>1
  <2>2. ASSUME NEW d \in Defs, Pass(d), ~Drop(d) PROVE FALSE
    <3>1. CASE Apply(d)
      BY <2>1, <3>1 DEF Apply
    <3>2. CASE Retire(d)
      BY <1>1, <2>1, <3>2, RetireCrd
    <3>3. CASE Deploy(d)
      BY <1>1, <2>1, <3>3 DEF Deploy, TypeOK, CrdType
    <3>4. CASE ~(Apply(d) \/ Retire(d) \/ Deploy(d))
      <4>1. UNCHANGED crd
        BY <2>2, <3>4
        DEF objects, Pass, Observe, Backfill, Weigh, Conclude, Create, Update, Refuse,
            Configure, Note, Inspect, Record, ObserveDeleted, Count, RefuseToDrop, Undeploy,
            Abandon
      <4> QED BY <2>1, <4>1
    <3> QED BY <3>1, <3>2, <3>3, <3>4
  <2>3. ASSUME Users \/ Cluster PROVE FALSE
    BY <2>1, <2>3
    DEF Users, Cluster, CreateDefinition, DeleteDefinition, EditDocument, WriteInstance,
        WriteUnlabelled, DeleteInstance, RollOut, LoseController, objects
  <2>4. PICK d \in Defs : Drop(d)
    BY <2>1, <2>2, <2>3 DEF Next
  <2>5. pc[d] = "drop"
    BY <2>4 DEF Drop, At
  <2>6. ~work[d].blind => Live \subseteq late[d]
    BY <1>1, <2>5 DEF CountHolds
  <2>7. late[d] \subseteq Missed
    BY DEF Missed
  <2> QED BY <2>5, <2>6, <2>7 DEF At
<1> QED BY <1>1, InductiveInvariant, PTL DEF Spec, DropsNoneItSaw

\* A version of storedVersions goes only by a pass that counted the instances it labels,
\* and found none but those that came later.
THEOREM StoredVersionsStay == Spec => StoredVersionsInUseStay
<1>1. ASSUME IInv, [Next]_vars
      PROVE  [\A v \in crd.stored : Retired(v) => Labelled(v) \subseteq Missed]_vars
  <2> USE NamesAssumption DEF IInv, Retired, Served
  <2>1. SUFFICES ASSUME Next, NEW v \in crd.stored,
                        crd.schema[v] # None, crd'.owner # None, crd'.schema[v] = None
                 PROVE  Labelled(v) \subseteq Missed
    BY <1>1
  <2>2. v \in Versions
    BY <1>1 DEF TypeOK, ServedSet
  <2>3. ASSUME NEW d \in Defs, Pass(d), ~Retire(d) PROVE FALSE
    <3>1. CASE Apply(d)
      <4>1. work[d].doc \in Docs
        BY <1>1, <3>1 DEF Apply, PassKnows, At
      <4> QED BY <1>1, <2>1, <2>2, <3>1, <4>1 DEF Apply, TypeOK, CrdType
    <3>2. CASE Deploy(d)
      BY <1>1, <2>1, <2>2, <3>2 DEF Deploy, Without, TypeOK, CrdType
    <3>3. CASE Drop(d)
      BY <2>1, <3>3 DEF Drop, Absent
    <3>4. CASE ~(Apply(d) \/ Deploy(d) \/ Drop(d))
      <4>1. UNCHANGED crd
        BY <2>3, <3>4
        DEF objects, Pass, Observe, Backfill, Weigh, Conclude, Create, Update, Refuse,
            Configure, Note, Inspect, Record, ObserveDeleted, Count, RefuseToDrop, Undeploy,
            Abandon
      <4> QED BY <2>1, <4>1
    <3> QED BY <3>1, <3>2, <3>3, <3>4
  <2>4. ASSUME Users \/ Cluster PROVE FALSE
    BY <2>1, <2>4
    DEF Users, Cluster, CreateDefinition, DeleteDefinition, EditDocument, WriteInstance,
        WriteUnlabelled, DeleteInstance, RollOut, LoseController, objects
  <2>5. PICK d \in Defs : Retire(d)
    BY <2>1, <2>3, <2>4 DEF Next
  <2>6. v \in work[d].prune
    BY <1>1, <2>1, <2>2, <2>5, RetireCrd
  <2>7. Labelled(v) \subseteq late[d]
    BY <1>1, <2>5, <2>6 DEF CountHolds, Retire, At
  <2> QED BY <2>7 DEF Missed
<1> QED BY <1>1, InductiveInvariant, PTL DEF Spec, StoredVersionsInUseStay

\* A definition that becomes Available for the content it last applied has that content
\* served: another definition never replaced it, whatever the interleaving.
THEOREM AvailableMatches == Spec => AvailableForWhatItApplied
<1>1. ASSUME IInv, [Next]_vars
      PROVE  [\A d \in Defs :
                 (Announced(d) /\ applied[d] = status[d].hash)
                    => crd.schema[status[d].version] = status[d].hash]_vars
  <2> USE DocsAssumption, NamesAssumption DEF IInv
  <2>1. SUFFICES ASSUME Next, NEW d \in Defs,
                        status[d].ready # "Available", status'[d].ready = "Available",
                        applied[d] = status[d].hash
                 PROVE  crd.schema[status[d].version] = status[d].hash
    BY <1>1 DEF Announced
  <2>2. Conclude(d) /\ KindsServed(d)
    <3>1. ASSUME NEW e \in Defs, Pass(e), ~Conclude(e) PROVE FALSE
      <4>1. CASE Note(e) \/ Record(e) \/ Undeploy(e)
        <5>1. \A x \in Defs \ {e} : status'[x] = status[x]
          BY <1>1, <4>1 DEF Note, Record, Undeploy, TypeOK
        <5>2. CASE Note(e)
          <6>1. status[e] \in StatusType
            BY <1>1 DEF TypeOK
          <6>2. status'[e] = [status[e] EXCEPT !.version = TheVersion(e), !.ready = "Creating"]
            BY <1>1, <5>2 DEF Note, TypeOK
          <6> QED BY <2>1, <5>1, <6>1, <6>2 DEF StatusType
        <5>3. CASE Record(e)
          BY <1>1, <2>1, <5>1, <5>3 DEF Record, Recorded, TypeOK
        <5>4. CASE Undeploy(e)
          BY <1>1, <2>1, <5>1, <5>4 DEF Undeploy, Blank, TypeOK
        <5> QED BY <4>1, <5>2, <5>3, <5>4
      <4>2. CASE ~(Note(e) \/ Record(e) \/ Undeploy(e))
        <5>1. UNCHANGED status \/ \E r \in {"Creating", "Unavailable"} : Ready(e, r)
          BY <3>1, <4>2
          DEF objects, Pass, Observe, Backfill, Weigh, Create, Update, Refuse, Apply,
              Configure, Inspect, Retire, Deploy, ObserveDeleted, Count, RefuseToDrop, Drop,
              Abandon
        <5>2. ASSUME NEW r \in {"Creating", "Unavailable"}, Ready(e, r) PROVE FALSE
          <6>1. status[e] \in StatusType
            BY <1>1 DEF TypeOK
          <6>2. status'[d] = IF d = e THEN [status[e] EXCEPT !.ready = r] ELSE status[d]
            BY <1>1, <5>2 DEF Ready, TypeOK
          <6> QED BY <2>1, <6>1, <6>2 DEF StatusType
        <5> QED BY <2>1, <5>1, <5>2
      <4> QED BY <4>1, <4>2
    <3>2. ASSUME Users \/ Cluster PROVE FALSE
      BY <2>1, <3>2
      DEF Users, Cluster, CreateDefinition, DeleteDefinition, EditDocument, WriteInstance,
          WriteUnlabelled, DeleteInstance, RollOut, LoseController, objects
    <3>3. PICK e \in Defs : Conclude(e)
      BY <2>1, <3>1, <3>2 DEF Next
    <3>4. e = d /\ KindsServed(d)
      BY <1>1, <2>1, <3>3 DEF Conclude, Ready, TypeOK, StatusType
    <3> QED BY <3>3, <3>4
  <2>3. status[d].digest = ObservedVersion(d) /\ Served(ObservedVersion(d))
    BY <2>2 DEF Conclude, UpToDate, Redeployed, KindsServed
  <2>4. status[d].digest # None
    BY <1>1, <2>3 DEF ObservedVersion, TypeOK
  <2>5. /\ status[d].hash \in Docs /\ ObservedVersion(d) = status[d].version
        /\ status[d].version = VersionOf[status[d].hash]
    BY <1>1, <2>3, <2>4 DEF DigestHasHash, ObservedVersion
  <2>6. crd.schema[VersionOf[applied[d]]] \in {None, applied[d]}
    BY <1>1, <2>1, <2>5 DEF Owns
  <2> QED BY <2>1, <2>3, <2>5, <2>6 DEF Served
<1> QED BY <1>1, InductiveInvariant, PTL DEF Spec, AvailableForWhatItApplied
=============================================================================
