--------------------------- MODULE RdcUpdateProofs ---------------------------
(***************************************************************************)
(* Theorems of RdcUpdate for every set of specs and kinds, every limit of  *)
(* repeats, any number of edits and every selection of disturbances.       *)
(***************************************************************************)
EXTENDS RdcUpdate, TLAPS

USE KindsAssumption, BoundsAssumption, NoRoleAssumption, NoSignatureAssumption

\* A pass that has read the resource holds the outcome of a comparison.
HoldsVerdict == pc \in {"persist", "note", "clear", "status"} => verdict \in Verdicts
TypeInv == TypeOK /\ HoldsVerdict

\* The comparison is of values it is defined on.
LEMMA ComparedIsANode ==
    ASSUME TypeOK, resource # Absent
    PROVE  CompareExisting[<<Compared(held.spec.doc), resource>>] \in Verdicts
<1>1. held.spec \in Specs /\ held.spec.doc \in Nodes /\ held.spec.doc \in Wanted
  BY DEF TypeOK, Views, Wanted
<1>2. Compared(held.spec.doc) \in Nodes
  BY <1>1 DEF Compared, TypeOK
<1>3. resource \in Nodes
  BY DEF TypeOK
<1> QED
  BY <1>2, <1>3 DEF Verdicts

\* What is noted is a signature.
LEMMA NotedIsASignature ==
    ASSUME TypeOK, verdict \in Verdicts
    PROVE  DriftSignature \in Signatures
<1>1. verdict.at \in Places
  BY DEF Verdicts, Places
<1>2. held.gen \in Generations
  BY DEF TypeOK, Views
<1> QED
  BY <1>1, <1>2 DEF DriftSignature, Signatures

\* What a pass reads of the CR is a view of it.
LEMMA ViewIsTyped == TypeOK => View \in Views
BY DEF TypeOK, View, Views

\* The initial states are well typed.
LEMMA InitIsTyped == Init => TypeInv
<1> SUFFICES ASSUME Init PROVE TypeInv
  OBVIOUS
<1> USE DEF Init
<1>1. held \in Views /\ generation \in Generations
  BY DEF View, Views, Generations
<1>2. bound \in BOOLEAN /\ leaked \in BOOLEAN
  BY Zenon
<1>3. noted \in Signatures \cup {NoSignature} /\ (repeats = 0 <=> noted = NoSignature)
  OBVIOUS
<1>4. pc \in Steps /\ ready \in Readys /\ HoldsVerdict
  BY DEF Steps, Readys, HoldsVerdict
<1>5. granted \in {NoRole} \cup SUBSET Secrets /\ queue \subseteq {"Create", "Update"}
  OBVIOUS
<1>6. repeats \in 0 .. MaxDriftRepeats /\ sent \in Nat /\ faults \in 0 .. MaxFaults
  OBVIOUS
<1> QED
  BY <1>1, <1>2, <1>3, <1>4, <1>5, <1>6 DEF TypeInv, TypeOK

\* A pass that starts, goes on or ends holds a view of the CR.
LEMMA PassIsTyped ==
    ASSUME TypeOK, NEW step \in Steps, UNCHANGED <<spec, generation>>
    PROVE  /\ Holding(step) => pc' = step /\ held' \in Views /\ verdict' = Equal
           /\ Goto(step) => pc' = step /\ UNCHANGED <<held, verdict, copy>>
BY ViewIsTyped DEF Holding, Goto, View

\* Observe keeps the types.
LEMMA ObserveKeepsType ==
    ASSUME TypeInv, Observe PROVE TypeInv'
<1> USE DEF TypeInv, TypeOK, HoldsVerdict, At, Stale, Fault, StartPass, EndPass, WriteStatus, Steps, Readys,
            cr, grant, pass, history
<1>1. CASE StartObserve
  BY <1>1, PassIsTyped DEF StartObserve
<1>2. CASE OpenConflicts
  BY <1>2, PassIsTyped DEF OpenConflicts
<1>3. CASE ReadFound
  BY <1>3, ComparedIsANode DEF ReadFound
<1>4. CASE ReadAbsent
  BY <1>4, PassIsTyped DEF ReadAbsent
<1>5. CASE ObserveFails
  BY <1>5, PassIsTyped DEF ObserveFails
<1>6. CASE PersistObserved
  <2>1. CASE Stale
    BY <1>6, <2>1, PassIsTyped DEF PersistObserved
  <2>2. CASE ~Stale
    BY <1>6, <2>2, PassIsTyped DEF PersistObserved, Goto
  <2> QED
    BY <2>1, <2>2
<1>7. CASE NoteDrift
  <2>1. DriftSignature \in Signatures
    BY <1>7, NotedIsASignature DEF NoteDrift
  <2>2. DriftRepeats \in 0 .. MaxDriftRepeats /\ repeats' \in 1 .. MaxDriftRepeats
    BY <1>7 DEF NoteDrift, DriftRepeats
  <2>3. noted' \in Signatures /\ noted' # NoSignature
    BY <1>7, <2>1 DEF NoteDrift
  <2>4. sent' \in Nat
    BY <1>7 DEF NoteDrift
  <2> QED
    BY <1>7, <2>2, <2>3, <2>4 DEF NoteDrift
<1>8. CASE ClearDrift
  BY <1>8 DEF ClearDrift
<1>9. CASE Conclude
  <2>1. ready' \in Readys /\ queue' \subseteq {"Create", "Update"}
    <3>1. CASE verdict.as = "equal"
      BY <1>9, <3>1 DEF Conclude
    <3>2. CASE verdict.as = "error"
      BY <1>9, <3>2 DEF Conclude
    <3>3. CASE verdict.as = "differs"
      BY <1>9, <3>3 DEF Conclude
    <3> QED
      BY <1>9, <3>1, <3>2, <3>3 DEF Conclude
  <2>2. EndPass /\ UNCHANGED <<kind, phase, spec, generation, noted, repeats, grant, resource, history, faults>>
    BY <1>9 DEF Conclude
  <2> QED
    BY <2>1, <2>2, PassIsTyped
<1> QED
  BY <1>1, <1>2, <1>3, <1>4, <1>5, <1>6, <1>7, <1>8, <1>9 DEF Observe

\* The Role keeps the types.
LEMMA EnsureKeepsType ==
    ASSUME TypeInv, Ensure PROVE TypeInv'
<1> USE DEF TypeInv, TypeOK, HoldsVerdict, At, Fault, GrantSteps, CallAfter, Steps, Readys,
            cr, grant, pass, history
<1>0. held.spec.refs \in SUBSET Secrets
  BY DEF Views
<1>1. CASE GrantRole
  <2>1. bound' \in BOOLEAN /\ granted' \in {NoRole} \cup SUBSET Secrets
    BY <1>0, <1>1 DEF GrantRole
  <2> QED
    BY <1>1, <2>1, PassIsTyped DEF GrantRole, Goto
<1>2. CASE GrantFails
  <2>1. granted' \in {NoRole} \cup SUBSET Secrets
    BY <1>0, <1>2 DEF GrantFails
  <2>2. pc' \in {"destroy", "idle"} /\ held' \in Views /\ verdict' \in Verdicts \cup {Equal} /\ copy' \in {"fresh", "stale"}
    BY <1>2, PassIsTyped DEF GrantFails, Goto, EndPass
  <2> QED
    BY <1>2, <2>1, <2>2 DEF GrantFails
<1> QED
  BY <1>1, <1>2 DEF Ensure

\* Requests keep the types.
LEMMA SendKeepsType ==
    ASSUME TypeInv, Send PROVE TypeInv'
<1> USE DEF TypeInv, TypeOK, HoldsVerdict, At, Stale, Fault, StartPass, EndPass, WriteStatus, RequestFor,
            Steps, Readys, cr, grant, pass, history
<1>0. held.spec.doc \in Wanted
  BY DEF Views, Wanted
<1>1. CASE StartCreate
  BY <1>1, PassIsTyped DEF StartCreate
<1>2. CASE Post
  <2>1. resource' \in Api[kind].bodies
    BY <1>0, <1>2 DEF Post
  <2> QED
    BY <1>2, <2>1, PassIsTyped DEF Post
<1>3. CASE PostFails
  BY <1>3, PassIsTyped DEF PostFails
<1>4. CASE StartUpdate
  BY <1>4, PassIsTyped DEF StartUpdate
<1>5. CASE Put
  <2>1. resource' \in Api[kind].bodies
    BY <1>0, <1>5 DEF Put
  <2> QED
    BY <1>5, <2>1, PassIsTyped DEF Put
<1>6. CASE PutFails
  BY <1>6, PassIsTyped DEF PutFails
<1>7. CASE Record
  BY <1>7, PassIsTyped DEF Record
<1> QED
  BY <1>1, <1>2, <1>3, <1>4, <1>5, <1>6, <1>7 DEF Send

\* Deletion keeps the types.
LEMMA DeleteKeepsType ==
    ASSUME TypeInv, Delete PROVE TypeInv'
<1> USE DEF TypeInv, TypeOK, HoldsVerdict, At, Stale, Fault, StartPass, EndPass, RequestFor,
            Steps, Readys, cr, grant, pass, history
<1>1. CASE StartDelete
  BY <1>1, PassIsTyped DEF StartDelete
<1>2. CASE Destroy
  BY <1>2, PassIsTyped DEF Destroy
<1>3. CASE Teardown
  <2>1. bound' \in BOOLEAN
    BY <1>3 DEF Teardown
  <2> QED
    BY <1>3, <2>1, PassIsTyped DEF Teardown
<1>4. CASE TeardownFails
  <2>1. bound' \in BOOLEAN /\ leaked' \in BOOLEAN
    BY <1>4 DEF TeardownFails
  <2> QED
    BY <1>4, <2>1, PassIsTyped DEF TeardownFails
<1>5. CASE Release
  BY <1>5, PassIsTyped DEF Release
<1> QED
  BY <1>1, <1>2, <1>3, <1>4, <1>5 DEF Delete

\* Everybody else keeps the types.
LEMMA EnvironmentKeepsType ==
    ASSUME TypeInv, Environment PROVE TypeInv'
<1> USE DEF TypeInv, TypeOK, HoldsVerdict, Fault, EndPass, Steps, Readys, cr, grant, pass, history
<1>1. CASE UserEdits
  <2>1. generation' \in Generations
    BY <1>1 DEF UserEdits, Generations
  <2>2. View' \in Views
    BY <1>1, <2>1 DEF UserEdits, View, Views
  <2> QED
    BY <1>1, <2>1, <2>2 DEF UserEdits, Outdate
<1>2. CASE UserDeletes
  <2>1. View' \in Views
    BY <1>2, ViewIsTyped DEF UserDeletes, View
  <2> QED
    BY <1>2, <2>1 DEF UserDeletes, Outdate
<1>3. CASE ApiMoves
  <2>1. resource \in Api[kind].bodies /\ resource' \in Api[kind].moves[resource]
    BY <1>3 DEF ApiMoves
  <2>2. Api[kind].moves \in [Api[kind].bodies -> SUBSET Api[kind].bodies]
    OBVIOUS
  <2>3. resource' \in Api[kind].bodies
    BY <2>1, <2>2
  <2> QED
    BY <1>3, <2>3 DEF ApiMoves
<1>4. CASE ResourceDrifts
  BY <1>4 DEF ResourceDrifts
<1>5. CASE RoleRemoved
  BY <1>5 DEF RoleRemoved
<1>6. CASE Crash
  BY <1>6, PassIsTyped DEF Crash
<1> QED
  BY <1>1, <1>2, <1>3, <1>4, <1>5, <1>6 DEF Environment

\* Every behaviour is well typed.
LEMMA TypeInvariance == Spec => []TypeInv
<1>1. TypeInv /\ UNCHANGED vars => TypeInv'
  BY DEF TypeInv, TypeOK, HoldsVerdict, vars, cr, grant, pass, history
<1>2. TypeInv /\ [Next]_vars => TypeInv'
  BY <1>1, ObserveKeepsType, EnsureKeepsType, SendKeepsType, DeleteKeepsType, EnvironmentKeepsType DEF Next
<1> QED
  BY InitIsTyped, <1>2, PTL DEF Spec

\* Variables keep their types, and a count of repeats is there exactly when a signature is (drift.go).
THEOREM TypeCorrect == Spec => []TypeOK
<1>1. TypeInv => TypeOK
  BY DEF TypeInv
<1> QED
  BY TypeInvariance, <1>1, PTL

(***************************************************************************)
(* The brake.  That fewer updates than the limit were sent for the noted   *)
(* difference is not inductive: sending is not guarded by it.  Every       *)
(* update, sent or still to be sent, was asked for by a report of its own, *)
(* and the reports are what is counted.                                    *)
(***************************************************************************)

UpdateSteps == {"updateGrant", "put"}
Pending == "Update" \in queue \/ pc \in UpdateSteps
Owed    == IF Pending THEN 1 ELSE 0

BrakeInv ==
    /\ pc \in UpdateSteps => "Update" \notin queue
    /\ Pending => MaxDriftRepeats > 1
    /\ noted = NoSignature => sent = 0
    /\ noted # NoSignature => sent + Owed <= repeats /\ sent + Owed < MaxDriftRepeats
    /\ pc = "clear" => verdict.as = "equal"
    /\ pc = "status" /\ verdict.as = "differs" =>
           noted # NoSignature /\ (repeats < MaxDriftRepeats => sent + 1 <= repeats)

\* A step that asks for no update and reports nothing keeps the account.
LEMMA AccountIsKept ==
    ASSUME TypeOK, BrakeInv, UNCHANGED <<noted, repeats, sent>>,
           "Update" \in queue' => "Update" \in queue,
           \/ pc' \notin UpdateSteps \cup {"clear", "status"}
           \/ pc' = pc /\ verdict' = verdict
           \/ pc' = "put" /\ pc = "updateGrant"
    PROVE  BrakeInv'
<1>0. /\ TypeOK /\ BrakeInv /\ UNCHANGED <<noted, repeats, sent>> /\ ("Update" \in queue' => "Update" \in queue)
      /\ \/ pc' \notin UpdateSteps \cup {"clear", "status"}
         \/ pc' = pc /\ verdict' = verdict
         \/ pc' = "put" /\ pc = "updateGrant"
  OBVIOUS
<1>1. Pending' => Pending
  BY <1>0 DEF Pending, UpdateSteps
<1>2. Owed' \in Nat /\ Owed \in Nat /\ Owed' <= Owed
  BY <1>1 DEF Owed
<1>3. sent \in Nat /\ repeats \in Nat /\ MaxDriftRepeats \in Nat /\ sent' = sent /\ repeats' = repeats /\ noted' = noted
  BY <1>0 DEF TypeOK
<1>4. pc' \in UpdateSteps => "Update" \notin queue'
  BY <1>0 DEF BrakeInv, UpdateSteps
<1>5. Pending' => MaxDriftRepeats > 1
  BY <1>0, <1>1 DEF BrakeInv
<1>6. noted' = NoSignature => sent' = 0
  BY <1>0, <1>3 DEF BrakeInv
<1>7. noted' # NoSignature => sent' + Owed' <= repeats' /\ sent' + Owed' < MaxDriftRepeats
  <2>1. noted # NoSignature => sent + Owed <= repeats /\ sent + Owed < MaxDriftRepeats
    BY <1>0 DEF BrakeInv
  <2>2. \A a, b, s, r, m \in Nat : a <= b /\ s + b <= r /\ s + b < m => s + a <= r /\ s + a < m
    OBVIOUS
  <2>3. sent + Owed <= repeats /\ sent + Owed < MaxDriftRepeats
            => sent + Owed' <= repeats /\ sent + Owed' < MaxDriftRepeats
    BY <1>2, <1>3, <2>2
  <2> QED
    BY <1>3, <2>1, <2>3
<1>8. pc' = "clear" => verdict'.as = "equal"
  BY <1>0 DEF BrakeInv, UpdateSteps
<1>9. pc' = "status" /\ verdict'.as = "differs" =>
          noted' # NoSignature /\ (repeats' < MaxDriftRepeats => sent' + 1 <= repeats')
  BY <1>0, <1>3 DEF BrakeInv, UpdateSteps
<1> QED
  BY <1>4, <1>5, <1>6, <1>7, <1>8, <1>9 DEF BrakeInv

\* Observe keeps the account: a report comes before the update it asks for.
LEMMA ObserveKeepsAccount ==
    ASSUME TypeInv, BrakeInv, Observe PROVE BrakeInv'
<1> USE DEF cr, grant, pass, history
<1>0. TypeOK
  BY DEF TypeInv
<1>1. CASE StartObserve
  BY <1>0, <1>1, AccountIsKept DEF StartObserve, StartPass, Holding, UpdateSteps
<1>2. CASE OpenConflicts
  BY <1>0, <1>2, AccountIsKept DEF OpenConflicts, EndPass, Holding, UpdateSteps
<1>3. CASE ReadFound
  BY <1>0, <1>3, AccountIsKept DEF ReadFound, UpdateSteps
<1>4. CASE ReadAbsent
  BY <1>0, <1>4, AccountIsKept DEF ReadAbsent, EndPass, Holding, UpdateSteps
<1>5. CASE ObserveFails
  BY <1>0, <1>5, AccountIsKept DEF ObserveFails, EndPass, Holding, UpdateSteps
<1>6. CASE PersistObserved
  <2>1. UNCHANGED <<noted, repeats, sent, queue>> /\ pc = "persist"
    BY <1>6 DEF PersistObserved, At
  <2>2. CASE pc' \in {"idle", "note"}
    BY <1>0, <2>1, <2>2, AccountIsKept DEF UpdateSteps
  <2>3. CASE pc' = "clear"
    <3>1. verdict' = verdict /\ verdict.as = "equal"
      BY <1>6, <2>3 DEF PersistObserved, EndPass, Holding, Goto
    <3> QED
      BY <2>1, <2>3, <3>1 DEF BrakeInv, Owed, Pending, UpdateSteps
  <2>4. CASE pc' = "status"
    <3>1. verdict' = verdict /\ verdict.as # "differs"
      BY <1>6, <2>4 DEF PersistObserved, EndPass, Holding, Goto
    <3> QED
      BY <2>1, <2>4, <3>1 DEF BrakeInv, Owed, Pending, UpdateSteps
  <2>5. pc' \in {"idle", "note", "clear", "status"}
    BY <1>6 DEF PersistObserved, EndPass, Holding, Goto
  <2> QED
    BY <2>2, <2>3, <2>4, <2>5
<1>7. CASE NoteDrift
  <2>1. /\ pc = "note" /\ pc' = "status" /\ noted' = DriftSignature /\ UNCHANGED <<verdict, queue>>
        /\ repeats' = IF DriftRepeats < MaxDriftRepeats THEN DriftRepeats + 1 ELSE DriftRepeats
        /\ sent' = IF noted = DriftSignature THEN sent ELSE 0
    BY <1>7 DEF NoteDrift, At
  <2>2. noted' # NoSignature
    BY <2>1, NotedIsASignature DEF TypeInv, HoldsVerdict
  <2>3. Owed' = Owed /\ Owed \in 0 .. 1 /\ Pending' = Pending
    BY <2>1 DEF Owed, Pending, UpdateSteps
  <2>4. sent' + Owed <= repeats' /\ sent' + Owed < MaxDriftRepeats
        /\ (repeats' < MaxDriftRepeats => sent' + 1 <= repeats')
    <3>1. CASE noted = DriftSignature
      <4>1. noted # NoSignature
        BY <2>1, <2>2, <3>1
      <4> QED
        BY <1>0, <2>1, <2>3, <3>1, <4>1 DEF BrakeInv, DriftRepeats, TypeOK, Owed
    <3>2. CASE noted # DriftSignature
      BY <1>0, <2>1, <2>3, <3>2 DEF BrakeInv, DriftRepeats, TypeOK, Owed
    <3> QED
      BY <3>1, <3>2
  <2> QED
    BY <2>1, <2>2, <2>3, <2>4 DEF BrakeInv, UpdateSteps
<1>8. CASE ClearDrift
  BY <1>8 DEF ClearDrift, At, BrakeInv, Pending, UpdateSteps
<1>9. CASE Conclude
  <2>1. pc = "status" /\ pc' = "idle" /\ UNCHANGED <<noted, repeats, sent>>
    BY <1>9 DEF Conclude, At, EndPass, Holding
  <2>2. CASE "Update" \in queue' => "Update" \in queue
    BY <1>0, <2>1, <2>2, AccountIsKept DEF UpdateSteps
  <2>3. CASE "Update" \in queue' /\ "Update" \notin queue
    <3>1. verdict.as = "differs" /\ ~Holds
      BY <1>9, <2>3 DEF Conclude
    <3>2. noted # NoSignature /\ repeats < MaxDriftRepeats /\ sent + 1 <= repeats
      BY <1>0, <2>1, <3>1 DEF BrakeInv, Holds, TypeOK
    <3>3. Owed' = 1
      BY <2>3 DEF Owed, Pending
    <3> QED
      BY <1>0, <2>1, <3>2, <3>3 DEF BrakeInv, UpdateSteps, TypeOK
  <2> QED
    BY <2>2, <2>3
<1> QED
  BY <1>1, <1>2, <1>3, <1>4, <1>5, <1>6, <1>7, <1>8, <1>9 DEF Observe

\* Requests keep the account: an update that is sent was owed.
LEMMA SendKeepsAccount ==
    ASSUME TypeInv, BrakeInv, Ensure \/ Send PROVE BrakeInv'
<1> USE DEF cr, grant, pass, history
<1>0. TypeOK
  BY DEF TypeInv
<1>1. CASE GrantRole
  <2>1. pc' = CallAfter(pc) /\ pc \in GrantSteps /\ UNCHANGED <<noted, repeats, sent, queue>>
    BY <1>1 DEF GrantRole, Goto
  <2> QED
    BY <1>0, <2>1, AccountIsKept DEF CallAfter, GrantSteps, UpdateSteps
<1>2. CASE GrantFails
  BY <1>0, <1>2, AccountIsKept DEF GrantFails, Goto, EndPass, Holding, UpdateSteps
<1>3. CASE StartCreate
  BY <1>0, <1>3, AccountIsKept DEF StartCreate, RequestFor, StartPass, Holding, UpdateSteps
<1>4. CASE Post
  BY <1>0, <1>4, AccountIsKept DEF Post, Goto, EndPass, Holding, UpdateSteps
<1>5. CASE PostFails
  BY <1>0, <1>5, AccountIsKept DEF PostFails, EndPass, Holding, UpdateSteps
<1>6. CASE StartUpdate
  <2>1. /\ "Update" \in queue /\ queue' = queue \ {"Update"} /\ pc' \in UpdateSteps
        /\ UNCHANGED <<noted, repeats, sent>>
    BY <1>6 DEF StartUpdate, RequestFor, StartPass, Holding, UpdateSteps
  <2>2. Pending /\ Pending' /\ Owed' = Owed
    BY <2>1 DEF Pending, Owed
  <2> QED
    BY <2>1, <2>2 DEF BrakeInv, UpdateSteps
<1>7. CASE Put
  <2>1. /\ pc = "put" /\ pc' \in {"recordUpdate", "idle"} /\ UNCHANGED <<noted, repeats, queue>>
        /\ sent' = IF noted = NoSignature THEN sent ELSE sent + 1
    BY <1>7 DEF Put, At, Goto, EndPass, Holding
  <2>2. Owed = 1 /\ Owed' = 0 /\ ~Pending'
    BY <2>1 DEF BrakeInv, Owed, Pending, UpdateSteps
  <2> QED
    BY <1>0, <2>1, <2>2 DEF BrakeInv, UpdateSteps, TypeOK
<1>8. CASE PutFails
  BY <1>0, <1>8, AccountIsKept DEF PutFails, EndPass, Holding, UpdateSteps
<1>9. CASE Record
  BY <1>0, <1>9, AccountIsKept DEF Record, EndPass, Holding, UpdateSteps
<1> QED
  BY <1>1, <1>2, <1>3, <1>4, <1>5, <1>6, <1>7, <1>8, <1>9 DEF Ensure, Send

\* Deletion and everybody else keep the account.
LEMMA OthersKeepAccount ==
    ASSUME TypeInv, BrakeInv, Delete \/ Environment \/ UNCHANGED vars PROVE BrakeInv'
<1> USE DEF cr, grant, pass, history
<1>0. TypeOK
  BY DEF TypeInv
<1>1. CASE StartDelete
  BY <1>0, <1>1, AccountIsKept DEF StartDelete, RequestFor, StartPass, Holding, UpdateSteps
<1>2. CASE Destroy
  BY <1>0, <1>2, AccountIsKept DEF Destroy, Goto, EndPass, Holding, UpdateSteps
<1>3. CASE Teardown \/ TeardownFails
  BY <1>0, <1>3, AccountIsKept DEF Teardown, TeardownFails, Goto, UpdateSteps
<1>4. CASE Release
  BY <1>0, <1>4, AccountIsKept DEF Release, EndPass, Holding, UpdateSteps
<1>5. CASE UserEdits \/ UserDeletes
  BY <1>0, <1>5, AccountIsKept DEF UserEdits, UserDeletes, Outdate
<1>6. CASE ApiMoves \/ ResourceDrifts \/ RoleRemoved
  BY <1>0, <1>6, AccountIsKept DEF ApiMoves, ResourceDrifts, RoleRemoved
<1>7. CASE Crash
  BY <1>0, <1>7, AccountIsKept DEF Crash, EndPass, Holding, UpdateSteps
<1>8. CASE UNCHANGED vars
  BY <1>0, <1>8, AccountIsKept DEF vars
<1> QED
  BY <1>1, <1>2, <1>3, <1>4, <1>5, <1>6, <1>7, <1>8 DEF Delete, Environment

\* The same difference is answered by fewer updates than the limit, for every limit, every API and
\* any number of edits, failures and restarts (restResources.go, drift.go).
THEOREM UpdatesAreBounded == Spec => []FutileUpdatesAreBounded
<1>1. Init => BrakeInv
  BY DEF Init, BrakeInv, Pending, UpdateSteps
<1>2. TypeInv /\ BrakeInv /\ [Next]_vars => BrakeInv'
  BY ObserveKeepsAccount, SendKeepsAccount, OthersKeepAccount DEF Next
<1>3. TypeInv /\ BrakeInv => FutileUpdatesAreBounded
  BY DEF TypeInv, TypeOK, BrakeInv, FutileUpdatesAreBounded, Owed
<1> QED
  BY TypeInvariance, <1>1, <1>2, <1>3, PTL DEF Spec

(***************************************************************************)
(* The Role of a CR that is gone.                                          *)
(***************************************************************************)

\* From its teardown on nothing brings a Role back.
TornDown == (pc = "release" \/ phase = "gone") /\ ~leaked => granted = NoRole /\ ~bound

\* No Role and no binding outlive their CR unless their removal failed, for every set of Secrets
\* and any number of edits and failures (secretrbac.go, secretrbac_integration.go).
THEOREM GrantsGoWithTheCR == Spec => []NoGrantOutlivesItsCR
<1>1. Init => TornDown
  BY DEF Init, TornDown
<1>2. ASSUME TypeInv, TornDown, [Next]_vars PROVE TornDown'
  <2> USE DEF TornDown, At, Goto, StartPass, EndPass, Holding, RequestFor, cr, grant, pass, history
  <2>1. CASE Observe
    BY <1>2, <2>1 DEF Observe, StartObserve, OpenConflicts, ReadFound, ReadAbsent, ObserveFails,
                      PersistObserved, NoteDrift, ClearDrift, Conclude
  <2>2. CASE Ensure
    BY <1>2, <2>2 DEF Ensure, GrantRole, GrantFails, GrantSteps, CallAfter
  <2>3. CASE Send
    BY <1>2, <2>3 DEF Send, StartCreate, Post, PostFails, StartUpdate, Put, PutFails, Record
  <2>4. CASE Delete
    BY <1>2, <2>4 DEF Delete, StartDelete, Destroy, Teardown, TeardownFails, Release
  <2>5. CASE Environment
    BY <1>2, <2>5 DEF Environment, UserEdits, UserDeletes, ApiMoves, ResourceDrifts, RoleRemoved,
                      Crash, Outdate
  <2>6. CASE UNCHANGED vars
    BY <1>2, <2>6 DEF vars
  <2> QED
    BY <1>2, <2>1, <2>2, <2>3, <2>4, <2>5, <2>6 DEF Next
<1>3. TornDown => NoGrantOutlivesItsCR
  BY DEF TornDown, NoGrantOutlivesItsCR
<1> QED
  BY TypeInvariance, <1>1, <1>2, <1>3, PTL DEF Spec
=============================================================================
