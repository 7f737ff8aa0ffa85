------------------------ MODULE RdcLifecycleProofs ------------------------
(***************************************************************************)
(* Theorems of RdcLifecycle for every set of kinds, every bound and every  *)
(* selection of disturbances.                                              *)
(***************************************************************************)
EXTENDS RdcLifecycle, TLAPS

(***************************************************************************)
(* Type correctness.  One lemma per handler, one step per action.          *)
(***************************************************************************)
USE KindsAssumption, FaultsAssumption, BoundsAssumption

\* Observe keeps the CR, the API and the pass well typed.
LEMMA ObserveKeepsType == ASSUME TypeOK, Observe PROVE TypeOK'
<1> USE DEF TypeOK, Phases, Readys, Steps, Answers, Ids, At, StartPass, EndPass, GoTo,
           Continue, WriteStatus, WriteConditions, Fault, cr, meta, status, api, pass, world
<1>1. CASE StartObserve
  BY <1>1 DEF StartObserve
<1>2. CASE RecoverLanded
  BY <1>2 DEF RecoverLanded
<1>3. CASE RecoverAbsent
  BY <1>3 DEF RecoverAbsent
<1>4. CASE RecoverUndetermined
  BY <1>4 DEF RecoverUndetermined
<1>5. CASE ReadFound
  BY <1>5 DEF ReadFound, Visible, Addressed, Is, Reader, Has, Known
<1>6. CASE ReadNothing
  BY <1>6 DEF ReadNothing
<1>7. CASE ReadDenied
  BY <1>7 DEF ReadDenied
<1>8. CASE ReadFailed
  BY <1>8 DEF ReadFailed
<1>9. CASE OpenConflicts
  BY <1>9 DEF OpenConflicts
<1>10. CASE RecordIdentity
  BY <1>10 DEF RecordIdentity
<1>11. CASE ConcludeInSync
  BY <1>11 DEF ConcludeInSync
<1>12. CASE ConcludeDrifted
  BY <1>12 DEF ConcludeDrifted
<1>13. CASE ConcludeAbsent
  <2>1. queue' \subseteq {"Create", "Update"}
    BY <1>13 DEF ConcludeAbsent
  <2>2. UNCHANGED <<kind, phase, marker, id, live, coming, dying, late, lost, minted, spec,
                    present, faults>>
    BY <1>13 DEF ConcludeAbsent
  <2>3. ready' \in {ready, "Available"} /\ synced' \in {synced, "success"}
    BY <1>13 DEF ConcludeAbsent
  <2>4. pc' = "idle" /\ seen' = "none" /\ target' = 0 /\ copy' = "fresh"
    BY <1>13 DEF ConcludeAbsent
  <2> QED
    BY <2>1, <2>2, <2>3, <2>4
<1>14. CASE ConcludeBlind
  <2>1. queue' \subseteq {"Create", "Update"}
    BY <1>14 DEF ConcludeBlind
  <2>2. UNCHANGED <<kind, phase, marker, id, live, coming, dying, late, lost, minted, spec,
                    present, faults>>
    BY <1>14 DEF ConcludeBlind
  <2>3. ready' \in {ready, "Available"} /\ synced' \in {synced, "success"}
    BY <1>14 DEF ConcludeBlind
  <2>4. pc' = "idle" /\ seen' = "none" /\ target' = 0 /\ copy' = "fresh"
    BY <1>14 DEF ConcludeBlind
  <2> QED
    BY <2>1, <2>2, <2>3, <2>4
<1>15. CASE ConcludeDenied
  BY <1>15 DEF ConcludeDenied
<1>16. CASE ConcludeFailed
  BY <1>16 DEF ConcludeFailed
<1> QED
  BY <1>1, <1>2, <1>3, <1>4, <1>5, <1>6, <1>7, <1>8, <1>9, <1>10, <1>11, <1>12,
     <1>13, <1>14, <1>15, <1>16 DEF Observe

\* Create keeps the CR, the API and the pass well typed.
LEMMA CreateKeepsType == ASSUME TypeOK, Create PROVE TypeOK'
<1> USE DEF TypeOK, Phases, Readys, Steps, Answers, Ids, At, StartPass, EndPass, GoTo,
           Continue, WriteStatus, WriteConditions, Fault, cr, meta, status, api, pass, world
<1>1. CASE StartCreate
  BY <1>1 DEF StartCreate
<1>2. CASE SkipCreate
  BY <1>2 DEF SkipCreate
<1>3. CASE AwaitReferent
  BY <1>3 DEF AwaitReferent
<1>4. CASE PostCreate
  <2>1. minted + 1 \in Ids
    BY <1>4 DEF PostCreate, ReadyToPost, Accepts
  <2>2. live' \subseteq Ids /\ coming' \subseteq Ids /\ late' \subseteq Ids
    BY <1>4, <2>1 DEF PostCreate, Land
  <2>3. minted' = minted + 1 /\ spec' = "applied" /\ UNCHANGED <<dying, lost>>
    BY <1>4 DEF PostCreate, Land
  <2>4. pc' \in Steps /\ seen' \in Answers /\ target' \in 0 .. MaxCreates /\ UNCHANGED copy
    BY <1>4, <2>1 DEF PostCreate
  <2>5. UNCHANGED <<kind, phase, marker, ready, synced, id, queue, present>>
    BY <1>4 DEF PostCreate
  <2>6. faults' \in 0 .. MaxFaults
    BY <1>4 DEF PostCreate
  <2> QED
    BY <2>1, <2>2, <2>3, <2>4, <2>5, <2>6
<1>5. CASE PostCreateLost
  <2>1. minted + 1 \in Ids
    BY <1>5 DEF PostCreateLost, ReadyToPost, Accepts
  <2>2. live' \subseteq Ids /\ coming' \subseteq Ids /\ late' \subseteq Ids
    BY <1>5, <2>1 DEF PostCreateLost, Land
  <2>3. minted' = minted + 1 /\ spec' = "applied" /\ UNCHANGED <<dying, lost>>
    BY <1>5 DEF PostCreateLost, Land
  <2>4. pc' \in Steps /\ seen' \in Answers /\ target' \in 0 .. MaxCreates /\ UNCHANGED copy
    BY <1>5, <2>1 DEF PostCreateLost
  <2>5. UNCHANGED <<kind, phase, marker, ready, synced, id, queue, present>>
    BY <1>5 DEF PostCreateLost
  <2>6. faults' \in 0 .. MaxFaults
    BY <1>5 DEF PostCreateLost
  <2> QED
    BY <2>1, <2>2, <2>3, <2>4, <2>5, <2>6
<1>6. CASE PostCreateFails
  BY <1>6 DEF PostCreateFails
<1>7. CASE PostCreateRefused
  BY <1>7 DEF PostCreateRefused
<1>8. CASE RecordCreate
  BY <1>8 DEF RecordCreate, CreatedReady
<1>9. CASE SettleCreate
  BY <1>9 DEF SettleCreate
<1> QED
  BY <1>1, <1>2, <1>3, <1>4, <1>5, <1>6, <1>7, <1>8, <1>9 DEF Create

\* Update keeps the CR, the API and the pass well typed.
LEMMA UpdateKeepsType == ASSUME TypeOK, Update PROVE TypeOK'
<1> USE DEF TypeOK, Phases, Readys, Steps, Answers, Ids, At, StartPass, EndPass, GoTo,
           Continue, WriteStatus, WriteConditions, Fault, cr, meta, status, api, pass, world
<1>1. CASE StartUpdate
  BY <1>1 DEF StartUpdate
<1>2. CASE SkipUpdate
  BY <1>2 DEF SkipUpdate
<1>3. CASE AwaitReferentAgain
  BY <1>3 DEF AwaitReferentAgain
<1>4. CASE PutUpdate
  BY <1>4 DEF PutUpdate
<1>5. CASE PutFails
  BY <1>5 DEF PutFails
<1>6. CASE PutRefused
  BY <1>6 DEF PutRefused
<1>7. CASE RecordUpdate
  BY <1>7 DEF RecordUpdate
<1> QED
  BY <1>1, <1>2, <1>3, <1>4, <1>5, <1>6, <1>7 DEF Update

\* Delete keeps the CR, the API and the pass well typed.
LEMMA DeleteKeepsType == ASSUME TypeOK, Delete PROVE TypeOK'
<1> USE DEF TypeOK, Phases, Readys, Steps, Answers, Ids, At, StartPass, EndPass, GoTo,
           Continue, WriteStatus, WriteConditions, Fault, cr, meta, status, api, pass, world
<1>1. CASE StartDelete
  BY <1>1 DEF StartDelete
<1>2. CASE HoldDelete
  BY <1>2 DEF HoldDelete
<1>3. CASE AbandonDelete
  BY <1>3 DEF AbandonDelete, AbandonReason
<1>4. CASE CallDelete
  <2>1. live' \subseteq Ids /\ dying' \subseteq Ids
    BY <1>4 DEF CallDelete, Addressed
  <2>2. pc' = "verify" /\ seen' \in {"gone", "ok", "error"} /\ target' = 0 /\ UNCHANGED copy
    BY <1>4 DEF CallDelete
  <2>3. UNCHANGED <<kind, phase, marker, ready, synced, id, coming, late, lost, minted, spec,
                    queue, present>>
    BY <1>4 DEF CallDelete
  <2>4. faults' \in 0 .. MaxFaults
    BY <1>4 DEF CallDelete
  <2> QED
    BY <2>1, <2>2, <2>3, <2>4
<1>5. CASE VerifyDelete
  BY <1>5 DEF VerifyDelete, Verdict
<1>6. CASE VerifyFails
  BY <1>6 DEF VerifyFails
<1>7. CASE ReleaseFinalizer
  BY <1>7 DEF ReleaseFinalizer
<1> QED
  BY <1>1, <1>2, <1>3, <1>4, <1>5, <1>6, <1>7 DEF Delete

\* Environment keeps the CR, the API and the pass well typed.
LEMMA EnvironmentKeepsType == ASSUME TypeOK, Environment PROVE TypeOK'
<1> USE DEF TypeOK, Phases, Readys, Steps, Answers, Ids, At, StartPass, EndPass, GoTo,
           Continue, WriteStatus, WriteConditions, Fault, cr, meta, status, api, pass, world
<1>1. CASE UserDeletes
  BY <1>1 DEF UserDeletes, Outdate
<1>2. CASE UserEdits
  BY <1>2 DEF UserEdits, Outdate
<1>3. CASE OtherWriter
  BY <1>3 DEF OtherWriter, Outdate
<1>4. CASE Materialise
  BY <1>4 DEF Materialise
<1>5. CASE Reap
  BY <1>5 DEF Reap
<1>6. CASE Lose
  BY <1>6 DEF Lose
<1>7. CASE ReferentAppears
  BY <1>7 DEF ReferentAppears
<1>8. CASE RemoveDefinition
  BY <1>8 DEF RemoveDefinition
<1>9. CASE Crash
  BY <1>9 DEF Crash
<1> QED
  BY <1>1, <1>2, <1>3, <1>4, <1>5, <1>6, <1>7, <1>8, <1>9 DEF Environment

\* Every reachable state is well typed.
THEOREM TypeCorrect == Spec => []TypeOK
<1>1. Init => TypeOK
  BY DEF Init, TypeOK, Phases, Readys, Steps, Answers, Ids
<1>2. TypeOK /\ [Next]_vars => TypeOK'
  <2>1. SUFFICES ASSUME TypeOK, [Next]_vars PROVE TypeOK'
    OBVIOUS
  <2>2. CASE UNCHANGED vars
    BY <2>1, <2>2 DEF TypeOK, vars, cr, meta, status, api, pass
  <2> QED
    BY <2>1, <2>2, ObserveKeepsType, CreateKeepsType, UpdateKeepsType, DeleteKeepsType,
       EnvironmentKeepsType DEF Next
<1> QED
  BY <1>1, <1>2, PTL DEF Spec

(***************************************************************************)
(* Available is never reported for a resource that never was.              *)
(***************************************************************************)
\* Observe keeps TracesAreReal.
LEMMA ObserveKeepsReal ==
    ASSUME TypeOK, TracesAreReal, Observe PROVE TracesAreReal'
<1> USE DEF TypeOK, TracesAreReal, AvailableOnlyIfReal, Real, Has, Stale, Ids, At,
           StartPass,
           EndPass, GoTo, Continue, WriteStatus, WriteConditions, Fault, cr, meta, status,
           api, pass, world
<1>1. CASE StartObserve
  BY <1>1 DEF StartObserve
<1>2. CASE RecoverLanded
  BY <1>2 DEF RecoverLanded
<1>3. CASE RecoverAbsent
  BY <1>3 DEF RecoverAbsent
<1>4. CASE RecoverUndetermined
  BY <1>4 DEF RecoverUndetermined
<1>5. CASE ReadFound
  <2>1. Visible \subseteq live
    BY DEF Visible, Addressed, Reader
  <2>2. live # {} /\ minted > 0
    BY <1>5, <2>1 DEF ReadFound
  <2>3. seen' \in {"inSync", "drifted"} /\ pc' = "record"
    BY <1>5 DEF ReadFound
  <2>4. UNCHANGED <<kind, phase, marker, ready, synced, live, coming, minted, queue>>
    BY <1>5 DEF ReadFound
  <2> QED
    BY <2>2, <2>3, <2>4
<1>6. CASE ReadNothing
  BY <1>6 DEF ReadNothing
<1>7. CASE ReadDenied
  BY <1>7 DEF ReadDenied
<1>8. CASE ReadFailed
  BY <1>8 DEF ReadFailed
<1>9. CASE OpenConflicts
  BY <1>9 DEF OpenConflicts
<1>10. CASE RecordIdentity
  BY <1>10 DEF RecordIdentity
<1>11. CASE ConcludeInSync
  BY <1>11 DEF ConcludeInSync
<1>12. CASE ConcludeDrifted
  BY <1>12 DEF ConcludeDrifted
<1>13. CASE ConcludeAbsent
  BY <1>13 DEF ConcludeAbsent, HoldsForPending
<1>14. CASE ConcludeBlind
  BY <1>14 DEF ConcludeBlind, AssumedToExist
<1>15. CASE ConcludeDenied
  BY <1>15 DEF ConcludeDenied
<1>16. CASE ConcludeFailed
  BY <1>16 DEF ConcludeFailed
<1> QED
  BY <1>1, <1>2, <1>3, <1>4, <1>5, <1>6, <1>7, <1>8, <1>9, <1>10, <1>11, <1>12,
     <1>13, <1>14, <1>15, <1>16 DEF Observe

\* Create keeps TracesAreReal.
LEMMA CreateKeepsReal ==
    ASSUME TypeOK, TracesAreReal, Create PROVE TracesAreReal'
<1> USE DEF TypeOK, TracesAreReal, AvailableOnlyIfReal, Real, Has, Stale, Ids, At,
           StartPass,
           EndPass, GoTo, Continue, WriteStatus, WriteConditions, Fault, cr, meta, status,
           api, pass, world
<1>1. CASE StartCreate
  BY <1>1 DEF StartCreate
<1>2. CASE SkipCreate
  BY <1>2 DEF SkipCreate
<1>3. CASE AwaitReferent
  BY <1>3 DEF AwaitReferent
<1>4. CASE PostCreate
  BY <1>4 DEF PostCreate, Land, ReadyToPost
<1>5. CASE PostCreateLost
  BY <1>5 DEF PostCreateLost, Land, ReadyToPost
<1>6. CASE PostCreateFails
  BY <1>6 DEF PostCreateFails, ReadyToPost
<1>7. CASE PostCreateRefused
  BY <1>7 DEF PostCreateRefused, ReadyToPost
<1>8. CASE RecordCreate
  BY <1>8 DEF RecordCreate, CreatedReady
<1>9. CASE SettleCreate
  BY <1>9 DEF SettleCreate
<1> QED
  BY <1>1, <1>2, <1>3, <1>4, <1>5, <1>6, <1>7, <1>8, <1>9 DEF Create

\* Update keeps TracesAreReal.
LEMMA UpdateKeepsReal ==
    ASSUME TypeOK, TracesAreReal, Update PROVE TracesAreReal'
<1> USE DEF TypeOK, TracesAreReal, AvailableOnlyIfReal, Real, Has, Stale, Ids, At,
           StartPass,
           EndPass, GoTo, Continue, WriteStatus, WriteConditions, Fault, cr, meta, status,
           api, pass, world
<1>1. CASE StartUpdate
  BY <1>1 DEF StartUpdate
<1>2. CASE SkipUpdate
  BY <1>2 DEF SkipUpdate
<1>3. CASE AwaitReferentAgain
  BY <1>3 DEF AwaitReferentAgain
<1>4. CASE PutUpdate
  BY <1>4 DEF PutUpdate, ReadyToPut, Addressed, Is
<1>5. CASE PutFails
  BY <1>5 DEF PutFails, ReadyToPut
<1>6. CASE PutRefused
  BY <1>6 DEF PutRefused, ReadyToPut
<1>7. CASE RecordUpdate
  BY <1>7 DEF RecordUpdate
<1> QED
  BY <1>1, <1>2, <1>3, <1>4, <1>5, <1>6, <1>7 DEF Update

\* Delete keeps TracesAreReal.
LEMMA DeleteKeepsReal ==
    ASSUME TypeOK, TracesAreReal, Delete PROVE TracesAreReal'
<1> USE DEF TypeOK, TracesAreReal, AvailableOnlyIfReal, Real, Has, Stale, Ids, At,
           StartPass,
           EndPass, GoTo, Continue, WriteStatus, WriteConditions, Fault, cr, meta, status,
           api, pass, world
<1>1. CASE StartDelete
  BY <1>1 DEF StartDelete
<1>2. CASE HoldDelete
  BY <1>2 DEF HoldDelete
<1>3. CASE AbandonDelete
  BY <1>3 DEF AbandonDelete, AbandonReason
<1>4. CASE CallDelete
  BY <1>4 DEF CallDelete, Addressed, Is, ReadyToDelete
<1>5. CASE VerifyDelete
  BY <1>5 DEF VerifyDelete, Verdict
<1>6. CASE VerifyFails
  BY <1>6 DEF VerifyFails
<1>7. CASE ReleaseFinalizer
  BY <1>7 DEF ReleaseFinalizer
<1> QED
  BY <1>1, <1>2, <1>3, <1>4, <1>5, <1>6, <1>7 DEF Delete

\* Environment keeps TracesAreReal.
LEMMA EnvironmentKeepsReal ==
    ASSUME TypeOK, TracesAreReal, Environment PROVE TracesAreReal'
<1> USE DEF TypeOK, TracesAreReal, AvailableOnlyIfReal, Real, Has, Stale, Ids, At,
           StartPass,
           EndPass, GoTo, Continue, WriteStatus, WriteConditions, Fault, cr, meta, status,
           api, pass, world
<1>1. CASE UserDeletes
  BY <1>1 DEF UserDeletes, Outdate
<1>2. CASE UserEdits
  BY <1>2 DEF UserEdits, Outdate
<1>3. CASE OtherWriter
  BY <1>3 DEF OtherWriter, Outdate
<1>4. CASE Materialise
  BY <1>4 DEF Materialise
<1>5. CASE Reap
  BY <1>5 DEF Reap
<1>6. CASE Lose
  BY <1>6 DEF Lose
<1>7. CASE ReferentAppears
  BY <1>7 DEF ReferentAppears
<1>8. CASE RemoveDefinition
  BY <1>8 DEF RemoveDefinition
<1>9. CASE Crash
  BY <1>9 DEF Crash
<1> QED
  BY <1>1, <1>2, <1>3, <1>4, <1>5, <1>6, <1>7, <1>8, <1>9 DEF Environment

\* The initial states have no trace to account for but the adopted resource.
LEMMA InitTracesAreReal == Init => TracesAreReal
  BY DEF Init, TracesAreReal, AvailableOnlyIfReal, Real, Has

\* AvailableOnlyIfReal, for every kind, bound and selection of disturbances: a CR
\* of a kind that can create is never reported Available unless the API did make
\* a resource for it, the defect of #347 (lastReconcileErrored).
THEOREM AvailableIsReal == Spec => []AvailableOnlyIfReal
<1>1. Spec => []TypeOK
  BY TypeCorrect
<1>2. TypeOK /\ TracesAreReal /\ [Next]_vars => TracesAreReal'
  <2>1. SUFFICES ASSUME TypeOK, TracesAreReal, [Next]_vars PROVE TracesAreReal'
    OBVIOUS
  <2>2. CASE UNCHANGED vars
    BY <2>1, <2>2 DEF TracesAreReal, AvailableOnlyIfReal, Real, Has, vars, cr, meta,
       status, api, pass
  <2> QED
    BY <2>1, <2>2, ObserveKeepsReal, CreateKeepsReal, UpdateKeepsReal, DeleteKeepsReal,
       EnvironmentKeepsReal DEF Next
<1>3. TracesAreReal => AvailableOnlyIfReal
  BY DEF TracesAreReal
<1> QED
  BY <1>1, <1>2, <1>3, InitTracesAreReal, PTL DEF Spec

(***************************************************************************)
(* The finalizer is released only for the reasons the code gives.  The     *)
(* only step that matters in the end is ReleaseFinalizer, but the          *)
(* justification must survive every step between the verdict and the       *)
(* release, the ones of the API included: a resource that materialises     *)
(* after its absence was verified was coming, hence late.                  *)
(***************************************************************************)
\* Observe keeps ReleaseIsJustified.
LEMMA ObserveKeepsJustified ==
    ASSUME TypeOK, ReleaseIsJustified, Observe PROVE ReleaseIsJustified'
<1> USE DEF TypeOK, ReleaseIsJustified, Addressed, Has, Is, Stale, At, StartPass,
           EndPass, GoTo,
           Continue, WriteStatus, WriteConditions, Fault, cr, meta, status, api, pass, world
<1>1. CASE StartObserve
  BY <1>1 DEF StartObserve
<1>2. CASE RecoverLanded
  BY <1>2 DEF RecoverLanded
<1>3. CASE RecoverAbsent
  BY <1>3 DEF RecoverAbsent
<1>4. CASE RecoverUndetermined
  BY <1>4 DEF RecoverUndetermined
<1>5. CASE ReadFound
  BY <1>5 DEF ReadFound, Visible, Addressed, Is
<1>6. CASE ReadNothing
  BY <1>6 DEF ReadNothing
<1>7. CASE ReadDenied
  BY <1>7 DEF ReadDenied
<1>8. CASE ReadFailed
  BY <1>8 DEF ReadFailed
<1>9. CASE OpenConflicts
  BY <1>9 DEF OpenConflicts
<1>10. CASE RecordIdentity
  BY <1>10 DEF RecordIdentity
<1>11. CASE ConcludeInSync
  BY <1>11 DEF ConcludeInSync
<1>12. CASE ConcludeDrifted
  BY <1>12 DEF ConcludeDrifted
<1>13. CASE ConcludeAbsent
  BY <1>13 DEF ConcludeAbsent, HoldsForPending
<1>14. CASE ConcludeBlind
  BY <1>14 DEF ConcludeBlind, AssumedToExist
<1>15. CASE ConcludeDenied
  BY <1>15 DEF ConcludeDenied
<1>16. CASE ConcludeFailed
  BY <1>16 DEF ConcludeFailed
<1> QED
  BY <1>1, <1>2, <1>3, <1>4, <1>5, <1>6, <1>7, <1>8, <1>9, <1>10, <1>11, <1>12,
     <1>13, <1>14, <1>15, <1>16 DEF Observe

\* Create keeps ReleaseIsJustified.
LEMMA CreateKeepsJustified ==
    ASSUME TypeOK, ReleaseIsJustified, Create PROVE ReleaseIsJustified'
<1> USE DEF TypeOK, ReleaseIsJustified, Addressed, Has, Is, Stale, At, StartPass,
           EndPass, GoTo,
           Continue, WriteStatus, WriteConditions, Fault, cr, meta, status, api, pass, world
<1>1. CASE StartCreate
  BY <1>1 DEF StartCreate
<1>2. CASE SkipCreate
  BY <1>2 DEF SkipCreate
<1>3. CASE AwaitReferent
  BY <1>3 DEF AwaitReferent
<1>4. CASE PostCreate
  BY <1>4 DEF PostCreate, Land, ReadyToPost
<1>5. CASE PostCreateLost
  BY <1>5 DEF PostCreateLost, Land, ReadyToPost
<1>6. CASE PostCreateFails
  BY <1>6 DEF PostCreateFails, ReadyToPost
<1>7. CASE PostCreateRefused
  BY <1>7 DEF PostCreateRefused, ReadyToPost
<1>8. CASE RecordCreate
  BY <1>8 DEF RecordCreate, CreatedReady
<1>9. CASE SettleCreate
  BY <1>9 DEF SettleCreate
<1> QED
  BY <1>1, <1>2, <1>3, <1>4, <1>5, <1>6, <1>7, <1>8, <1>9 DEF Create

\* Update keeps ReleaseIsJustified.
LEMMA UpdateKeepsJustified ==
    ASSUME TypeOK, ReleaseIsJustified, Update PROVE ReleaseIsJustified'
<1> USE DEF TypeOK, ReleaseIsJustified, Addressed, Has, Is, Stale, At, StartPass,
           EndPass, GoTo,
           Continue, WriteStatus, WriteConditions, Fault, cr, meta, status, api, pass, world
<1>1. CASE StartUpdate
  BY <1>1 DEF StartUpdate
<1>2. CASE SkipUpdate
  BY <1>2 DEF SkipUpdate
<1>3. CASE AwaitReferentAgain
  BY <1>3 DEF AwaitReferentAgain
<1>4. CASE PutUpdate
  BY <1>4 DEF PutUpdate, ReadyToPut, Addressed, Is
<1>5. CASE PutFails
  BY <1>5 DEF PutFails, ReadyToPut
<1>6. CASE PutRefused
  BY <1>6 DEF PutRefused, ReadyToPut
<1>7. CASE RecordUpdate
  BY <1>7 DEF RecordUpdate
<1> QED
  BY <1>1, <1>2, <1>3, <1>4, <1>5, <1>6, <1>7 DEF Update

\* Delete keeps ReleaseIsJustified.
LEMMA DeleteKeepsJustified ==
    ASSUME TypeOK, ReleaseIsJustified, Delete PROVE ReleaseIsJustified'
<1> USE DEF TypeOK, ReleaseIsJustified, Addressed, Has, Is, Stale, At, StartPass,
           EndPass, GoTo,
           Continue, WriteStatus, WriteConditions, Fault, cr, meta, status, api, pass, world
<1>1. CASE StartDelete
  BY <1>1 DEF StartDelete
<1>2. CASE HoldDelete
  BY <1>2 DEF HoldDelete
<1>3. CASE AbandonDelete
  BY <1>3 DEF AbandonDelete, AbandonReason
<1>4. CASE CallDelete
  BY <1>4 DEF CallDelete, Addressed, Is, ReadyToDelete
<1>5. CASE VerifyDelete
  BY <1>5 DEF VerifyDelete, Verdict
<1>6. CASE VerifyFails
  BY <1>6 DEF VerifyFails
<1>7. CASE ReleaseFinalizer
  BY <1>7 DEF ReleaseFinalizer
<1> QED
  BY <1>1, <1>2, <1>3, <1>4, <1>5, <1>6, <1>7 DEF Delete

\* Environment keeps ReleaseIsJustified.
LEMMA EnvironmentKeepsJustified ==
    ASSUME TypeOK, ReleaseIsJustified, Environment PROVE ReleaseIsJustified'
<1> USE DEF TypeOK, ReleaseIsJustified, Addressed, Has, Is, Stale, At, StartPass,
           EndPass, GoTo,
           Continue, WriteStatus, WriteConditions, Fault, cr, meta, status, api, pass, world
<1>1. CASE UserDeletes
  BY <1>1 DEF UserDeletes, Outdate
<1>2. CASE UserEdits
  BY <1>2 DEF UserEdits, Outdate
<1>3. CASE OtherWriter
  BY <1>3 DEF OtherWriter, Outdate
<1>4. CASE Materialise
  BY <1>4 DEF Materialise
<1>5. CASE Reap
  BY <1>5 DEF Reap
<1>6. CASE Lose
  BY <1>6 DEF Lose
<1>7. CASE ReferentAppears
  BY <1>7 DEF ReferentAppears
<1>8. CASE RemoveDefinition
  BY <1>8 DEF RemoveDefinition
<1>9. CASE Crash
  BY <1>9 DEF Crash
<1> QED
  BY <1>1, <1>2, <1>3, <1>4, <1>5, <1>6, <1>7, <1>8, <1>9 DEF Environment

\* Nobody but ReleaseFinalizer makes the CR go.
LEMMA OnlyReleaseEnds ==
    ASSUME [Next]_vars, phase # "gone", phase' = "gone" PROVE ReleaseFinalizer
<1> USE DEF EndPass, StartPass, WriteStatus, WriteConditions, cr, meta, status
<1>1. ~Observe
  BY DEF Observe, StartObserve, RecoverLanded, RecoverAbsent, RecoverUndetermined,
     ReadFound, ReadNothing, ReadDenied, ReadFailed, OpenConflicts, RecordIdentity,
     ConcludeInSync, ConcludeDrifted, ConcludeAbsent, ConcludeBlind,
     ConcludeDenied, ConcludeFailed
<1>2. ~Create
  BY DEF Create, StartCreate, SkipCreate, AwaitReferent, PostCreate, PostCreateLost,
     PostCreateFails, PostCreateRefused, RecordCreate, SettleCreate
<1>3. ~Update
  BY DEF Update, StartUpdate, SkipUpdate, AwaitReferentAgain, PutUpdate, PutFails,
     PutRefused, RecordUpdate
<1>4. Delete => ReleaseFinalizer
  BY DEF Delete, StartDelete, HoldDelete, AbandonDelete, CallDelete, VerifyDelete,
     VerifyFails
<1>5. ~Environment
  BY DEF Environment, UserDeletes, UserEdits, OtherWriter, Materialise, Reap, Lose,
     ReferentAppears, RemoveDefinition, Crash
<1> QED
  BY <1>1, <1>2, <1>3, <1>4, <1>5 DEF Next, vars

\* Every release that is about to happen is justified.
LEMMA ReleasesAreJustified == Spec => []ReleaseIsJustified
<1>1. Spec => []TypeOK
  BY TypeCorrect
<1>2. Init => ReleaseIsJustified
  BY DEF Init, ReleaseIsJustified
<1>3. TypeOK /\ ReleaseIsJustified /\ [Next]_vars => ReleaseIsJustified'
  <2>1. SUFFICES ASSUME TypeOK, ReleaseIsJustified, [Next]_vars
                 PROVE  ReleaseIsJustified'
    OBVIOUS
  <2>2. CASE UNCHANGED vars
    BY <2>1, <2>2 DEF ReleaseIsJustified, Addressed, Has, Is, vars, cr, meta, status,
       api, pass
  <2> QED
    BY <2>1, <2>2, ObserveKeepsJustified, CreateKeepsJustified, UpdateKeepsJustified,
       DeleteKeepsJustified, EnvironmentKeepsJustified DEF Next
<1> QED
  BY <1>1, <1>2, <1>3, PTL DEF Spec

\* OrphanedOnlyByDesign, for every kind, bound and selection of disturbances: the
\* finalizer goes with the resource still there only for a reason the code gives.
THEOREM OrphansAreByDesign == Spec => OrphanedOnlyByDesign
<1> DEFINE Justified ==
        \/ Addressed \subseteq late
        \/ seen \in {"noDefinition", "noDeleteVerb", "unaddressable"}
        \/ seen = "trusted" /\ ~Has("get")
<1>1. ReleaseIsJustified /\ [Next]_vars =>
        [phase # "gone" /\ phase' = "gone" => Justified]_vars
  <2>1. SUFFICES ASSUME ReleaseIsJustified, [Next]_vars, phase # "gone", phase' = "gone"
                 PROVE  Justified
    OBVIOUS
  <2>2. ReleaseFinalizer
    BY <2>1, OnlyReleaseEnds
  <2> QED
    BY <2>1, <2>2 DEF ReleaseFinalizer, At, ReleaseIsJustified
<1> QED
  BY <1>1, ReleasesAreJustified, PTL DEF Spec, OrphanedOnlyByDesign

(***************************************************************************)
(* What a create is sent next to, what Pending waits for, and the promise  *)
(* of ManagedResource.  Foreseen is the one inductive invariant all three  *)
(* rest on; its parts need one another.                                    *)
(***************************************************************************)
\* What the one read of a pass can find, by the verb it reads with.
LEMMA WhatIsVisible ==
    /\ Visible \subseteq live
    /\ ~Is("named") /\ Has("get") /\ id # 0 => Visible = live \cap {id}
    /\ ~Is("named") /\ Has("findby") /\ (id = 0 \/ ~Has("get")) => Visible = live
  BY DEF Visible, Reader, Known, Addressable, Addressed

\* A create that lands keeps Foreseen: what it lands next to could not be read, or
\* came up late.
LEMMA LandKeepsForeseen ==
    ASSUME TypeOK, Foreseen, ReadyToPost, Accepts, Land,
           UNCHANGED <<kind, phase, id, ready, queue, present>>,
           pc' \in {"recordCreate", "settleCreate"}, target' \in {0, minted + 1}
    PROVE  Foreseen'
<1> USE DEF Foreseen
<1>1. /\ minted \in Nat /\ minted' = minted + 1
      /\ live \subseteq 1 .. minted /\ coming \subseteq 1 .. minted
      /\ pc = "create" /\ dying = {} /\ dying' = {} /\ lost' = lost
      /\ "Create" \notin queue
  BY DEF TypeOK, ReadyToPost, At, Land, Numbered, PassIsPlaced
<1>2. \/ /\ Is("async") /\ coming' = coming \cup {minted + 1} /\ late' = late \cup {minted + 1}
         /\ live' = live
      \/ /\ ~Is("async") /\ live' = live \cup {minted + 1} /\ coming' = coming /\ late' = late
  BY DEF Land
<1>3. ~Is("named") => Visible \subseteq late
  BY <1>1 DEF CreateIsBlind, CreateToCome
<1>4. Numbered'
  <2>1. live' \cup coming' \subseteq 1 .. minted'
    <3>1. live' \cup coming' \subseteq live \cup coming \cup {minted + 1}
      BY <1>2
    <3>2. 1 .. minted \subseteq 1 .. minted + 1 /\ minted + 1 \in 1 .. minted + 1
      BY <1>1
    <3> QED
      BY <1>1, <3>1, <3>2
  <2>2. live' \cap coming' = {}
    <3>1. live \cap coming = {} /\ minted + 1 \notin live /\ minted + 1 \notin coming
      BY <1>1 DEF Numbered
    <3> QED
      BY <1>2, <3>1
  <2>3. id' <= minted' /\ target' <= minted'
    BY <1>1 DEF Numbered, TypeOK
  <2>4. coming' \subseteq late' /\ (~Is("async") => late' = {})
    BY <1>2 DEF Numbered
  <2> QED
    BY <2>1, <2>2, <2>3, <2>4 DEF Numbered, Is
<1>5. PassIsPlaced'
  BY <1>1 DEF PassIsPlaced, ReadyToPost, Present
<1>6. CreateIsBlind'
  <2>1. SUFFICES ASSUME ~Is("named"), Is("async"), ~(live \subseteq late)
                 PROVE  FALSE
    BY <1>1, <1>2 DEF CreateIsBlind, CreateToCome, Is, Has
  <2>2. minted = 1 /\ Has("findby")
    BY <2>1 DEF CreateIsBlind
  <2>3. live \subseteq {1} /\ live # {} /\ id \in {0, 1}
    BY <1>1, <2>1, <2>2 DEF Numbered, TypeOK
  <2> QED
    BY <1>3, <2>1, <2>2, <2>3, WhatIsVisible
<1>7. PendingWaits'
  BY <1>1 DEF PendingWaits, CreateToCome, Is
<1>8. OneResource'
  <2>1. SUFFICES ASSUME Promised PROVE minted = 0 /\ live' = {1}
    BY <1>1 DEF OneResource, Promised, Adopts, Is
  <2>2. ~Is("async") /\ late = {} /\ Has("get") /\ (Is("named") \/ Has("findby"))
    BY <2>1 DEF Promised, Numbered, Adopts, Is, Has
  <2>3. minted # 1
    <3>1. SUFFICES ASSUME minted = 1 PROVE FALSE
      OBVIOUS
    <3>2. live = {1} /\ id \in {0, 1}
      BY <1>1, <2>1, <3>1 DEF OneResource, Numbered, TypeOK
    <3> QED
      BY <1>3, <2>2, <3>2, WhatIsVisible DEF Accepts
  <2>4. minted = 0 /\ live = {}
    BY <1>1, <2>1, <2>3 DEF OneResource
  <2> QED
    BY <1>1, <1>2, <2>2, <2>4
<1> QED
  BY <1>4, <1>5, <1>6, <1>7, <1>8

\* Recording the identity of a resource that was found keeps Foreseen.
LEMMA RecordIdentityKeepsForeseen ==
    ASSUME TypeOK, Foreseen, RecordIdentity PROVE Foreseen'
<1> USE DEF Foreseen
<1>1. /\ pc = "record" /\ pc' \in {"idle", "conclude"} /\ target' \in {0, target}
      /\ pc' = "conclude" => seen' = seen
      /\ id' \in {id, target} /\ ready' = ready
      /\ UNCHANGED <<kind, phase, live, coming, dying, late, lost, minted, queue, present>>
  BY DEF RecordIdentity, At, WriteStatus, Continue, EndPass, StartPass, GoTo, meta, status,
     api, world
<1>2. Numbered'
  BY <1>1 DEF Numbered, TypeOK, Is
<1>3. PassIsPlaced'
  BY <1>1 DEF PassIsPlaced, Reader, Known, Present, Has, Addressable, Is, TypeOK
<1>4. CreateIsBlind'
  <2>1. SUFFICES ASSUME ~Is("named"), "Create" \in queue PROVE Visible' \subseteq late
    BY <1>1 DEF CreateIsBlind, CreateToCome, Is, Has, PassIsPlaced
  <2>2. Visible \subseteq late /\ target \in late /\ target # 0
    BY <1>1, <2>1 DEF CreateIsBlind, CreateToCome, PassIsPlaced
  <2>3. CASE Has("get")
    <3>1. Visible' \subseteq {target} \/ id' = id
      BY <1>1, <2>1, <2>2, <2>3 DEF Visible, Reader, Known, Addressable, Addressed, Is, Has
    <3> QED
      BY <1>1, <2>2, <3>1 DEF Visible, Reader, Known, Addressable, Addressed, Is, Has
  <2>4. CASE ~Has("get")
    BY <1>1, <2>2, <2>4 DEF Visible, Reader, Known, Addressable, Addressed, Is, Has
  <2> QED
    BY <2>3, <2>4
<1>5. PendingWaits'
  BY <1>1 DEF PendingWaits, PassIsPlaced, CreateToCome, Is
<1>6. OneResource'
  BY <1>1 DEF OneResource, Promised, Adopts, Is
<1> QED
  BY <1>2, <1>3, <1>4, <1>5, <1>6

\* Taking a Create from the queue keeps Foreseen.
LEMMA StartCreateKeepsForeseen ==
    ASSUME TypeOK, Foreseen, StartCreate PROVE Foreseen'
<1> USE DEF Foreseen
<1>1. /\ "Create" \in queue /\ queue' = queue \ {"Create"}
      /\ \/ pc' = "idle" /\ phase = "deleting" /\ seen' = seen /\ target' = target
         \/ pc' = "create" /\ phase = "live" /\ seen' = "none" /\ target' = 0
      /\ UNCHANGED <<kind, phase, ready, id, live, coming, dying, late, lost, minted, present>>
  BY DEF StartCreate, At, StartPass, GoTo, pass, status, api, world, TypeOK, Phases
<1>2. Numbered'
  BY <1>1 DEF Numbered, TypeOK, Is
<1>3. PassIsPlaced'
  BY <1>1 DEF PassIsPlaced, Present
<1>4. CreateIsBlind'
  BY <1>1 DEF CreateIsBlind, CreateToCome, Is, Has, Visible, Reader, Known, Addressable,
     Addressed
<1>5. PendingWaits'
  BY <1>1 DEF PendingWaits, CreateToCome, Is, Has, Reader, Known, Addressable
<1>6. OneResource'
  BY <1>1 DEF OneResource, Promised, Adopts, Is
<1> QED
  BY <1>2, <1>3, <1>4, <1>5, <1>6

\* A delete call numbers nothing anew.
LEMMA CallDeleteKeepsNumbered ==
    ASSUME TypeOK, Numbered, CallDelete PROVE Numbered'
<1>1. live' \subseteq live /\ target' = 0 /\ UNCHANGED <<kind, coming, late, minted, id>>
  BY DEF CallDelete, Continue, GoTo, cr, status, world
<1> QED
  BY <1>1 DEF Numbered, Is, TypeOK

\* ConcludeInSync keeps Foreseen.
LEMMA ConcludeInSyncKeepsForeseen ==
    ASSUME TypeOK, Foreseen, ConcludeInSync PROVE Foreseen'
<1> USE DEF TypeOK, Ids, At, StartPass, EndPass, GoTo, Continue, WriteStatus, WriteConditions,
           Fault, cr, meta, status, api, pass, world, Is, Has, Stale, Present, Visible,
           Addressed, Reader, Known, Addressable, Observable, Adopts, Promised,
           CreateToCome, Foreseen, ConcludeInSync
<1>1. Numbered'
  BY DEF Numbered
<1>2. PassIsPlaced'
  BY DEF PassIsPlaced
<1>3. CreateIsBlind'
  BY DEF CreateIsBlind
<1>4. PendingWaits'
  BY DEF PendingWaits
<1>5. OneResource'
  BY DEF OneResource
<1> QED
  BY <1>1, <1>2, <1>3, <1>4, <1>5

\* ConcludeDrifted keeps Foreseen.
LEMMA ConcludeDriftedKeepsForeseen ==
    ASSUME TypeOK, Foreseen, ConcludeDrifted PROVE Foreseen'
<1> USE DEF TypeOK, Ids, At, StartPass, EndPass, GoTo, Continue, WriteStatus, WriteConditions,
           Fault, cr, meta, status, api, pass, world, Is, Has, Stale, Present, Visible,
           Addressed, Reader, Known, Addressable, Observable, Adopts, Promised,
           CreateToCome, Foreseen, ConcludeDrifted
<1>1. Numbered'
  BY DEF Numbered
<1>2. PassIsPlaced'
  BY DEF PassIsPlaced
<1>3. CreateIsBlind'
  BY DEF CreateIsBlind
<1>4. PendingWaits'
  BY DEF PendingWaits
<1>5. OneResource'
  BY DEF OneResource
<1> QED
  BY <1>1, <1>2, <1>3, <1>4, <1>5

\* ConcludeAbsent keeps Foreseen.
LEMMA ConcludeAbsentKeepsForeseen ==
    ASSUME TypeOK, Foreseen, ConcludeAbsent PROVE Foreseen'
<1> USE DEF TypeOK, Ids, At, StartPass, EndPass, GoTo, Continue, WriteStatus, WriteConditions,
           Fault, cr, meta, status, api, pass, world, Is, Has, Stale, Present, Visible,
           Addressed, Reader, Known, Addressable, Observable, Adopts, Promised,
           CreateToCome, Foreseen,
           ConcludeAbsent, HoldsForPending
<1>1. Numbered'
  BY DEF Numbered
<1>2. PassIsPlaced'
  BY DEF PassIsPlaced
<1>3. CreateIsBlind'
  BY DEF CreateIsBlind
<1>4. PendingWaits'
  BY DEF PendingWaits
<1>5. OneResource'
  BY DEF OneResource
<1> QED
  BY <1>1, <1>2, <1>3, <1>4, <1>5

\* ConcludeDenied keeps Foreseen.
LEMMA ConcludeDeniedKeepsForeseen ==
    ASSUME TypeOK, Foreseen, ConcludeDenied PROVE Foreseen'
<1> USE DEF TypeOK, Ids, At, StartPass, EndPass, GoTo, Continue, WriteStatus, WriteConditions,
           Fault, cr, meta, status, api, pass, world, Is, Has, Stale, Present, Visible,
           Addressed, Reader, Known, Addressable, Observable, Adopts, Promised,
           CreateToCome, Foreseen, ConcludeDenied
<1>1. Numbered'
  BY DEF Numbered
<1>2. PassIsPlaced'
  BY DEF PassIsPlaced
<1>3. CreateIsBlind'
  BY DEF CreateIsBlind
<1>4. PendingWaits'
  BY DEF PendingWaits
<1>5. OneResource'
  BY DEF OneResource
<1> QED
  BY <1>1, <1>2, <1>3, <1>4, <1>5

\* AwaitReferentAgain keeps Foreseen.
LEMMA AwaitReferentAgainKeepsForeseen ==
    ASSUME TypeOK, Foreseen, AwaitReferentAgain PROVE Foreseen'
<1> USE DEF TypeOK, Ids, At, StartPass, EndPass, GoTo, Continue, WriteStatus, WriteConditions,
           Fault, cr, meta, status, api, pass, world, Is, Has, Stale, Present, Visible,
           Addressed, Reader, Known, Addressable, Observable, Adopts, Promised,
           CreateToCome, Foreseen, AwaitReferentAgain
<1>1. Numbered'
  BY DEF Numbered
<1>2. PassIsPlaced'
  BY DEF PassIsPlaced
<1>3. CreateIsBlind'
  BY DEF CreateIsBlind
<1>4. PendingWaits'
  BY DEF PassIsPlaced, PendingWaits
<1>5. OneResource'
  BY DEF OneResource
<1> QED
  BY <1>1, <1>2, <1>3, <1>4, <1>5

\* PutRefused keeps Foreseen.
LEMMA PutRefusedKeepsForeseen ==
    ASSUME TypeOK, Foreseen, PutRefused PROVE Foreseen'
<1> USE DEF TypeOK, Ids, At, StartPass, EndPass, GoTo, Continue, WriteStatus, WriteConditions,
           Fault, cr, meta, status, api, pass, world, Is, Has, Stale, Present, Visible,
           Addressed, Reader, Known, Addressable, Observable, Adopts, Promised,
           CreateToCome, Foreseen,
           PutRefused, ReadyToPut
<1>1. Numbered'
  BY DEF Numbered
<1>2. PassIsPlaced'
  BY DEF PassIsPlaced
<1>3. CreateIsBlind'
  BY DEF CreateIsBlind
<1>4. PendingWaits'
  BY DEF PendingWaits
<1>5. OneResource'
  BY DEF OneResource
<1> QED
  BY <1>1, <1>2, <1>3, <1>4, <1>5

\* RecordUpdate keeps Foreseen.
LEMMA RecordUpdateKeepsForeseen ==
    ASSUME TypeOK, Foreseen, RecordUpdate PROVE Foreseen'
<1> USE DEF TypeOK, Ids, At, StartPass, EndPass, GoTo, Continue, WriteStatus, WriteConditions,
           Fault, cr, meta, status, api, pass, world, Is, Has, Stale, Present, Visible,
           Addressed, Reader, Known, Addressable, Observable, Adopts, Promised,
           CreateToCome, Foreseen, RecordUpdate
<1>1. Numbered'
  BY DEF Numbered
<1>2. PassIsPlaced'
  BY DEF PassIsPlaced
<1>3. CreateIsBlind'
  BY DEF CreateIsBlind
<1>4. PendingWaits'
  BY DEF PendingWaits
<1>5. OneResource'
  BY DEF OneResource
<1> QED
  BY <1>1, <1>2, <1>3, <1>4, <1>5

\* CallDelete keeps Foreseen.
LEMMA CallDeleteKeepsForeseen ==
    ASSUME TypeOK, Foreseen, CallDelete PROVE Foreseen'
<1> USE DEF TypeOK, Ids, At, StartPass, EndPass, GoTo, Continue, WriteStatus, WriteConditions,
           Fault, cr, meta, status, api, pass, world, Is, Has, Stale, Present, Visible,
           Addressed, Reader, Known, Addressable, Observable, Adopts, Promised,
           CreateToCome, Foreseen,
           CallDelete, ReadyToDelete, AbandonReason
<1>1. Numbered'
  BY CallDeleteKeepsNumbered
<1>2. PassIsPlaced'
  BY DEF PassIsPlaced
<1>3. CreateIsBlind'
  BY DEF CreateIsBlind
<1>4. PendingWaits'
  BY DEF PassIsPlaced, PendingWaits
<1>5. OneResource'
  BY DEF PassIsPlaced, OneResource
<1> QED
  BY <1>1, <1>2, <1>3, <1>4, <1>5

\* Observe keeps Foreseen.
LEMMA ObserveKeepsForeseen ==
    ASSUME TypeOK, Foreseen, Observe PROVE Foreseen'
<1> USE DEF TypeOK, Ids, At, StartPass, EndPass, GoTo, Continue, WriteStatus, WriteConditions,
           Fault, cr, meta, status, api, pass, world, Is, Has, Stale, Present, Visible,
           Addressed, Reader, Known, Addressable, Observable, Adopts, Promised,
           CreateToCome, Foreseen,
           Numbered, PassIsPlaced, CreateIsBlind, PendingWaits, OneResource
<1>1. CASE StartObserve
  BY <1>1 DEF StartObserve
<1>2. CASE RecoverLanded
  BY <1>2 DEF RecoverLanded
<1>3. CASE RecoverAbsent
  BY <1>3 DEF RecoverAbsent
<1>4. CASE RecoverUndetermined
  BY <1>4 DEF RecoverUndetermined
<1>5. CASE ReadFound
  BY <1>5 DEF ReadFound
<1>6. CASE ReadNothing
  BY <1>6 DEF ReadNothing
<1>7. CASE ReadDenied
  BY <1>7 DEF ReadDenied
<1>8. CASE ReadFailed
  BY <1>8 DEF ReadFailed
<1>9. CASE OpenConflicts
  BY <1>9 DEF OpenConflicts
<1>10. CASE RecordIdentity
  BY <1>10, RecordIdentityKeepsForeseen
<1>11. CASE ConcludeInSync
  BY <1>11, ConcludeInSyncKeepsForeseen
<1>12. CASE ConcludeDrifted
  BY <1>12, ConcludeDriftedKeepsForeseen
<1>13. CASE ConcludeAbsent
  BY <1>13, ConcludeAbsentKeepsForeseen
<1>14. CASE ConcludeBlind
  BY <1>14 DEF ConcludeBlind, AssumedToExist
<1>15. CASE ConcludeDenied
  BY <1>15, ConcludeDeniedKeepsForeseen
<1>16. CASE ConcludeFailed
  BY <1>16 DEF ConcludeFailed
<1> QED
  BY <1>1, <1>2, <1>3, <1>4, <1>5, <1>6, <1>7, <1>8, <1>9, <1>10, <1>11, <1>12, <1>13,
     <1>14, <1>15, <1>16 DEF Observe

\* Create keeps Foreseen.
LEMMA CreateKeepsForeseen ==
    ASSUME TypeOK, Foreseen, Create PROVE Foreseen'
<1> USE DEF TypeOK, Ids, At, StartPass, EndPass, GoTo, Continue, WriteStatus, WriteConditions,
           Fault, cr, meta, status, api, pass, world, Is, Has, Stale, Present, Visible,
           Addressed, Reader, Known, Addressable, Observable, Adopts, Promised,
           CreateToCome, Foreseen,
           Numbered, PassIsPlaced, CreateIsBlind, PendingWaits, OneResource
<1>1. CASE StartCreate
  BY <1>1, StartCreateKeepsForeseen
<1>2. CASE SkipCreate
  BY <1>2 DEF SkipCreate
<1>3. CASE AwaitReferent
  BY <1>3 DEF AwaitReferent
<1>4. CASE PostCreate
  <2> HIDE DEF Numbered, PassIsPlaced, CreateIsBlind, PendingWaits, OneResource, Foreseen,
           ReadyToPost, Accepts, Land
  <2>1. ReadyToPost /\ Accepts /\ Land
    BY <1>4 DEF PostCreate
  <2>2. UNCHANGED <<kind, phase, id, ready, queue, present>>
    BY <1>4 DEF PostCreate
  <2>3. pc' \in {"recordCreate", "settleCreate"} /\ target' \in {0, minted + 1}
    BY <1>4 DEF PostCreate
  <2> QED
    BY <2>1, <2>2, <2>3, LandKeepsForeseen
<1>5. CASE PostCreateLost
  <2> HIDE DEF Numbered, PassIsPlaced, CreateIsBlind, PendingWaits, OneResource, Foreseen,
           ReadyToPost, Accepts, Land
  <2>1. ReadyToPost /\ Accepts /\ Land
    BY <1>5 DEF PostCreateLost
  <2>2. UNCHANGED <<kind, phase, id, ready, queue, present>>
    BY <1>5 DEF PostCreateLost
  <2>3. pc' \in {"recordCreate", "settleCreate"} /\ target' \in {0, minted + 1}
    BY <1>5 DEF PostCreateLost
  <2> QED
    BY <2>1, <2>2, <2>3, LandKeepsForeseen
<1>6. CASE PostCreateFails
  BY <1>6 DEF PostCreateFails, ReadyToPost
<1>7. CASE PostCreateRefused
  BY <1>7 DEF PostCreateRefused, ReadyToPost
<1>8. CASE RecordCreate
  BY <1>8 DEF RecordCreate, CreatedReady
<1>9. CASE SettleCreate
  BY <1>9 DEF SettleCreate
<1> QED
  BY <1>1, <1>2, <1>3, <1>4, <1>5, <1>6, <1>7, <1>8, <1>9 DEF Create

\* Update keeps Foreseen.
LEMMA UpdateKeepsForeseen ==
    ASSUME TypeOK, Foreseen, Update PROVE Foreseen'
<1> USE DEF TypeOK, Ids, At, StartPass, EndPass, GoTo, Continue, WriteStatus, WriteConditions,
           Fault, cr, meta, status, api, pass, world, Is, Has, Stale, Present, Visible,
           Addressed, Reader, Known, Addressable, Observable, Adopts, Promised,
           CreateToCome, Foreseen,
           Numbered, PassIsPlaced, CreateIsBlind, PendingWaits, OneResource
<1>1. CASE StartUpdate
  BY <1>1 DEF StartUpdate
<1>2. CASE SkipUpdate
  BY <1>2 DEF SkipUpdate
<1>3. CASE AwaitReferentAgain
  BY <1>3, AwaitReferentAgainKeepsForeseen
<1>4. CASE PutUpdate
  BY <1>4 DEF PutUpdate, ReadyToPut
<1>5. CASE PutFails
  BY <1>5 DEF PutFails, ReadyToPut
<1>6. CASE PutRefused
  BY <1>6, PutRefusedKeepsForeseen
<1>7. CASE RecordUpdate
  BY <1>7, RecordUpdateKeepsForeseen
<1> QED
  BY <1>1, <1>2, <1>3, <1>4, <1>5, <1>6, <1>7 DEF Update

\* Delete keeps Foreseen.
LEMMA DeleteKeepsForeseen ==
    ASSUME TypeOK, Foreseen, Delete PROVE Foreseen'
<1> USE DEF TypeOK, Ids, At, StartPass, EndPass, GoTo, Continue, WriteStatus, WriteConditions,
           Fault, cr, meta, status, api, pass, world, Is, Has, Stale, Present, Visible,
           Addressed, Reader, Known, Addressable, Observable, Adopts, Promised,
           CreateToCome, Foreseen,
           Numbered, PassIsPlaced, CreateIsBlind, PendingWaits, OneResource
<1>1. CASE StartDelete
  BY <1>1 DEF StartDelete
<1>2. CASE HoldDelete
  BY <1>2 DEF HoldDelete
<1>3. CASE AbandonDelete
  BY <1>3 DEF AbandonDelete, AbandonReason
<1>4. CASE CallDelete
  BY <1>4, CallDeleteKeepsForeseen
<1>5. CASE VerifyDelete
  BY <1>5 DEF VerifyDelete, Verdict
<1>6. CASE VerifyFails
  BY <1>6 DEF VerifyFails
<1>7. CASE ReleaseFinalizer
  BY <1>7 DEF ReleaseFinalizer
<1> QED
  BY <1>1, <1>2, <1>3, <1>4, <1>5, <1>6, <1>7 DEF Delete

\* Environment keeps Foreseen.
LEMMA EnvironmentKeepsForeseen ==
    ASSUME TypeOK, Foreseen, Environment PROVE Foreseen'
<1> USE DEF TypeOK, Ids, At, StartPass, EndPass, GoTo, Continue, WriteStatus, WriteConditions,
           Fault, cr, meta, status, api, pass, world, Is, Has, Stale, Present, Visible,
           Addressed, Reader, Known, Addressable, Observable, Adopts, Promised,
           CreateToCome, Foreseen,
           Numbered, PassIsPlaced, CreateIsBlind, PendingWaits, OneResource
<1>1. CASE UserDeletes
  BY <1>1 DEF UserDeletes, Outdate
<1>2. CASE UserEdits
  BY <1>2 DEF UserEdits, Outdate
<1>3. CASE OtherWriter
  BY <1>3 DEF OtherWriter, Outdate
<1>4. CASE Materialise
  BY <1>4 DEF Materialise
<1>5. CASE Reap
  BY <1>5 DEF Reap
<1>6. CASE Lose
  BY <1>6 DEF Lose
<1>7. CASE ReferentAppears
  BY <1>7 DEF ReferentAppears
<1>8. CASE RemoveDefinition
  BY <1>8 DEF RemoveDefinition
<1>9. CASE Crash
  BY <1>9 DEF Crash
<1> QED
  BY <1>1, <1>2, <1>3, <1>4, <1>5, <1>6, <1>7, <1>8, <1>9 DEF Environment

\* The initial states: at most a resource to adopt, nothing decided on.
LEMMA InitForeseen == Init => Foreseen
<1> SUFFICES ASSUME Init PROVE Foreseen
  OBVIOUS
<1>1. /\ coming = {} /\ dying = {} /\ late = {} /\ lost = {} /\ id = 0 /\ target = 0
      /\ pc = "idle" /\ seen = "none" /\ queue = {} /\ ready = "none" /\ phase = "live"
  BY DEF Init
<1>2. minted \in {0, 1} /\ live = 1 .. minted
  BY DEF Init
<1>3. 1 .. 0 = {} /\ 1 .. 1 = {1}
  OBVIOUS
<1>4. Numbered
  BY <1>1, <1>2 DEF Numbered
<1>5. PassIsPlaced
  BY <1>1 DEF PassIsPlaced
<1>6. CreateIsBlind
  <2>1. SUFFICES ASSUME ~Is("named"), Is("async"), ~(live \subseteq late)
                 PROVE  minted = 1 /\ Has("findby")
    BY <1>1 DEF CreateIsBlind, CreateToCome
  <2>2. minted = 1
    BY <1>2, <1>3, <2>1
  <2> QED
    BY <2>1, <2>2, <1>3 DEF Init, Adopts, Has, Is
<1>7. PendingWaits
  BY <1>1 DEF PendingWaits, CreateToCome
<1>8. OneResource
  BY <1>2, <1>3 DEF OneResource
<1> QED
  BY <1>4, <1>5, <1>6, <1>7, <1>8 DEF Foreseen

\* Every reachable state is Foreseen.
LEMMA AlwaysForeseen == Spec => [](TypeOK /\ Foreseen)
<1>1. Spec => []TypeOK
  BY TypeCorrect
<1>2. TypeOK /\ Foreseen /\ [Next]_vars => Foreseen'
  <2>1. SUFFICES ASSUME TypeOK, Foreseen, [Next]_vars PROVE Foreseen'
    OBVIOUS
  <2>2. CASE UNCHANGED vars
    BY <2>1, <2>2 DEF Foreseen, Numbered, PassIsPlaced, CreateIsBlind, PendingWaits,
       OneResource, Promised, CreateToCome, Present, Visible, Addressed, Reader, Known,
       Addressable, Observable, Adopts, Has, Is, vars, cr, meta, status, api, pass
  <2> QED
    BY <2>1, <2>2, ObserveKeepsForeseen, CreateKeepsForeseen, UpdateKeepsForeseen,
       DeleteKeepsForeseen, EnvironmentKeepsForeseen DEF Next
<1> QED
  BY <1>1, <1>2, InitForeseen, PTL DEF Spec

\* The steps of Observe and Update, and those of the environment but for the API's
\* and the user's, leave what exists and the life of the CR alone.
Quiet == UNCHANGED <<kind, phase, live, lost, minted>>

\* Every step of an Observe is quiet.
LEMMA ObserveIsQuiet == Observe => Quiet
  BY DEF Observe, StartObserve, RecoverLanded, RecoverAbsent, RecoverUndetermined,
     ReadFound, ReadNothing, ReadDenied, ReadFailed, OpenConflicts, RecordIdentity,
     ConcludeInSync, ConcludeDrifted, ConcludeAbsent, ConcludeBlind, ConcludeDenied,
     ConcludeFailed, Quiet, cr, meta, api, world

\* So is every step of an Update.
LEMMA UpdateIsQuiet == Update => Quiet
  BY DEF Update, StartUpdate, SkipUpdate, AwaitReferentAgain, PutUpdate, PutFails,
     PutRefused, RecordUpdate, Quiet, cr, meta, api, world

\* A Create is quiet but for the request that lands.
LEMMA CreateIsQuiet == Create => Quiet \/ PostCreate \/ PostCreateLost
  BY DEF Create, StartCreate, SkipCreate, AwaitReferent, PostCreateFails,
     PostCreateRefused, RecordCreate, SettleCreate, Quiet, cr, meta, api, world

\* A Delete is quiet but for its call and the release.
LEMMA DeleteIsQuiet == Delete => Quiet \/ CallDelete \/ ReleaseFinalizer
  BY DEF Delete, StartDelete, HoldDelete, AbandonDelete, VerifyDelete, VerifyFails,
     Quiet, cr, meta, api, world

\* The environment is quiet but for the user's deletion and what the API does.
LEMMA EnvironmentIsQuiet ==
    Environment => Quiet \/ UserDeletes \/ Materialise \/ Reap \/ Lose
  BY DEF Environment, UserEdits, OtherWriter, ReferentAppears, RemoveDefinition, Crash,
     Quiet, cr, meta, api, world

\* Nothing but a create that lands makes a resource.
LEMMA OnlyPostCreateMints ==
    ASSUME [Next]_vars, minted' # minted
    PROVE  ReadyToPost /\ Accepts /\ Land
<1>1. ~(UNCHANGED vars) /\ ~Quiet
  BY DEF vars, Quiet, api
<1>2. ~CallDelete /\ ~ReleaseFinalizer
  BY DEF CallDelete, ReleaseFinalizer, api
<1>3. ~UserDeletes /\ ~Materialise /\ ~Reap /\ ~Lose
  BY DEF UserDeletes, Materialise, Reap, Lose, api
<1>4. PostCreate \/ PostCreateLost
  BY <1>1, <1>2, <1>3, ObserveIsQuiet, CreateIsQuiet, UpdateIsQuiet, DeleteIsQuiet,
     EnvironmentIsQuiet DEF Next
<1> QED
  BY <1>4 DEF PostCreate, PostCreateLost

\* CreatesOnlyWhenBlind, for every kind, bound and selection of disturbances: a
\* create is never sent next to a resource the controller could have read, unless
\* the API accepted it with a 202 and brought it up since.
THEOREM CreatesAreBlind == Spec => CreatesOnlyWhenBlind
<1>1. Spec => [](TypeOK /\ Foreseen)
  BY AlwaysForeseen
<1>2. TypeOK /\ Foreseen /\ [Next]_vars =>
        [minted' > minted /\ ~Is("named") => Visible \subseteq late]_vars
  <2>1. SUFFICES ASSUME TypeOK, Foreseen, [Next]_vars, minted' > minted, ~Is("named")
                 PROVE  Visible \subseteq late
    OBVIOUS
  <2>2. ReadyToPost
    BY <2>1, OnlyPostCreateMints DEF TypeOK
  <2> QED
    BY <2>1, <2>2 DEF Foreseen, CreateIsBlind, CreateToCome, ReadyToPost, At
<1> QED
  BY <1>1, <1>2, PTL DEF Spec, CreatesOnlyWhenBlind

\* PendingIsNotRecreated, for every kind, bound and selection of disturbances: no
\* create while the CR waits under Pending for the resource it names, or for the
\* first the API ever accepted.
THEOREM PendingHolds == Spec => PendingIsNotRecreated
<1> DEFINE Recreates ==
        minted' > minted /\ Reader # "none" /\ coming # {}
            /\ (id \in coming \/ live \cup lost = {})
<1>1. Spec => [](TypeOK /\ Foreseen)
  BY AlwaysForeseen
<1>2. TypeOK /\ Foreseen /\ [Next]_vars => [Recreates => ready # "Pending"]_vars
  <2>1. SUFFICES ASSUME TypeOK, Foreseen, [Next]_vars, Recreates, ready = "Pending"
                 PROVE  FALSE
    OBVIOUS
  <2>2. ReadyToPost /\ Accepts
    BY <2>1, OnlyPostCreateMints DEF TypeOK
  <2>3. pc = "create" /\ ~Is("named")
    BY <2>1, <2>2 DEF ReadyToPost, At, Accepts
  <2> QED
    BY <2>1, <2>3 DEF Foreseen, PendingWaits, CreateToCome
<1> QED
  BY <1>1, <1>2, PTL DEF Spec, PendingIsNotRecreated

(***************************************************************************)
(* The refinement of ManagedResource.                                      *)
(***************************************************************************)
\* What the CR holds and what it lets the controller reach.
Held  == IF Promised THEN live ELSE {}
Reach == IF ~Present("definition") THEN {} ELSE IF Is("named") THEN Ids ELSE Ids \cap {id}

\* A quiet step changes at most what the controller can reach.
LEMMA QuietIdentifies == Quiet => Contract!Identify
  BY DEF Quiet, Contract!Identify, Promised, Adopts, Is, Has, Present

\* A create that lands provides the one resource of a CR that had none.
LEMMA LandProvisions ==
    ASSUME TypeOK, Foreseen, Foreseen', PostCreate \/ PostCreateLost
    PROVE  [Contract!Next]_Contract!vars
<1>1. /\ minted' = minted + 1 /\ minted \in Nat /\ minted + 1 \in Ids /\ phase # "gone"
      /\ UNCHANGED <<kind, phase, id, lost, present>>
      /\ ~Is("async") => live' = live \cup {minted + 1}
  BY DEF PostCreate, PostCreateLost, ReadyToPost, At, Accepts, Land, Ids, TypeOK, cr, meta,
     status, world
<1>2. CASE Promised
  <2>1. minted = 0
    BY <1>1, <1>2 DEF Foreseen, OneResource, Promised, Adopts, Is
  <2>2. live = {} /\ live' = {1} /\ 1 \in Ids
    BY <1>1, <1>2, <2>1 DEF Foreseen, Numbered, Promised
  <2>3. Promised'
    BY <1>1, <1>2 DEF Promised, Adopts, Is
  <2>4. Contract!Provision
    BY <1>1, <1>2, <2>2, <2>3 DEF Contract!Provision, Present, Is
  <2> QED
    BY <2>4 DEF Contract!Next
<1>3. CASE ~Promised
  <2>1. ~Promised'
    BY <1>1, <1>3 DEF Promised, Adopts, Is
  <2> QED
    BY <1>1, <1>3, <2>1 DEF Contract!vars, Present, Is
<1> QED
  BY <1>2, <1>3

\* What takes resources away leaves a CR with a promise its one resource or none.
LEMMA LossDestroys ==
    ASSUME TypeOK, Foreseen, live' \subseteq live, lost \subseteq lost',
           UNCHANGED <<kind, phase, id, present>>
    PROVE  [Contract!Next]_Contract!vars
<1>1. Held' = Held \/ Held' = {}
  <2>1. SUFFICES ASSUME Promised, Promised' PROVE live' = live \/ live' = {}
    BY DEF Held, Promised, Adopts, Is
  <2>2. live \subseteq {1}
    BY <2>1 DEF Foreseen, OneResource, Numbered, TypeOK
  <2> QED
    BY <2>2
<1>2. Reach' = Reach /\ phase' = phase
  BY DEF Reach, Present, Is
<1> QED
  BY <1>1, <1>2 DEF Held, Reach, Contract!Next, Contract!Destroy, Contract!vars

\* The CR goes when nothing is left that it lets the controller reach.
LEMMA ReleaseReleases ==
    ASSUME TypeOK, Foreseen, ReleaseIsJustified, ReleaseFinalizer
    PROVE  [Contract!Next]_Contract!vars
<1>1. /\ pc = "release" /\ phase = "deleting" /\ phase' \in {phase, "gone"}
      /\ UNCHANGED <<kind, id, live, lost, present>>
  BY DEF ReleaseFinalizer, At, Foreseen, PassIsPlaced, TypeOK, Phases, status, api, world
<1>2. Held' = Held /\ Reach' = Reach
  BY <1>1 DEF Held, Reach, Promised, Adopts, Is, Present
<1>3. Held \cap Reach = {}
  <2>1. CASE seen = "noDefinition"
    BY <1>1, <2>1 DEF Foreseen, PassIsPlaced, Reach
  <2>2. CASE seen = "noDeleteVerb" \/ (seen = "trusted" /\ ~Has("get"))
    BY <1>1, <2>2 DEF Foreseen, PassIsPlaced, Held, Promised, Has
  <2>3. CASE seen = "unaddressable"
    BY <1>1, <2>3 DEF Foreseen, PassIsPlaced, Addressable, Reach, Ids
  <2>4. CASE seen = "verified" /\ Addressed \subseteq late
    BY <2>4 DEF Foreseen, Numbered, Held, Reach, Promised, Is, Addressed
  <2> QED
    BY <1>1, <2>1, <2>2, <2>3, <2>4 DEF ReleaseIsJustified
<1> QED
  BY <1>1, <1>2, <1>3 DEF Held, Reach, Contract!Next, Contract!Release, Contract!vars

\* What comes up after a 202 is no part of the promise.
LEMMA MaterialiseStutters ==
    ASSUME TypeOK, Foreseen, Materialise PROVE UNCHANGED Contract!vars
<1>1. coming # {} /\ UNCHANGED <<kind, phase, id, lost, present>>
  BY DEF Materialise, cr, meta, status, world
<1>2. ~Promised /\ ~Promised'
  BY <1>1 DEF Foreseen, Numbered, Promised, Is
<1> QED
  BY <1>1, <1>2 DEF Contract!vars, Present, Is

\* KeepsContract, for every kind, bound and selection of disturbances: the reconcile
\* loop implements ManagedResource.
THEOREM LifecycleKeepsContract == Spec => KeepsContract
<1>1. Spec => [](TypeOK /\ Foreseen)
  BY AlwaysForeseen
<1>2. Spec => []ReleaseIsJustified
  BY ReleasesAreJustified
<1>3. Init => Contract!Init
  <2>1. SUFFICES ASSUME Init PROVE Contract!Init
    OBVIOUS
  <2>2. live = {} \/ (live = {1} /\ 1 \in Ids)
    BY <2>1, 1 .. 0 = {}, 1 .. 1 = {1} DEF Init, Ids
  <2> QED
    BY <2>1, <2>2 DEF Init, Contract!Init
<1>4. TypeOK /\ Foreseen /\ Foreseen' /\ ReleaseIsJustified /\ [Next]_vars
        => [Contract!Next]_Contract!vars
  <2>1. SUFFICES ASSUME TypeOK, Foreseen, Foreseen', ReleaseIsJustified, [Next]_vars
                 PROVE  [Contract!Next]_Contract!vars
    OBVIOUS
  <2>2. CASE Quiet
    BY <2>2, QuietIdentifies DEF Contract!Next
  <2>3. CASE PostCreate \/ PostCreateLost
    BY <2>1, <2>3, LandProvisions
  <2>4. CASE CallDelete \/ Reap \/ Lose
    <3>1. live' \subseteq live /\ lost \subseteq lost' /\ UNCHANGED <<kind, phase, id, present>>
      BY <2>4 DEF CallDelete, Reap, Lose, cr, meta, status, world
    <3> QED
      BY <2>1, <3>1, LossDestroys
  <2>5. CASE ReleaseFinalizer
    BY <2>1, <2>5, ReleaseReleases
  <2>6. CASE Materialise
    BY <2>1, <2>6, MaterialiseStutters
  <2>7. CASE UserDeletes
    BY <2>7 DEF UserDeletes, Contract!Next, Contract!Abandon, Promised, Adopts, Is,
       Present, status, api, world
  <2>8. CASE UNCHANGED vars
    BY <2>8 DEF vars, cr, meta, status, api, Contract!vars, Promised, Adopts, Is, Present
  <2> QED
    BY <2>1, <2>2, <2>3, <2>4, <2>5, <2>6, <2>7, <2>8, ObserveIsQuiet, CreateIsQuiet,
       UpdateIsQuiet, DeleteIsQuiet, EnvironmentIsQuiet DEF Next
<1> QED
  BY <1>1, <1>2, <1>3, <1>4, PTL DEF Spec, KeepsContract, Contract!Spec
=============================================================================
