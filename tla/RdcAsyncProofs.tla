---------------------------- MODULE RdcAsyncProofs ----------------------------
(***************************************************************************)
(* Theorems of RdcAsync for every set of kinds, every bound on triggers    *)
(* and every selection of disturbances.                                    *)
(***************************************************************************)
EXTENDS RdcAsync, TLAPS

USE KindsAssumption, FaultsAssumption, BoundsAssumption

\* Whatever verb reads, it finds resources that exist.
LEMMA VisibleIsLive == Visible \subseteq live
<1>1. CASE Reader = "get"
  BY <1>1 DEF Visible
<1>2. CASE Reader = "findby"
  BY <1>2 DEF Visible
<1>3. CASE Reader = "none"
  BY <1>3 DEF Visible
<1> QED
  BY <1>1, <1>2, <1>3 DEF Reader

(***************************************************************************)
(* Type correctness: one lemma per handler, one step per action.           *)
(***************************************************************************)

\* The recovery of a create keeps the types.
LEMMA RecoveryKeepsType ==
    ASSUME TypeOK, Recover PROVE TypeOK'
<1> USE DEF TypeOK, Steps, Answers, Readys, Ids, At, StartPass, EndPass, Continue, GoTo,
            Patched, WriteStatus, WriteConditions, Stale, Fault, cr, status, api, pass
<1>1. CASE RecoverLanded
  BY <1>1 DEF RecoverLanded, CanTell
<1>2. CASE RecoverAbsent
  BY <1>2 DEF RecoverAbsent
<1>3. CASE RecoverUndetermined
  BY <1>3 DEF RecoverUndetermined, CanTell
<1> QED
  BY <1>1, <1>2, <1>3 DEF Recover

\* Polling the recorded operation keeps the types.
LEMMA PollingKeepsType ==
    ASSUME TypeOK, DriveAsyncRequeue PROVE TypeOK'
<1> USE DEF TypeOK, Steps, Answers, Readys, Ids, At, StartPass, EndPass, Continue, GoTo,
            Patched, WriteStatus, WriteConditions, Stale, Fault, cr, status, api, pass
<1>1. CASE PollPending
  BY <1>1 DEF PollPending
<1>2. CASE PollSucceeded
  BY <1>2 DEF PollSucceeded
<1>3. CASE PollFailed
  BY <1>3 DEF PollFailed
<1>4. CASE PollUnanswered
  BY <1>4 DEF PollUnanswered
<1>5. CASE ReRead
  BY <1>5 DEF ReRead
<1>6. CASE ReReadFails
  BY <1>6 DEF ReReadFails
<1>7. CASE ClearHandle
  BY <1>7 DEF ClearHandle
<1>8. CASE ClearFails
  BY <1>8 DEF ClearFails
<1>9. CASE RecordFailure
  BY <1>9 DEF RecordFailure
<1>10. CASE ClearFailedHandle
  BY <1>10 DEF ClearFailedHandle
<1> QED
  BY <1>1, <1>2, <1>3, <1>4, <1>5, <1>6, <1>7, <1>8, <1>9, <1>10 DEF DriveAsyncRequeue

\* The read of Observe keeps the types.
LEMMA ReadingKeepsType ==
    ASSUME TypeOK, Read PROVE TypeOK'
<1> USE DEF TypeOK, Steps, Answers, Readys, Ids, At, StartPass, EndPass, Continue, GoTo,
            Patched, WriteStatus, WriteConditions, Stale, Fault, cr, status, api, pass
<1>1. CASE ReadFound
  BY <1>1, VisibleIsLive DEF ReadFound, Reading
<1>2. CASE ReadAbsent
  <2>1. queue' \subseteq {"Create"}
    BY <1>2 DEF ReadAbsent
  <2>2. ready' \in Readys /\ synced' \in {"none", "success", "error"} /\ id' \in 0 .. MaxCreates
    BY <1>2 DEF ReadAbsent
  <2> QED
    BY <1>2, <2>1, <2>2 DEF ReadAbsent
<1>3. CASE ReadBlind
  <2>1. queue' \subseteq {"Create"}
    BY <1>3 DEF ReadBlind
  <2>2. ready' \in Readys /\ synced' \in {"none", "success", "error"} /\ id' \in 0 .. MaxCreates
    BY <1>3 DEF ReadBlind
  <2> QED
    BY <1>3, <2>1, <2>2 DEF ReadBlind
<1>4. CASE ReadFails
  BY <1>4 DEF ReadFails, Reading
<1> QED
  BY <1>1, <1>2, <1>3, <1>4 DEF Read

\* Create keeps the types.
LEMMA CreateKeepsType ==
    ASSUME TypeOK, Create PROVE TypeOK'
<1> USE DEF TypeOK, Steps, Answers, Readys, Ids, At, StartPass, EndPass, Continue, GoTo,
            Patched, WriteStatus, WriteConditions, Stale, Fault, cr, status, api, pass
<1>1. CASE StartCreate
  BY <1>1 DEF StartCreate
<1>2. CASE TriggerAnswered
  BY <1>2 DEF TriggerAnswered, Trigger
<1>3. CASE TriggerLost
  BY <1>3 DEF TriggerLost, Trigger
<1>4. CASE TriggerFails
  BY <1>4 DEF TriggerFails
<1>5. CASE NoteHandle
  BY <1>5 DEF NoteHandle
<1>6. CASE NoteFails
  BY <1>6 DEF NoteFails
<1>7. CASE PollUntilTerminal
  BY <1>7 DEF PollUntilTerminal
<1>8. CASE PollGivesUp
  BY <1>8 DEF PollGivesUp
<1>9. CASE PostGet
  BY <1>9 DEF PostGet
<1>10. CASE RecordCreate
  BY <1>10 DEF RecordCreate
<1>11. CASE SettleCreate
  BY <1>11 DEF SettleCreate
<1> QED
  BY <1>1, <1>2, <1>3, <1>4, <1>5, <1>6, <1>7, <1>8, <1>9, <1>10, <1>11 DEF Create

\* Everybody else keeps the types.
LEMMA EnvironmentKeepsType ==
    ASSUME TypeOK, Environment PROVE TypeOK'
<1> USE DEF TypeOK, Steps, Answers, Readys, Ids, At, StartPass, EndPass, Continue, GoTo,
            Patched, WriteStatus, WriteConditions, Stale, Fault, cr, status, api, pass
<1>1. CASE OperationSucceeds
  BY <1>1 DEF OperationSucceeds
<1>2. CASE OperationFails
  BY <1>2 DEF OperationFails
<1>3. CASE OtherWriter
  BY <1>3 DEF OtherWriter
<1>4. CASE Crash
  BY <1>4 DEF Crash
<1> QED
  BY <1>1, <1>2, <1>3, <1>4 DEF Environment

\* Every reachable state has its types.
THEOREM TypeCorrect == Spec => []TypeOK
<1>1. Init => TypeOK
  BY DEF Init, TypeOK, Steps, Answers, Readys, Ids
<1>2. TypeOK /\ [Next]_vars => TypeOK'
  <2> SUFFICES ASSUME TypeOK, [Next]_vars PROVE TypeOK'
    OBVIOUS
  <2>1. CASE StartObserve
    BY <2>1 DEF StartObserve, TypeOK, Steps, Answers, At, StartPass, GoTo, cr, status, api
  <2>2. CASE OpenConflicts
    BY <2>2 DEF OpenConflicts, TypeOK, Steps, Answers, At, StartPass, EndPass, GoTo, cr, status, api
  <2>3. CASE UNCHANGED vars
    BY <2>3 DEF vars, cr, status, api, pass, TypeOK
  <2> QED
    BY <2>1, <2>2, <2>3, RecoveryKeepsType, PollingKeepsType, ReadingKeepsType,
       CreateKeepsType, EnvironmentKeepsType DEF Next, Observe
<1> QED
  BY <1>1, <1>2, PTL DEF Spec

(***************************************************************************)
(* The inductive invariant: which operation the CR names, and why a step   *)
(* may give it up.                                                         *)
(***************************************************************************)

\* The recovery of a create keeps the invariant.
LEMMA RecoveryKeepsInv ==
    ASSUME TypeOK, AsyncInv, Recover PROVE AsyncInv'
<1> USE DEF AsyncInv, OperationsAreAccounted, CreateMeansNoHandle, PollIsRemembered,
            PendingIsJustified, TypeOK, Is, At, StartPass, EndPass, Continue, GoTo, Patched,
            WriteStatus, WriteConditions, Stale, Fault, Ids, cr, status, api, pass
<1>1. CASE RecoverLanded
  BY <1>1 DEF RecoverLanded, CanTell
<1>2. CASE RecoverAbsent
  BY <1>2 DEF RecoverAbsent
<1>3. CASE RecoverUndetermined
  BY <1>3 DEF RecoverUndetermined, CanTell
<1> QED
  BY <1>1, <1>2, <1>3 DEF Recover

\* Polling the recorded operation keeps the invariant.
LEMMA PollingKeepsInv ==
    ASSUME TypeOK, AsyncInv, DriveAsyncRequeue PROVE AsyncInv'
<1> USE DEF AsyncInv, OperationsAreAccounted, CreateMeansNoHandle, PollIsRemembered,
            PendingIsJustified, TypeOK, Is, At, StartPass, EndPass, Continue, GoTo, Patched,
            WriteStatus, WriteConditions, Stale, Fault, Ids, cr, status, api, pass
<1>1. CASE PollPending
  BY <1>1 DEF PollPending
<1>2. CASE PollSucceeded
  BY <1>2 DEF PollSucceeded
<1>3. CASE PollFailed
  BY <1>3 DEF PollFailed
<1>4. CASE PollUnanswered
  BY <1>4 DEF PollUnanswered
<1>5. CASE ReRead
  BY <1>5 DEF ReRead
<1>6. CASE ReReadFails
  BY <1>6 DEF ReReadFails
<1>7. CASE ClearHandle
  BY <1>7 DEF ClearHandle
<1>8. CASE ClearFails
  BY <1>8 DEF ClearFails
<1>9. CASE RecordFailure
  BY <1>9 DEF RecordFailure
<1>10. CASE ClearFailedHandle
  BY <1>10 DEF ClearFailedHandle
<1> QED
  BY <1>1, <1>2, <1>3, <1>4, <1>5, <1>6, <1>7, <1>8, <1>9, <1>10 DEF DriveAsyncRequeue

\* The read of Observe keeps the invariant.
LEMMA ReadingKeepsInv ==
    ASSUME TypeOK, AsyncInv, Read PROVE AsyncInv'
<1> USE DEF AsyncInv, OperationsAreAccounted, CreateMeansNoHandle, PollIsRemembered,
            PendingIsJustified, TypeOK, Is, At, StartPass, EndPass, Continue, GoTo, Patched,
            WriteStatus, WriteConditions, Stale, Fault, Ids, cr, status, api, pass
<1>1. CASE ReadFound
  BY <1>1, VisibleIsLive DEF ReadFound, Reading
<1>2. CASE ReadAbsent
  BY <1>2 DEF ReadAbsent, Reading
<1>3. CASE ReadBlind
  BY <1>3 DEF ReadBlind, Reading
<1>4. CASE ReadFails
  BY <1>4 DEF ReadFails, Reading
<1> QED
  BY <1>1, <1>2, <1>3, <1>4 DEF Read

\* Create keeps the invariant.
LEMMA CreateKeepsInv ==
    ASSUME TypeOK, AsyncInv, Create PROVE AsyncInv'
<1> USE DEF AsyncInv, OperationsAreAccounted, CreateMeansNoHandle, PollIsRemembered,
            PendingIsJustified, TypeOK, Is, At, StartPass, EndPass, Continue, GoTo, Patched,
            WriteStatus, WriteConditions, Stale, Fault, Ids, cr, status, api, pass
<1>1. CASE StartCreate
  BY <1>1 DEF StartCreate
<1>2. CASE TriggerAnswered
  BY <1>2 DEF TriggerAnswered, Trigger
<1>3. CASE TriggerLost
  BY <1>3 DEF TriggerLost, Trigger
<1>4. CASE TriggerFails
  BY <1>4 DEF TriggerFails
<1>5. CASE NoteHandle
  <2>1. handle = 0
    BY <1>5 DEF NoteHandle
  <2>2. running \cap recorded = {}
    <3>1. running \cap recorded \subseteq {0}
      BY <2>1
    <3>2. 0 \notin running
      BY DEF TypeOK, Ids
    <3> QED
      BY <3>1, <3>2
  <2>3. OperationsAreAccounted'
    BY <1>5, <2>1, <2>2 DEF NoteHandle
  <2>4. target # 0
    BY <1>5 DEF NoteHandle
  <2>5. PollIsRemembered' /\ CreateMeansNoHandle' /\ PendingIsJustified'
    BY <1>5, <2>4 DEF NoteHandle
  <2> QED
    BY <1>5, <2>1, <2>3, <2>4, <2>5 DEF NoteHandle
<1>6. CASE NoteFails
  BY <1>6 DEF NoteFails
<1>7. CASE PollUntilTerminal
  BY <1>7 DEF PollUntilTerminal
<1>8. CASE PollGivesUp
  BY <1>8 DEF PollGivesUp
<1>9. CASE PostGet
  BY <1>9 DEF PostGet
<1>10. CASE RecordCreate
  BY <1>10 DEF RecordCreate
<1>11. CASE SettleCreate
  BY <1>11 DEF SettleCreate
<1> QED
  BY <1>1, <1>2, <1>3, <1>4, <1>5, <1>6, <1>7, <1>8, <1>9, <1>10, <1>11 DEF Create

\* Everybody else keeps the invariant.
LEMMA EnvironmentKeepsInv ==
    ASSUME TypeOK, AsyncInv, Environment PROVE AsyncInv'
<1> USE DEF AsyncInv, OperationsAreAccounted, CreateMeansNoHandle, PollIsRemembered,
            PendingIsJustified, TypeOK, Is, At, StartPass, EndPass, Continue, GoTo, Patched,
            WriteStatus, WriteConditions, Stale, Fault, Ids, cr, status, api, pass
<1>1. CASE OperationSucceeds
  BY <1>1 DEF OperationSucceeds
<1>2. CASE OperationFails
  BY <1>2 DEF OperationFails
<1>3. CASE OtherWriter
  BY <1>3 DEF OtherWriter
<1>4. CASE Crash
  BY <1>4 DEF Crash
<1> QED
  BY <1>1, <1>2, <1>3, <1>4 DEF Environment

\* The invariant holds of every reachable state.
LEMMA Invariance == Spec => []AsyncInv
<1>1. Init => AsyncInv
  BY DEF Init, AsyncInv, OperationsAreAccounted, CreateMeansNoHandle, PollIsRemembered,
         PendingIsJustified
<1>2. TypeOK /\ AsyncInv /\ [Next]_vars => AsyncInv'
  <2> SUFFICES ASSUME TypeOK, AsyncInv, [Next]_vars PROVE AsyncInv'
    OBVIOUS
  <2> USE DEF AsyncInv, OperationsAreAccounted, CreateMeansNoHandle, PollIsRemembered,
              PendingIsJustified, Is
  <2>1. CASE StartObserve
    BY <2>1 DEF StartObserve, At, StartPass, GoTo, cr, status, api
  <2>2. CASE OpenConflicts
    BY <2>2 DEF OpenConflicts, At, StartPass, EndPass, GoTo, cr, status, api
  <2>3. CASE UNCHANGED vars
    BY <2>3 DEF vars, cr, status, api, pass
  <2> QED
    BY <2>1, <2>2, <2>3, RecoveryKeepsInv, PollingKeepsInv, ReadingKeepsInv, CreateKeepsInv,
       EnvironmentKeepsInv DEF Next, Observe
<1> QED
  BY <1>1, <1>2, TypeCorrect, PTL DEF Spec

(***************************************************************************)
(* What follows.                                                           *)
(***************************************************************************)

\* A CR that is Pending and names no operation has its resource: a failed operation
\* is never followed by a 404 that is taken for a create under way.
THEOREM PendingHasReason == Spec => []PendingIsJustified
<1>1. AsyncInv => PendingIsJustified
  BY DEF AsyncInv
<1> QED
  BY <1>1, Invariance, PTL

\* Only a trigger makes a new operation.
LEMMA OnlyTriggerMints ==
    ASSUME Next PROVE Trigger \/ minted' = minted
<1>1. CASE Recover
  BY <1>1
  DEF Recover, RecoverLanded, RecoverAbsent, RecoverUndetermined, cr, api
<1>2. CASE DriveAsyncRequeue
  BY <1>2
  DEF DriveAsyncRequeue, PollPending, PollSucceeded, PollFailed, PollUnanswered, ReRead,
           ReReadFails, ClearHandle, ClearFails, RecordFailure, ClearFailedHandle,
           cr, api
<1>3. CASE Read
  BY <1>3
  DEF Read, ReadFound, ReadAbsent, ReadBlind, ReadFails, cr, api
<1>4. CASE Create
  BY <1>4
  DEF Create, StartCreate, TriggerAnswered, TriggerLost, TriggerFails, NoteHandle,
           NoteFails, PollUntilTerminal, PollGivesUp, PostGet, RecordCreate,
           SettleCreate, cr, api
<1>5. CASE Environment
  BY <1>5
  DEF Environment, OperationSucceeds, OperationFails, OtherWriter, Crash, cr, api
<1>6. CASE StartObserve \/ OpenConflicts
  BY <1>6 DEF StartObserve, OpenConflicts, cr, api
<1> QED
  BY <1>1, <1>2, <1>3, <1>4, <1>5, <1>6 DEF Next, Observe

\* Only these three steps write the handle.
LEMMA OnlyTheseMoveHandle ==
    ASSUME Next PROVE ClearHandle \/ ClearFailedHandle \/ NoteHandle \/ handle' = handle
<1>1. CASE Recover
  BY <1>1
  DEF Recover, RecoverLanded, RecoverAbsent, RecoverUndetermined, cr, api
<1>2. CASE DriveAsyncRequeue
  BY <1>2
  DEF DriveAsyncRequeue, PollPending, PollSucceeded, PollFailed, PollUnanswered, ReRead,
           ReReadFails, ClearFails, RecordFailure, cr, api
<1>3. CASE Read
  BY <1>3
  DEF Read, ReadFound, ReadAbsent, ReadBlind, ReadFails, cr, api
<1>4. CASE Create
  BY <1>4
  DEF Create, StartCreate, TriggerAnswered, TriggerLost, TriggerFails, Trigger, NoteFails,
           PollUntilTerminal, PollGivesUp, PostGet, RecordCreate, SettleCreate, cr,
           api
<1>5. CASE Environment
  BY <1>5
  DEF Environment, OperationSucceeds, OperationFails, OtherWriter, Crash, cr, api
<1>6. CASE StartObserve \/ OpenConflicts
  BY <1>6 DEF StartObserve, OpenConflicts, cr, api
<1> QED
  BY <1>1, <1>2, <1>3, <1>4, <1>5, <1>6 DEF Next, Observe

\* No trigger is sent while an operation whose handle reached the CR is running.
THEOREM NoSecondTrigger == Spec => FollowedNotRepeated
<1>1. TypeOK /\ AsyncInv /\ [Next]_vars => [minted' > minted => running \cap recorded = {}]_vars
  <2> SUFFICES ASSUME TypeOK, AsyncInv, Next, minted' > minted
               PROVE  running \cap recorded = {}
    BY DEF vars
  <2>1. CASE Trigger
    <3>1. handle = 0
      BY <2>1 DEF Trigger, At, AsyncInv, CreateMeansNoHandle
    <3>2. 0 \notin running
      BY DEF TypeOK, Ids
    <3> QED
      BY <3>1, <3>2 DEF AsyncInv, OperationsAreAccounted
  <2>2. CASE minted' = minted
    BY <2>2 DEF TypeOK
  <2>3. Trigger \/ minted' = minted
    BY OnlyTriggerMints
  <2> QED
    BY <2>1, <2>2, <2>3
<1> QED
  BY <1>1, TypeCorrect, Invariance, PTL DEF Spec, FollowedNotRepeated

\* A kind that re-reads its resource gives a handle up only with the identifier on
\* the CR, or with the failure of the operation.
THEOREM HandleIsTraded == Spec => HandleIsGivenUpForIdentity
<1>1. TypeOK /\ AsyncInv /\ [Next]_vars
        => [handle # 0 /\ handle' = 0 /\ Is("postGet") => id \in live \/ handle \in failed]_vars
  <2> SUFFICES ASSUME TypeOK, AsyncInv, Next, handle # 0, handle' = 0, Is("postGet")
               PROVE  id \in live \/ handle \in failed
    BY DEF vars
  <2>1. CASE ClearHandle
    BY <2>1 DEF ClearHandle, At, AsyncInv, PollIsRemembered
  <2>2. CASE ClearFailedHandle
    BY <2>2 DEF ClearFailedHandle, At, AsyncInv, PollIsRemembered
  <2>3. CASE NoteHandle
    BY <2>3 DEF NoteHandle, At, AsyncInv, OperationsAreAccounted
  <2> QED
    BY <2>1, <2>2, <2>3, OnlyTheseMoveHandle
<1> QED
  BY <1>1, TypeCorrect, Invariance, PTL DEF Spec, HandleIsGivenUpForIdentity
=============================================================================
