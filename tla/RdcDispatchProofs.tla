------------------------- MODULE RdcDispatchProofs -------------------------
(***************************************************************************)
(* Theorems of RdcDispatch for every set of tokens, every number of checks *)
(* and every selection of disturbances.                                    *)
(***************************************************************************)
EXTENDS RdcDispatch, TLAPS

USE TokensAssumption, FaultsAssumption, BoundsAssumption

\* One more is still a count, of no token at all too.
LEMMA OneMoreIsACount == ASSUME NEW f \in [Tokens -> Nat], NEW t PROVE One(f, t) \in [Tokens -> Nat]
<1>1. CASE t \in Tokens
  BY <1>1 DEF One
<1>2. CASE t \notin Tokens
  BY <1>2 DEF One
<1> QED
  BY <1>1, <1>2

(***************************************************************************)
(* Type correctness.  One lemma per handler, one step per action.          *)
(***************************************************************************)

\* Observe keeps the CR, the API and the pass well typed.
LEMMA ObserveKeepsType == ASSUME TypeOK, Observe PROVE TypeOK'
<1> USE DEF TypeOK, Steps, Answers, Readys, At, StartPass, EndPass, Continue,
            Patched, WriteStatus, Stale, Fault, One, Less, cr, api, pass, history
<1>1. CASE StartObserve
  BY <1>1 DEF StartObserve
<1>2. CASE RecoverUndetermined
  BY <1>2 DEF RecoverUndetermined
<1>3. CASE OpenConflicts
  BY <1>3 DEF OpenConflicts
<1>4. CASE HoldWithoutToken
  BY <1>4 DEF HoldWithoutToken
<1>5. CASE LookupFails
  BY <1>5 DEF LookupFails
<1>6. CASE FindInvocation
  BY <1>6 DEF FindInvocation
<1>7. CASE MissInvocation
  BY <1>7 DEF MissInvocation, AlreadyDispatched
<1>8. CASE ReportAbsent
  BY <1>8 DEF ReportAbsent, AlreadyDispatched
<1>9. CASE CountMisses
  BY <1>9 DEF CountMisses, Counted
<1>10. CASE CountFails
  BY <1>10 DEF CountFails
<1>11. CASE WriteObserved
  BY <1>11 DEF WriteObserved, ObservedReady
<1> QED
  BY <1>1, <1>2, <1>3, <1>4, <1>5, <1>6, <1>7, <1>8, <1>9, <1>10, <1>11 DEF Observe

\* Create keeps the CR, the API and the pass well typed.
LEMMA CreateKeepsType == ASSUME TypeOK, Create PROVE TypeOK'
<1> USE DEF TypeOK, Steps, Answers, Readys, At, StartPass, EndPass, Continue,
            Patched, WriteStatus, Stale, Fault, One, Less, cr, api, pass, history
<1>1. CASE StartCreate
  BY <1>1 DEF StartCreate
<1>2. CASE Dispatch
  BY <1>2 DEF Dispatch, Fire
<1>3. CASE DispatchLost
  BY <1>3 DEF DispatchLost, Fire
<1>4. CASE DispatchFails
  BY <1>4 DEF DispatchFails
<1>5. CASE NoteToken
  BY <1>5 DEF NoteToken
<1>6. CASE NoteFails
  <2>1. unknown' \in [Tokens -> Nat]
    BY <1>6, OneMoreIsACount DEF NoteFails
  <2> QED
    BY <1>6, <2>1 DEF NoteFails
<1>7. CASE RecordCreate
  BY <1>7 DEF RecordCreate
<1>8. CASE SettleCreate
  BY <1>8 DEF SettleCreate
<1> QED
  BY <1>1, <1>2, <1>3, <1>4, <1>5, <1>6, <1>7, <1>8 DEF Create

\* DeleteDispatch keeps the CR, the API and the pass well typed.
LEMMA DeleteDispatchKeepsType == ASSUME TypeOK, DeleteDispatch PROVE TypeOK'
  BY DEF DeleteDispatch, TypeOK, Steps, Answers, Readys, At, StartPass, EndPass,
         Continue, Patched, WriteStatus, Stale, Fault, One, Less, cr, api, pass,
         history

\* Environment keeps the CR, the API and the pass well typed.
LEMMA EnvironmentKeepsType == ASSUME TypeOK, Environment PROVE TypeOK'
<1> USE DEF TypeOK, Steps, Answers, Readys, At, StartPass, EndPass, Continue,
            Patched, WriteStatus, Stale, Fault, One, Less, cr, api, pass, history
<1>1. CASE UserDeletes
  BY <1>1 DEF UserDeletes, Outdate
<1>2. CASE UserSubmits
  BY <1>2 DEF UserSubmits, Outdate
<1>3. CASE UserRemovesToken
  BY <1>3 DEF UserRemovesToken, Outdate
<1>4. CASE OtherWriter
  BY <1>4 DEF OtherWriter, Outdate
<1>5. CASE OperatorClearsMarker
  BY <1>5 DEF OperatorClearsMarker, Outdate
<1>6. CASE List
  BY <1>6 DEF List
<1>7. CASE Forget
  BY <1>7 DEF Forget
<1>8. CASE Crash
  <2>1. unknown' \in [Tokens -> Nat]
    BY <1>8, OneMoreIsACount DEF Crash
  <2> QED
    BY <1>8, <2>1 DEF Crash
<1> QED
  BY <1>1, <1>2, <1>3, <1>4, <1>5, <1>6, <1>7, <1>8 DEF Environment

\* Every reachable state is well typed, the counts of invocations included.
THEOREM TypeCorrect == Spec => []TypeOK
<1>1. Init => TypeOK
  BY DEF Init, TypeOK, Steps, Answers, Readys, Never
<1>2. TypeOK /\ [Next]_vars => TypeOK'
  <2>1. SUFFICES ASSUME TypeOK, [Next]_vars PROVE TypeOK'
    OBVIOUS
  <2>2. CASE UNCHANGED vars
    BY <2>1, <2>2 DEF TypeOK, vars, cr, api, pass, history
  <2> QED
    BY <2>1, <2>2, ObserveKeepsType, CreateKeepsType, DeleteDispatchKeepsType,
       EnvironmentKeepsType DEF Next
<1> QED
  BY <1>1, <1>2, PTL DEF Spec

(***************************************************************************)
(* A recorded token was fired.                                             *)
(***************************************************************************)

\* Observe keeps RecordInv.
LEMMA ObserveKeepsRecord == ASSUME TypeOK, RecordInv, Observe PROVE RecordInv'
<1> USE DEF TypeOK, RecordInv, RecordedOnlyIfRun, At, StartPass, EndPass, Continue,
            Patched, WriteStatus, Stale, Fault, One, Less, cr, api, pass, history
<1>1. CASE StartObserve
  BY <1>1 DEF StartObserve
<1>2. CASE RecoverUndetermined
  BY <1>2 DEF RecoverUndetermined
<1>3. CASE OpenConflicts
  BY <1>3 DEF OpenConflicts
<1>4. CASE HoldWithoutToken
  BY <1>4 DEF HoldWithoutToken
<1>5. CASE LookupFails
  BY <1>5 DEF LookupFails
<1>6. CASE FindInvocation
  BY <1>6 DEF FindInvocation
<1>7. CASE MissInvocation
  BY <1>7 DEF MissInvocation, AlreadyDispatched
<1>8. CASE ReportAbsent
  BY <1>8 DEF ReportAbsent, AlreadyDispatched
<1>9. CASE CountMisses
  BY <1>9 DEF CountMisses, Counted
<1>10. CASE CountFails
  BY <1>10 DEF CountFails
<1>11. CASE WriteObserved
  BY <1>11 DEF WriteObserved, ObservedReady
<1> QED
  BY <1>1, <1>2, <1>3, <1>4, <1>5, <1>6, <1>7, <1>8, <1>9, <1>10, <1>11 DEF Observe

\* Create keeps RecordInv.
LEMMA CreateKeepsRecord == ASSUME TypeOK, RecordInv, Create PROVE RecordInv'
<1> USE DEF TypeOK, RecordInv, RecordedOnlyIfRun, At, StartPass, EndPass, Continue,
            Patched, WriteStatus, Stale, Fault, One, Less, cr, api, pass, history
<1>1. CASE StartCreate
  BY <1>1 DEF StartCreate
<1>2. CASE Dispatch
  BY <1>2 DEF Dispatch, Fire
<1>3. CASE DispatchLost
  BY <1>3 DEF DispatchLost, Fire
<1>4. CASE DispatchFails
  BY <1>4 DEF DispatchFails
<1>5. CASE NoteToken
  BY <1>5 DEF NoteToken
<1>6. CASE NoteFails
  BY <1>6 DEF NoteFails
<1>7. CASE RecordCreate
  BY <1>7 DEF RecordCreate
<1>8. CASE SettleCreate
  BY <1>8 DEF SettleCreate
<1> QED
  BY <1>1, <1>2, <1>3, <1>4, <1>5, <1>6, <1>7, <1>8 DEF Create

\* DeleteDispatch keeps RecordInv.
LEMMA DeleteDispatchKeepsRecord == ASSUME TypeOK, RecordInv, DeleteDispatch PROVE RecordInv'
  BY DEF DeleteDispatch, TypeOK, RecordInv, RecordedOnlyIfRun, At, StartPass,
         EndPass, Continue, Patched, WriteStatus, Stale, Fault, One, Less, cr, api,
         pass, history

\* Environment keeps RecordInv.
LEMMA EnvironmentKeepsRecord == ASSUME TypeOK, RecordInv, Environment PROVE RecordInv'
<1> USE DEF TypeOK, RecordInv, RecordedOnlyIfRun, At, StartPass, EndPass, Continue,
            Patched, WriteStatus, Stale, Fault, One, Less, cr, api, pass, history
<1>1. CASE UserDeletes
  BY <1>1 DEF UserDeletes, Outdate
<1>2. CASE UserSubmits
  BY <1>2 DEF UserSubmits, Outdate
<1>3. CASE UserRemovesToken
  BY <1>3 DEF UserRemovesToken, Outdate
<1>4. CASE OtherWriter
  BY <1>4 DEF OtherWriter, Outdate
<1>5. CASE OperatorClearsMarker
  BY <1>5 DEF OperatorClearsMarker, Outdate
<1>6. CASE List
  BY <1>6 DEF List
<1>7. CASE Forget
  BY <1>7 DEF Forget
<1>8. CASE Crash
  BY <1>8 DEF Crash
<1> QED
  BY <1>1, <1>2, <1>3, <1>4, <1>5, <1>6, <1>7, <1>8 DEF Environment

\* RecordedOnlyIfRun, for every set of tokens: an attempt that failed is never
\* taken for an invocation.
THEOREM RecordedIsRun == Spec => []RecordedOnlyIfRun
<1>1. Spec => []TypeOK
  BY TypeCorrect
<1>2. Init => RecordInv
  BY DEF Init, RecordInv, RecordedOnlyIfRun
<1>3. TypeOK /\ RecordInv /\ [Next]_vars => RecordInv'
  <2>1. SUFFICES ASSUME TypeOK, RecordInv, [Next]_vars PROVE RecordInv'
    OBVIOUS
  <2>2. CASE UNCHANGED vars
    BY <2>1, <2>2 DEF RecordInv, RecordedOnlyIfRun, vars, cr, api, pass, history
  <2> QED
    BY <2>1, <2>2, ObserveKeepsRecord, CreateKeepsRecord, DeleteDispatchKeepsRecord,
       EnvironmentKeepsRecord DEF Next
<1>4. RecordInv => RecordedOnlyIfRun
  BY DEF RecordInv
<1> QED
  BY <1>1, <1>2, <1>3, <1>4, PTL DEF Spec

(***************************************************************************)
(* No token is fired without a credit.                                     *)
(***************************************************************************)

\* Observe keeps RunsInv.
LEMMA ObserveKeepsRuns == ASSUME TypeOK, RunsInv, Observe PROVE RunsInv'
<1> USE DEF TypeOK, RunsInv, RunsAreAccounted, CreditIsLeft, MayFire, Credit, Fired,
            At, StartPass, EndPass, Continue, Patched, WriteStatus, Stale, Fault,
            One, Less, cr, api, pass, history
<1>1. CASE StartObserve
  BY <1>1 DEF StartObserve
<1>2. CASE RecoverUndetermined
  BY <1>2 DEF RecoverUndetermined
<1>3. CASE OpenConflicts
  BY <1>3 DEF OpenConflicts
<1>4. CASE HoldWithoutToken
  BY <1>4 DEF HoldWithoutToken
<1>5. CASE LookupFails
  BY <1>5 DEF LookupFails
<1>6. CASE FindInvocation
  BY <1>6 DEF FindInvocation
<1>7. CASE MissInvocation
  BY <1>7 DEF MissInvocation, AlreadyDispatched
<1>8. CASE ReportAbsent
  BY <1>8 DEF ReportAbsent, AlreadyDispatched
<1>9. CASE CountMisses
  BY <1>9 DEF CountMisses, Counted
<1>10. CASE CountFails
  BY <1>10 DEF CountFails
<1>11. CASE WriteObserved
  BY <1>11 DEF WriteObserved, ObservedReady
<1> QED
  BY <1>1, <1>2, <1>3, <1>4, <1>5, <1>6, <1>7, <1>8, <1>9, <1>10, <1>11 DEF Observe

\* Create keeps RunsInv.
LEMMA CreateKeepsRuns == ASSUME TypeOK, RunsInv, Create PROVE RunsInv'
<1> USE DEF TypeOK, RunsInv, RunsAreAccounted, CreditIsLeft, MayFire, Credit, Fired,
            At, StartPass, EndPass, Continue, Patched, WriteStatus, Stale, Fault,
            One, Less, cr, api, pass, history
<1>1. CASE StartCreate
  BY <1>1 DEF StartCreate
<1>2. CASE Dispatch
  BY <1>2 DEF Dispatch, Fire
<1>3. CASE DispatchLost
  BY <1>3 DEF DispatchLost, Fire
<1>4. CASE DispatchFails
  BY <1>4 DEF DispatchFails
<1>5. CASE NoteToken
  BY <1>5 DEF NoteToken
<1>6. CASE NoteFails
  BY <1>6 DEF NoteFails
<1>7. CASE RecordCreate
  BY <1>7 DEF RecordCreate
<1>8. CASE SettleCreate
  BY <1>8 DEF SettleCreate
<1> QED
  BY <1>1, <1>2, <1>3, <1>4, <1>5, <1>6, <1>7, <1>8 DEF Create

\* DeleteDispatch keeps RunsInv.
LEMMA DeleteDispatchKeepsRuns == ASSUME TypeOK, RunsInv, DeleteDispatch PROVE RunsInv'
  BY DEF DeleteDispatch, TypeOK, RunsInv, RunsAreAccounted, CreditIsLeft, MayFire,
         Credit, Fired, At, StartPass, EndPass, Continue, Patched, WriteStatus,
         Stale, Fault, One, Less, cr, api, pass, history

\* Environment keeps RunsInv.
LEMMA EnvironmentKeepsRuns == ASSUME TypeOK, RunsInv, Environment PROVE RunsInv'
<1> USE DEF TypeOK, RunsInv, RunsAreAccounted, CreditIsLeft, MayFire, Credit, Fired,
            At, StartPass, EndPass, Continue, Patched, WriteStatus, Stale, Fault,
            One, Less, cr, api, pass, history
<1>1. CASE UserDeletes
  BY <1>1 DEF UserDeletes, Outdate
<1>2. CASE UserSubmits
  BY <1>2 DEF UserSubmits, Outdate
<1>3. CASE UserRemovesToken
  BY <1>3 DEF UserRemovesToken, Outdate
<1>4. CASE OtherWriter
  BY <1>4 DEF OtherWriter, Outdate
<1>5. CASE OperatorClearsMarker
  BY <1>5 DEF OperatorClearsMarker, Outdate
<1>6. CASE List
  BY <1>6 DEF List
<1>7. CASE Forget
  BY <1>7 DEF Forget
<1>8. CASE Crash
  BY <1>8 DEF Crash
<1> QED
  BY <1>1, <1>2, <1>3, <1>4, <1>5, <1>6, <1>7, <1>8 DEF Environment

\* RunsAreAccounted, for every set of tokens: a token is fired at most as often as
\* the user set it, plus once for each invocation that was never recorded.
THEOREM RunsNeedCredit == Spec => []RunsAreAccounted
<1>1. Spec => []TypeOK
  BY TypeCorrect
<1>2. Init => RunsInv
  BY DEF Init, RunsInv, RunsAreAccounted, CreditIsLeft, MayFire, Credit, Fired, Never
<1>3. TypeOK /\ RunsInv /\ [Next]_vars => RunsInv'
  <2>1. SUFFICES ASSUME TypeOK, RunsInv, [Next]_vars PROVE RunsInv'
    OBVIOUS
  <2>2. CASE UNCHANGED vars
    BY <2>1, <2>2 DEF RunsInv, RunsAreAccounted, CreditIsLeft, MayFire, Credit, Fired,
       vars, cr, api, pass, history
  <2> QED
    BY <2>1, <2>2, ObserveKeepsRuns, CreateKeepsRuns, DeleteDispatchKeepsRuns,
       EnvironmentKeepsRuns DEF Next
<1>4. RunsInv => RunsAreAccounted
  BY DEF RunsInv
<1> QED
  BY <1>1, <1>2, <1>3, <1>4, PTL DEF Spec
=============================================================================
