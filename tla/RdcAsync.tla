------------------------------ MODULE RdcAsync ------------------------------
(***************************************************************************)
(* A kind of the rest-dynamic-controller whose create starts a long-running *)
(* operation of the API.  In blocking mode (Model A) Create polls the       *)
(* operation until it ends; in requeue mode (Model B) Create records the    *)
(* operation's handle in annotations and every later Observe polls it once. *)
(*                                                                          *)
(* The kind reads by an identifier in status (get), which the answer to the *)
(* trigger may carry, and may declare a findby.  Deletion, updates, drift   *)
(* and refusals are those of RdcLifecycle and are not repeated here.        *)
(***************************************************************************)
EXTENDS Integers, FiniteSets

CONSTANTS
    Kinds,       \* the resource kinds considered: sets of traits
    MaxCreates,  \* the API accepts at most this many triggers (a bound)
    Faults,      \* the kinds of disturbance that may happen
    MaxFaults    \* how many disturbances happen in all (a bound)

(***************************************************************************)
(* requeue: Model B.  postGet: the resource is re-read once the operation  *)
(* succeeded.  echo: the trigger's answer carries the identifier.          *)
(* findby: there is a findby verb.                                         *)
(***************************************************************************)
Traits     == {"requeue", "postGet", "echo", "findby"}
FaultKinds == {"api", "patch", "conflict", "crash", "fails", "timeout"}

ASSUME KindsAssumption  == Kinds \subseteq SUBSET Traits
ASSUME FaultsAssumption == Faults \subseteq FaultKinds
ASSUME BoundsAssumption == MaxCreates \in Nat /\ MaxFaults \in Nat

VARIABLES
    kind,      \* the kind of the CR, fixed
    \* the CR as the Kubernetes API server stores it
    marker,    \* which external-create annotation it carries
    handle,    \* annotation async-operation-id, 0 when there is none
    ready,     \* the reason of its Ready condition
    synced,    \* the outcome in its Synced condition
    id,        \* the identifier in its status, 0 when there is none
    \* the API: operation n provisions resource n
    running,   \* the operations that have not ended
    failed,    \* those that ended in failure
    live,      \* the resources that exist
    minted,    \* how many operations there ever were
    \* the pass in progress
    pc,        \* its next step
    seen,      \* the answer it holds in memory
    target,    \* the operation it holds in memory
    copy,      \* whether the CR changed since the pass read it
    \* the rest
    queue,     \* the Create event, when the runtime has queued it
    recorded,  \* the operations whose handle ever reached the CR (history)
    faults     \* disturbances so far

status == <<ready, synced, id>>
cr     == <<marker, handle, status>>
api    == <<running, failed, live, minted>>
pass   == <<pc, seen, target, copy>>
vars   == <<kind, cr, api, pass, queue, recorded, faults>>

Ids     == 1 .. MaxCreates
Readys  == {"none", "Pending", "Creating", "Available", "Unavailable", "ObserveFailed"}
Steps   == {"idle", "recover", "observe", "reread", "clear", "read", "fail", "clearFailed",
            "create", "note", "poll", "postGet", "record", "settle"}
Answers == {"none", "ok", "error", "conflict"}

TypeOK ==
    /\ kind \in Kinds
    /\ marker \in {"none", "pending", "succeeded", "failed"}
    /\ handle \in 0 .. MaxCreates /\ id \in 0 .. MaxCreates
    /\ ready \in Readys /\ synced \in {"none", "success", "error"}
    /\ running \subseteq Ids /\ failed \subseteq Ids /\ live \subseteq Ids
    /\ minted \in 0 .. MaxCreates
    /\ pc \in Steps /\ seen \in Answers /\ target \in 0 .. MaxCreates
    /\ copy \in {"fresh", "stale"}
    /\ queue \subseteq {"Create"} /\ recorded \subseteq 0 .. MaxCreates
    /\ faults \in 0 .. MaxFaults

Init ==
    /\ kind \in Kinds
    /\ marker = "none" /\ handle = 0 /\ ready = "none" /\ synced = "none" /\ id = 0
    /\ running = {} /\ failed = {} /\ live = {} /\ minted = 0
    /\ pc = "idle" /\ seen = "none" /\ target = 0 /\ copy = "fresh"
    /\ queue = {} /\ recorded = {} /\ faults = 0

-----------------------------------------------------------------------------
Is(trait) == trait \in kind
At(step)  == pc = step
Stale     == copy = "stale"
Fault(f)  == f \in Faults /\ faults < MaxFaults /\ faults' = faults + 1

\* A pass starts, moves on and ends.
GoTo(step, answer, op)     == pc' = step /\ seen' = answer /\ target' = op
StartPass(step)            == GoTo(step, "none", 0) /\ copy' = "fresh"
Continue(step, answer, op) == GoTo(step, answer, op) /\ UNCHANGED copy
EndPass                    == StartPass("idle")

\* A status write is refused when the CR changed since the pass read it; an
\* annotation patch never is, and refreshes what the pass holds (patchAnnotations).
WriteStatus(newReady, newSynced, newId) ==
    IF Stale THEN UNCHANGED status
    ELSE ready' = newReady /\ synced' = newSynced /\ id' = newId
Patched(step, answer, op) == GoTo(step, answer, op) /\ copy' = "fresh"

\* The runtime writes conditions on a CR it has just fetched.
WriteConditions(newReady, newSynced) ==
    ready' = newReady /\ synced' = newSynced /\ UNCHANGED id

\* What the one read of an Observe or Exists can find.
Reader  == IF id # 0 THEN "get" ELSE IF Is("findby") THEN "findby" ELSE "none"
Visible == CASE Reader = "get"    -> live \cap {id}
             [] Reader = "findby" -> live
             [] Reader = "none"   -> {}

-----------------------------------------------------------------------------
(* The recovery of an incomplete create, which precedes Observe.           *)

StartObserve ==
    /\ At("idle")
    /\ StartPass(IF marker = "pending" THEN "recover" ELSE "observe")
    /\ UNCHANGED <<kind, cr, api, queue, recorded, faults>>

\* Exists answers only when nothing is in flight.
CanTell == handle = 0 /\ ready # "Pending" /\ Reader # "none"

RecoverLanded ==
    /\ At("recover") /\ CanTell /\ Visible # {}
    /\ marker' = IF Stale THEN marker ELSE "succeeded"
    /\ EndPass
    /\ UNCHANGED <<kind, handle, status, api, queue, recorded, faults>>

\* Only the get verb proves absence; past the grace period the marker goes.
ProvenAbsent == CanTell /\ Reader = "get" /\ Visible = {}

RecoverAbsent ==
    /\ At("recover") /\ ProvenAbsent
    /\ \/ EndPass /\ UNCHANGED marker
       \/ ~Stale /\ marker' = "none" /\ Continue("observe", "none", 0)
    /\ UNCHANGED <<kind, handle, status, api, queue, recorded, faults>>

RecoverUndetermined ==
    /\ At("recover")
    /\ \/ ~ProvenAbsent /\ ~(CanTell /\ Visible # {}) /\ UNCHANGED faults
       \/ CanTell /\ Fault("api")
    /\ WriteConditions("Creating", "error")
    /\ EndPass
    /\ UNCHANGED <<kind, marker, handle, api, queue, recorded>>

Recover == RecoverLanded \/ RecoverAbsent \/ RecoverUndetermined

-----------------------------------------------------------------------------
(* driveAsyncRequeue: Observe polls the recorded operation once.           *)

\* The write that opens Observe fails on a CR that changed: nothing happens.
OpenConflicts ==
    /\ At("observe") /\ Stale
    /\ EndPass
    /\ UNCHANGED <<kind, cr, api, queue, recorded, faults>>

PollPending ==
    /\ At("observe") /\ handle \in running
    /\ WriteConditions(ready, "success")
    /\ EndPass
    /\ UNCHANGED <<kind, marker, handle, api, queue, recorded, faults>>

\* Mutant of PollSucceeded: the handle goes before the resource is re-read.
ClearsFirst ==
    /\ At("observe") /\ handle # 0 /\ handle \notin running \cup failed
    /\ Continue("clear", "none", handle)
    /\ UNCHANGED <<kind, cr, api, queue, recorded, faults>>

PollSucceeded ==
    /\ At("observe") /\ handle # 0 /\ handle \notin running \cup failed
    /\ Continue(IF Is("postGet") THEN "reread" ELSE "clear", "none", handle)
    /\ UNCHANGED <<kind, cr, api, queue, recorded, faults>>

\* Mutant of PollFailed: the handle goes before the failure is on the CR.
ForgetsFirst ==
    /\ At("observe") /\ handle \in failed
    /\ handle' = 0
    /\ Patched("fail", "none", handle)
    /\ UNCHANGED <<kind, marker, status, api, queue, recorded, faults>>

PollFailed ==
    /\ At("observe") /\ handle \in failed
    /\ Continue("fail", "none", handle)
    /\ UNCHANGED <<kind, cr, api, queue, recorded, faults>>

\* A poll that gives no answer keeps the handle.
PollUnanswered ==
    /\ At("observe") /\ handle # 0 /\ Fault("api")
    /\ WriteConditions("ObserveFailed", "error")
    /\ EndPass
    /\ UNCHANGED <<kind, marker, handle, api, queue, recorded>>

\* The re-read captures the identifier before the handle is given up; a resource
\* that cannot be addressed or read fails the pass and keeps the handle.
ReRead ==
    /\ At("reread") /\ id \in live
    /\ IF Stale THEN EndPass ELSE Continue("clear", "none", target)
    /\ UNCHANGED <<kind, cr, api, queue, recorded, faults>>

ReReadFails ==
    /\ At("reread")
    /\ \/ id \notin live /\ UNCHANGED faults
       \/ Fault("api")
    /\ WriteConditions("ObserveFailed", "error")
    /\ EndPass
    /\ UNCHANGED <<kind, marker, handle, api, queue, recorded>>

ClearHandle ==
    /\ At("clear")
    /\ handle' = 0
    /\ Patched("read", "none", 0)
    /\ UNCHANGED <<kind, marker, status, api, queue, recorded, faults>>

ClearFails ==
    /\ At("clear") /\ Fault("patch")
    /\ WriteConditions("ObserveFailed", "error")
    /\ EndPass
    /\ UNCHANGED <<kind, marker, handle, api, queue, recorded>>

\* Mutant of RecordFailure: the CR stays Pending.
LeavesPending ==
    /\ At("fail")
    /\ IF Stale THEN EndPass ELSE Continue("clearFailed", "none", target)
    /\ UNCHANGED <<kind, cr, api, queue, recorded, faults>>

\* A failed operation takes the CR off Pending before its handle is given up.
RecordFailure ==
    /\ At("fail")
    /\ WriteStatus("Unavailable", synced, id)
    /\ IF Stale THEN EndPass ELSE Continue("clearFailed", "none", target)
    /\ UNCHANGED <<kind, marker, handle, api, queue, recorded, faults>>

\* The handler owns Ready (ReadyAssessed): the runtime writes Synced only.
ClearFailedHandle ==
    /\ At("clearFailed")
    /\ \/ handle' = 0 /\ UNCHANGED faults
       \/ Fault("patch") /\ UNCHANGED handle
    /\ WriteConditions(ready, "error")
    /\ EndPass
    /\ UNCHANGED <<kind, marker, api, queue, recorded>>

DriveAsyncRequeue ==
    \/ PollPending \/ PollSucceeded \/ PollFailed \/ PollUnanswered \/ ReRead
    \/ ReReadFails \/ ClearHandle \/ ClearFails \/ RecordFailure \/ ClearFailedHandle

-----------------------------------------------------------------------------
(* The rest of Observe, as in RdcLifecycle with its two status writes in   *)
(* one step.                                                               *)

\* Mutant of Reading: a recorded operation does not keep Observe from reading.
ReadingAnyway == At("read") \/ At("observe")

Reading == At("read") \/ (At("observe") /\ handle = 0)

ReadFound ==
    /\ Reading
    /\ \E i \in Visible : WriteStatus("Available", "success", i)
    /\ EndPass
    /\ UNCHANGED <<kind, marker, handle, api, queue, recorded, faults>>

ReadAbsent ==
    /\ Reading /\ Reader # "none" /\ Visible = {}
    /\ \/ ready = "Pending" /\ WriteConditions(ready, "success") /\ UNCHANGED queue
       \/ ready # "Pending" /\ queue' = {"Create"} /\ UNCHANGED status
    /\ EndPass
    /\ UNCHANGED <<kind, marker, handle, api, recorded, faults>>

\* Without a verb to read with, Creating or Available is taken for existence
\* unless the last reconcile ended in an error.
AssumedToExist == ready \in {"Creating", "Available"} /\ synced # "error"

ReadBlind ==
    /\ Reading /\ Reader = "none"
    /\ \/ AssumedToExist /\ WriteStatus("Available", "success", id) /\ UNCHANGED queue
       \/ ~AssumedToExist /\ queue' = {"Create"} /\ UNCHANGED status
    /\ EndPass
    /\ UNCHANGED <<kind, marker, handle, api, recorded, faults>>

ReadFails ==
    /\ Reading /\ Reader # "none" /\ Fault("api")
    /\ WriteConditions("ObserveFailed", "error")
    /\ EndPass
    /\ UNCHANGED <<kind, marker, handle, api, queue, recorded>>

Read == ReadFound \/ ReadAbsent \/ ReadBlind \/ ReadFails

-----------------------------------------------------------------------------
(* Create.                                                                 *)

StartCreate ==
    /\ At("idle") /\ "Create" \in queue
    /\ queue' = {}
    /\ marker' = "pending"
    /\ StartPass("create")
    /\ UNCHANGED <<kind, handle, status, api, recorded, faults>>

Trigger ==
    /\ At("create") /\ minted < MaxCreates
    /\ minted' = minted + 1 /\ running' = running \cup {minted + 1}
    /\ UNCHANGED <<kind, cr, failed, live, queue, recorded>>

TriggerAnswered ==
    /\ Trigger
    /\ Continue(IF Is("requeue") THEN "note" ELSE "poll", "none", minted + 1)
    /\ UNCHANGED faults

TriggerLost ==
    /\ Trigger /\ Fault("api")
    /\ Continue("settle", "error", 0)

TriggerFails ==
    /\ At("create")
    /\ \/ minted = MaxCreates /\ UNCHANGED faults
       \/ Fault("api")
    /\ Continue("settle", "error", 0)
    /\ UNCHANGED <<kind, cr, api, queue, recorded>>

\* recordAsyncOperation: the handle is persisted before anything else is.
NoteHandle ==
    /\ At("note")
    /\ handle' = target /\ recorded' = recorded \cup {target}
    /\ Patched("record", "none", target)
    /\ UNCHANGED <<kind, marker, status, api, queue, faults>>

\* The answer carries no handle, or the patch fails.
NoteFails ==
    /\ At("note") /\ Fault("patch")
    /\ Continue("settle", "error", 0)
    /\ UNCHANGED <<kind, cr, api, queue, recorded>>

\* driveAsync: Create itself polls until the operation ends or its budget does.
PollUntilTerminal ==
    /\ At("poll") /\ target \notin running
    /\ IF target \in failed THEN Continue("settle", "error", 0)
       ELSE Continue(IF Is("postGet") THEN "postGet" ELSE "record", "none", target)
    /\ UNCHANGED <<kind, cr, api, queue, recorded, faults>>

PollGivesUp ==
    /\ At("poll")
    /\ \/ target \in running /\ Fault("timeout")
       \/ Fault("api")
    /\ Continue("settle", "error", 0)
    /\ UNCHANGED <<kind, cr, api, queue, recorded>>

\* The re-read is addressed with what the trigger's answer carried.
PostGet ==
    /\ At("postGet")
    /\ \/ Is("echo") /\ target \in live /\ Continue("record", "ok", target) /\ UNCHANGED faults
       \/ ~(Is("echo") /\ target \in live) /\ Continue("settle", "error", 0) /\ UNCHANGED faults
       \/ Fault("api") /\ Continue("settle", "error", 0)
    /\ UNCHANGED <<kind, cr, api, queue, recorded>>

\* clearStatusFields, populateStatusFields and the one status write of Create.
\* The trigger answered 202, so only a re-read makes the CR Creating.
RecordCreate ==
    /\ At("record")
    /\ WriteStatus(IF seen = "ok" THEN "Creating" ELSE "Pending", synced,
                   IF Is("echo") THEN target ELSE 0)
    /\ Continue("settle", IF Stale THEN "conflict" ELSE "ok", 0)
    /\ UNCHANGED <<kind, marker, handle, api, queue, recorded, faults>>

SettleCreate ==
    /\ At("settle")
    /\ \/ seen = "ok" /\ marker' = "succeeded" /\ WriteConditions(ready, "success")
       \/ seen = "error" /\ marker' = "failed" /\ WriteConditions("Creating", "error")
       \/ seen = "conflict" /\ marker' \in {"pending", "failed"} /\ UNCHANGED status
    /\ EndPass
    /\ UNCHANGED <<kind, handle, api, queue, recorded, faults>>

Create ==
    \/ StartCreate \/ TriggerAnswered \/ TriggerLost \/ TriggerFails \/ NoteHandle
    \/ NoteFails \/ PollUntilTerminal \/ PollGivesUp \/ PostGet \/ RecordCreate
    \/ SettleCreate

-----------------------------------------------------------------------------
(* Everybody else.                                                         *)

OperationSucceeds ==
    /\ \E n \in running : running' = running \ {n} /\ live' = live \cup {n}
    /\ UNCHANGED <<kind, cr, failed, minted, pass, queue, recorded, faults>>

OperationFails ==
    /\ Fault("fails")
    /\ \E n \in running : running' = running \ {n} /\ failed' = failed \cup {n}
    /\ UNCHANGED <<kind, cr, live, minted, pass, queue, recorded>>

OtherWriter ==
    /\ pc # "idle" /\ Fault("conflict")
    /\ copy' = "stale" /\ UNCHANGED <<pc, seen, target>>
    /\ UNCHANGED <<kind, cr, api, queue, recorded>>

Crash ==
    /\ Fault("crash")
    /\ EndPass
    /\ queue' = {}
    /\ UNCHANGED <<kind, cr, api, recorded>>

Environment == OperationSucceeds \/ OperationFails \/ OtherWriter \/ Crash

Observe == StartObserve \/ Recover \/ OpenConflicts \/ DriveAsyncRequeue \/ Read

Next == Observe \/ Create \/ Environment

\* As in RdcLifecycle: a started pass is finished, resyncs come, a queued Create
\* is served, and an operation ends.
Step == (Observe \/ Create) /\ faults' = faults

Fairness ==
    /\ WF_vars(Step /\ pc # "idle")
    /\ WF_vars(StartObserve) /\ SF_vars(StartCreate)
    /\ WF_vars(OperationSucceeds)

Spec     == Init /\ [][Next]_vars
FairSpec == Spec /\ Fairness

-----------------------------------------------------------------------------
(* Properties.                                                             *)

\* An operation whose handle reached the CR is not joined by a second one while it
\* runs: neither a restart, a conflict, a failed poll nor the recovery of the create
\* triggers the create again.
FollowedNotRepeated == [][minted' > minted => running \cap recorded = {}]_vars

\* A CR is Pending without a handle only for a resource that exists: an operation
\* that failed never leaves the 404 that follows taken for a create under way.
PendingIsJustified ==
    Is("requeue") /\ ready = "Pending" /\ handle = 0 => live # {}

\* A kind with postGet gives its handle up only with the identifier on the CR, or
\* with the failure.
HandleIsGivenUpForIdentity ==
    [][handle # 0 /\ handle' = 0 /\ Is("postGet") => id \in live \/ handle \in failed]_vars

\* A CR comes back to Available again and again, unless an unsettled create marker
\* holds it or a postGet whose identifier never reached status: no failed operation, lost
\* answer, timeout or failed poll stops it.
Followed ==
    []<>(\/ ready = "Available" \/ marker = "pending"
         \/ handle # 0 /\ Is("postGet") /\ id # handle)

-----------------------------------------------------------------------------
(* The inductive strengthenings the proofs use.                            *)

\* Every operation is running, failed or a resource, and of those whose handle was
\* recorded only the one the CR still names can be running.
OperationsAreAccounted ==
    /\ running \cup failed \cup live = 1 .. minted
    /\ running \cap (failed \cup live) = {}
    /\ recorded \subseteq 1 .. minted /\ handle \in {0} \cup recorded
    /\ running \cap recorded \subseteq {handle}
    /\ pc = "note" => target \in 1 .. minted

\* A create is neither queued nor triggered while the CR names an operation.
CreateMeansNoHandle ==
    /\ queue # {} \/ pc \in {"read", "create", "note"} => handle = 0
    /\ pc \in {"create", "note", "poll", "postGet", "record", "settle"} => queue = {}

\* The handle is given up for the reason the poll found, with the CR saying so.
PollIsRemembered ==
    /\ pc \in {"reread", "clear"} => handle \in live
    /\ pc \in {"fail", "clearFailed"} => handle \in failed
    /\ pc = "clearFailed" => ready # "Pending"
    /\ pc = "clear" /\ Is("postGet") => id \in live
    /\ pc \in {"poll", "postGet"} => ~Is("requeue")
    /\ pc = "record" /\ Is("requeue") => handle # 0

AsyncInv ==
    /\ OperationsAreAccounted /\ CreateMeansNoHandle /\ PollIsRemembered
    /\ PendingIsJustified
=============================================================================
