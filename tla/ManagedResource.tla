--------------------------- MODULE ManagedResource ---------------------------
(***************************************************************************)
(* What the controller promises the author of a custom resource: the CR    *)
(* stands for at most one external resource, which is created only while   *)
(* there is none, whatever became of the one before, and does not outlive  *)
(* a CR through which it could have been deleted.                          *)
(***************************************************************************)
CONSTANT Resources

VARIABLES
    held,      \* the external resources that exist on behalf of the CR
    reach,     \* the resources the controller can address through the CR
    phase      \* the CR is live, deleting or gone

vars == <<held, reach, phase>>

Init ==
    /\ held = {} \/ \E r \in Resources : held = {r}
    /\ reach \in SUBSET Resources
    /\ phase = "live"

Provision ==
    /\ phase # "gone" /\ held = {}
    /\ \E r \in Resources : held' = {r}
    /\ UNCHANGED <<reach, phase>>

\* The identity is learnt, corrected or forgotten, a definition goes.
Identify ==
    /\ reach' \in SUBSET Resources
    /\ UNCHANGED <<held, phase>>

Abandon ==
    /\ phase = "live"
    /\ phase' = "deleting"
    /\ UNCHANGED <<held, reach>>

\* The controller deletes the resource, the API carries a deletion out after the
\* CR went, or somebody else deletes it.
Destroy ==
    /\ held' = {}
    /\ UNCHANGED <<reach, phase>>

\* The CR goes: when there is nothing left that it lets the controller reach.
Release ==
    /\ phase = "deleting"
    /\ held \cap reach = {}
    /\ phase' = "gone"
    /\ UNCHANGED <<held, reach>>

Next == Provision \/ Identify \/ Abandon \/ Destroy \/ Release

Spec == Init /\ [][Next]_vars
=============================================================================
