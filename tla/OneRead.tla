------------------------------- MODULE OneRead -------------------------------
(***************************************************************************)
(* What RdcLifecycle and RdcAsync take the findby verb for: a read that    *)
(* looks at the whole collection at one moment and answers whether the     *)
(* resource is in it, or fails.                                            *)
(***************************************************************************)
VARIABLES
    present,   \* whether the resource is in the collection now
    answer     \* the last answer, "none" while a read is under way

Init == answer = "none"

\* Only a resource that is there is found, and only one that is not is absent.
Answer ==
    /\ answer = "none"
    /\ \/ present /\ answer' = "found"
       \/ ~present /\ answer' = "absent"
       \/ answer' = "error"

\* The next read begins.
Ask == answer # "none" /\ answer' = "none"

Next == Answer \/ Ask
Spec == Init /\ [][Next]_answer
=============================================================================
