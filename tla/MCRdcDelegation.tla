-------------------------- MODULE MCRdcDelegation --------------------------
(* RdcDelegation on sequences of two stages.                                *)
EXTENDS RdcDelegation

CONSTANTS base, attachment

TwoStages == {base, attachment}

\* The kinds that are promised to settle, with every get verb; and those that lack a predicate,
\* with a plain one.
SomeKinds ==
    {k \in Declarations :
        \/ k.notFoundExpr = k.delegated /\ k.upToDateExpr = k.delegated
        \/ k.get /\ ~k.notFoundBody}
=============================================================================
