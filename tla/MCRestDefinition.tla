-------------------------- MODULE MCRestDefinition --------------------------
(* RestDefinition for TLC: documents a and b name the same version, c another, *)
(* which is the version the provider falls back to; b has security schemes.    *)
EXTENDS RestDefinition

CONSTANTS d1, d2, a, b, c, v1, v2, i1

SharedVersionOf == [x \in {a, b, c} |-> IF x = c THEN v2 ELSE v1]
=============================================================================
