----------------------------- MODULE MCRdcAsync -----------------------------
(* RdcAsync on every kind that can address its resource after the create.   *)
EXTENDS RdcAsync

AddressableKinds == {k \in SUBSET Traits : k \cap {"echo", "findby"} # {}}
=============================================================================
