---------------------------- MODULE MCRdcDispatch ----------------------------
(* RdcDispatch on two tokens.  MaxMisses is lower than the code's 5: what it *)
(* separates is "not yet" from "for good".                                   *)
EXTENDS RdcDispatch

CONSTANTS t1, t2

TwoTokens == {t1, t2}
=============================================================================
