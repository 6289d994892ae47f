--------------------------- MODULE MCTokenBucket ----------------------------
(***************************************************************************)
(* Instances of TokenBucket for TLC: the constants are all in the .cfg.    *)
(***************************************************************************)
EXTENDS TokenBucket
=============================================================================
