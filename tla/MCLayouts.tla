----------------------------- MODULE MCLayouts -----------------------------
(* Instances of Layouts for TLC.  Ids, names and requests are              *)
(* interchangeable in Layouts and in its properties.                       *)
EXTENDS Layouts, TLC

Interchangeable == Permutations(Ids) \cup Permutations(Names) \cup Permutations(Txs)
=============================================================================
