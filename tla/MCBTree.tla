------------------------------- MODULE MCBTree -------------------------------
(* Model checking BTree with the smallest blocks and indexes that split:      *)
(* three children make an index split, so five keys give a tree of four       *)
(* levels, and indexes whose parent is out of date.                           *)
EXTENDS BTree
=============================================================================
