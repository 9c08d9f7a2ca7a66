------------------------------- MODULE MCLineage -------------------------------
(* Three persons and two families with four members in all. *)
EXTENDS Relatives

CONSTANTS ann, bea, cid, fa, fb

MCSymmetry == Permutations({ann, bea, cid}) \cup Permutations({fa, fb})
=============================================================================
