----------------------------- MODULE MCRecordIndex -----------------------------
(* Two persons, two families and a source with three lines in all. *)
EXTENDS RecordIndex

CONSTANTS ann, bea, fa, fb, src, smith, jones, ra

MCSymmetry ==
    Permutations({ann, bea}) \cup Permutations({fa, fb})
      \cup Permutations({smith, jones})
=============================================================================
