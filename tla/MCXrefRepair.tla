----------------------------- MODULE MCXrefRepair -----------------------------
(* Model checking XrefRepair: five keys, one or two crashes. *)
EXTENDS XrefRepair
=============================================================================
