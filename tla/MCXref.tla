-------------------------------- MODULE MCXref --------------------------------
(* Model checking XrefFile: four key numbers, up to two crashes.  Three      *)
(* records are enough to delete below, at and above another one, and the     *)
(* fourth number to import a file with a gap.                                *)
EXTENDS XrefFile
=============================================================================
