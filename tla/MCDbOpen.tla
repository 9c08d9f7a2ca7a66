------------------------------- MODULE MCDbOpen -------------------------------
(* Model checking DbOpen: three interchangeable programs, so that two can race *)
(* while a third holds the database.                                           *)
EXTENDS DbOpen, TLC

ProcSymmetry == Permutations(Procs)
=============================================================================
