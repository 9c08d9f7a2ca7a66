----------------------------- MODULE MCReportSets -----------------------------
(* Three persons, the first two of the same name, and one set, whose array *)
(* is full with two.                                                       *)
EXTENDS ReportSets

CONSTANT a

MCNameRank(k) == IF k = 3 THEN 1 ELSE 2
=============================================================================
