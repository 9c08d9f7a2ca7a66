------------------------------- MODULE MCHistory -------------------------------
(* Three records, two of them of persons, in buffers of three, of two, of    *)
(* one and of none.                                                          *)
EXTENDS History

CONSTANTS i1, i2, f1

Option(size, protect, save, readonly) ==
    [HistorySize |-> size, HistoryBounceSuppress |-> protect, SaveHistory |-> save, readonly |-> readonly]

MCOptions == {Option(3, 0, TRUE, FALSE), Option(3, 2, TRUE, FALSE), Option(2, 1, TRUE, TRUE),
              Option(2, 2, TRUE, FALSE), Option(1, 1, FALSE, FALSE), Option(0, 1, TRUE, FALSE)}
=============================================================================
