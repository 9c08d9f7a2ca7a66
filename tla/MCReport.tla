------------------------------- MODULE MCReport -------------------------------
(* Three persons in a cache of two, a family and an event in caches of one. *)
EXTENDS Report, TLC

CONSTANTS i1, i2, i3, f1, v1, a1, a2, b1, d1

MCTypeOf == [k \in Key |-> CASE k = f1 -> "FAM" [] k = v1 -> "EVEN" [] OTHER -> "INDI"]
MCCache == [e \in El |-> CASE e = b1 -> "FAM" [] e = d1 -> "EVEN" [] OTHER -> "INDI"]
MCFreeOrder ==
    [t \in Type |-> CASE t = "INDI" -> <<a1, a2>> [] t = "FAM" -> <<b1>>
                      [] t = "EVEN" -> <<d1>> [] OTHER -> <<>>]
MCInitial == {i1, i2, i3, f1, v1}
MCSymmetry == Permutations({i1, i2, i3})
MCEdited == {v1}
MCUsed == {"familyspouses","fathers","parents","fornodes","foreven","forindiset","if","call"}
MCNested == {"parents","call"}
=============================================================================
