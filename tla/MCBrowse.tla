------------------------------- MODULE MCBrowse --------------------------------
(* Three persons in a cache of two, so that a record falls out when the third*)
(* is read; two families and a source in caches that have room for them.     *)
EXTENDS Browse, TLC

CONSTANTS i1, i2, i3, f1, f2, s1, a1, a2, b1, b2, d1

MCTypeOf == [k \in Key |-> IF k \in {f1, f2} THEN "FAM" ELSE IF k = s1 THEN "SOUR" ELSE "INDI"]
MCCache == [e \in El |-> IF e \in {b1, b2} THEN "FAM" ELSE IF e = d1 THEN "SOUR" ELSE "INDI"]
MCFreeOrder == [t \in Type |-> SelectSeq(<<a1, a2, b1, b2, d1>>, LAMBDA e : MCCache[e] = t)]
(* What the theorems about the screens take for granted of the caches.       *)
ASSUME MCRoom == Roomy

MCSymmetry == Permutations(Key \cap {i1, i2, i3}) \cup Permutations(Key \cap {f1, f2})
=============================================================================
