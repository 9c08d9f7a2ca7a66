-------------------------------- MODULE IndiSeq --------------------------------
(***************************************************************************)
(* The sequences of persons of gedlib/indiseq.c, the sets of a report.  An *)
(* element has the key of its person (a number here), a value (0 is none)  *)
(* and s_pri, the number by which it is sorted and merged: 0 until a sort  *)
(* computes it.  The flags of a sequence say how it is sorted and that it  *)
(* has no duplicates; the functions rely on them.  A sequence made by a    *)
(* report (rpt) copies values; one that the user was asked for does not.   *)
(***************************************************************************)
EXTENDS Integers, Sequences, FiniteSets, SequencesExt

CONSTANTS Person,        \* the numbers of the persons' keys
          NameRank(_),   \* the place of a person's name in the alphabet
          Val,           \* the values that go with persons
          Room,          \* the elements that a new array has room for (20)
          None           \* no sequence

ASSUME IndiSeqAssumption ==
    /\ Person \subseteq Nat \ {0} /\ IsFiniteSet(Person)
    /\ Val \subseteq Nat \ {0} /\ IsFiniteSet(Val)
    /\ Room \in Nat \ {0}

Sorts == {"KEYSORT", "NAMESORT", "VALUESORT"}
Flags == Sorts \cup {"UNIQUED"}

(* The array of a sequence to which so many elements were appended.          *)
RECURSIVE Enlarged(_, _)
Enlarged(max, elements) == IF elements <= max THEN max ELSE Enlarged(3 * max, elements)

NewSeq(els, flags, rpt) ==
    [els |-> els, flags |-> flags, rpt |-> rpt, max |-> Enlarged(Room, Len(els))]
Keys(seq) == {seq.els[n].key : n \in 1..Len(seq.els)}
Has(seq, f) == f \in seq.flags

-----------------------------------------------------------------------------
(* Changing a sequence. *)

AppendSureMutant(seq, k, v) ==
    [seq EXCEPT !.els = Append(@, [key |-> k, val |-> v, pri |-> 0]),
                !.max = Enlarged(@, Len(seq.els) + 1)]
(* append_indiseq_impl: a full array is moved to one of three times its size. *)
AppendSure(seq, k, v) ==
    [seq EXCEPT !.els = Append(@, [key |-> k, val |-> v, pri |-> 0]), !.flags = {},
                !.max = Enlarged(@, Len(seq.els) + 1)]

(* A person is in a set once: the value of the second time is dropped.       *)
AppendNew(seq, k, v) == IF k \in Keys(seq) THEN seq ELSE AppendSure(seq, k, v)

(* delete_indiseq, as often as it is called: the elements behind move down.  *)
Without(seq, gone) ==
    LET stays == SelectSeq([n \in 1..Len(seq.els) |-> n], LAMBDA n : n \notin gone)
    IN [seq EXCEPT !.els = [n \in 1..Len(stays) |-> @[stays[n]]]]

PlacesOf(seq, k) == {n \in 1..Len(seq.els) : seq.els[n].key = k}
FirstPlace(seq, k) == {n \in PlacesOf(seq, k) : \A m \in PlacesOf(seq, k) : n <= m}

(* copyval, by the table of functions of the sequence.                       *)
CopyVal(seq, v) == IF seq.rpt THEN v ELSE 0

(* copy_indiseq copies the flags, and no s_pri. *)
Copy(seq) ==
    NewSeq([n \in 1..Len(seq.els) |->
              [key |-> seq.els[n].key, val |-> CopyVal(seq, seq.els[n].val), pri |-> 0]],
           seq.flags, seq.rpt)

-----------------------------------------------------------------------------
(* Sorting. *)

KeyCompare(e1, e2) == e1.pri - e2.pri

NameCompare(e1, e2) ==
    LET rel == NameRank(e1.key) - NameRank(e2.key) IN IF rel = 0 THEN KeyCompare(e1, e2) ELSE rel

ValueCompare(e1, e2) ==
    LET rel == e1.val - e2.val IN IF rel = 0 THEN KeyCompare(e1, e2) ELSE rel

ByKey == INSTANCE QuickSort WITH Cmp <- KeyCompare
ByName == INSTANCE QuickSort WITH Cmp <- NameCompare
ByValue == INSTANCE QuickSort WITH Cmp <- ValueCompare

Numbers(els) == [n \in 1..Len(els) |-> [els[n] EXCEPT !.pri = els[n].key]]

Sorted(seq, flag) == (seq.flags \ Sorts) \cup {flag}

KeySort(seq) ==
    IF Has(seq, "KEYSORT") THEN seq
    ELSE [seq EXCEPT !.els = ByKey!PartitionSort(Numbers(@)), !.flags = Sorted(seq, "KEYSORT")]

NameSort(seq) ==
    IF Has(seq, "NAMESORT") THEN seq
    ELSE [seq EXCEPT !.els = ByName!PartitionSort(Numbers(@)), !.flags = Sorted(seq, "NAMESORT")]

(* It compares s_pri where values are equal, but does not compute it. *)
ValueSort(seq) ==
    IF Has(seq, "VALUESORT") THEN seq
    ELSE [seq EXCEPT !.els = ByValue!PartitionSort(@), !.flags = Sorted(seq, "VALUESORT")]

(* Of the elements with the same s_pri the first stays. *)
Unique(seq) ==
    LET Single(sorted) ==
          [Without(sorted, {n \in 2..Len(sorted.els) : sorted.els[n].pri = sorted.els[n - 1].pri})
             EXCEPT !.flags = @ \cup {"UNIQUED"}]
    IN IF seq.els = <<>> \/ Has(seq, "UNIQUED") THEN seq ELSE Single(KeySort(seq))

-----------------------------------------------------------------------------
(* The set operations sort their arguments, take the duplicates out of them, *)
(* and merge them by s_pri.                                                  *)

Prepared(seq) == Unique(KeySort(seq))

(* keep: whether what is in the first only (1), the second only (2), or both *)
(* (3) stays, with the value it has in the first.                            *)
RECURSIVE Merge(_, _, _)
Merge(els1, els2, keep) ==
    LET first == els1 # <<>> /\ (els2 = <<>> \/ els1[1].pri <= els2[1].pri)
        second == els2 # <<>> /\ (els1 = <<>> \/ els2[1].pri <= els1[1].pri)
        taken == IF first THEN els1[1] ELSE els2[1]
        whose == IF first /\ second THEN 3 ELSE IF first THEN 1 ELSE 2
    IN IF els1 = <<>> /\ els2 = <<>> THEN <<>>
       ELSE (IF whose \in keep THEN <<taken>> ELSE <<>>)
            \o Merge(IF first THEN Tail(els1) ELSE els1,
                     IF second THEN Tail(els2) ELSE els2, keep)

(* The elements of a prepared argument, with their values copied.            *)
Copied(seq, prepared) ==
    [n \in 1..Len(prepared.els) |-> [prepared.els[n] EXCEPT !.val = CopyVal(seq, @)]]

CombineMutant(one, two, keep) ==
    LET merged == Merge(Copied(one, KeySort(one)), Copied(two, KeySort(two)), keep) IN
    NewSeq(Numbers(merged), {"KEYSORT", "UNIQUED"}, one.rpt)
Combine(one, two, keep) ==
    LET merged == Merge(Copied(one, Prepared(one)), Copied(two, Prepared(two)), keep) IN
    NewSeq(Numbers(merged), {"KEYSORT", "UNIQUED"}, one.rpt)

(* dupseq *)
Dup(seq) == [Copy(seq) EXCEPT !.flags = {}]

UnionIndiseq(one, two) ==
    IF one = None /\ two = None THEN None
    ELSE IF one = None THEN Dup(two)
    ELSE IF two = None THEN Dup(one)
    ELSE Combine(one, two, {1, 2, 3})

IntersectIndiseq(one, two) == IF None \in {one, two} THEN None ELSE Combine(one, two, {3})

DifferenceIndiseq(one, two) ==
    IF one = None THEN None ELSE IF two = None THEN Dup(one) ELSE Combine(one, two, {1})
=============================================================================
