------------------------------ MODULE DeleteSet ------------------------------
(***************************************************************************)
(* gedlib/xreffile.c keeps, for each record type, a DELETESET: an array    *)
(* recs of n numbers.  recs[0] is the next unused key number; recs[1] ..   *)
(* recs[n-1] are the keys of deleted records, sorted from high to low, so  *)
(* that the lowest is at the end, ready to be handed out.                  *)
(*                                                                         *)
(* Here a delete set is the record                                         *)
(*    [next |-> recs[0], free |-> << recs[1], ..., recs[n-1] >>]           *)
(* and n is Len(free) + 1.  The operators below are the functions of       *)
(* xreffile.c that read or change one set; the five sets (INDI, FAM, EVEN, *)
(* SOUR, other) run the same code and share nothing but the file.          *)
(*                                                                         *)
(* Definitions whose name ends in Mutant are deliberately wrong: each is   *)
(* put in the place of the definition after it to see that a property of   *)
(* the project notices (see the README).                                   *)
(***************************************************************************)
EXTENDS Integers, Sequences

(* The keys on the free list. *)
FreeKeys(s) == { s.free[i] : i \in 1..Len(s.free) }

(* The sets whose key numbers are at most max. *)
DeleteSets(max) == [next : 1..(max + 1), free : Seq(1..max)]

StrictlyDown(free) == \A i, j \in 1..Len(free) : i < j => free[i] > free[j]

(* A new set: n = 1, and the word 1 that initxref writes for it. *)
NewSet == [next |-> 1, free |-> << >>]

(***************************************************************************)
(* find_slot, by what its binary search returns on a list sorted from high *)
(* to low: the place of k if it is listed, else the place where it belongs.*)
(* (The loop itself is FindSlot in XrefRepair, checked against this.)      *)
(***************************************************************************)
IsSlot(k, free, lo) ==
    /\ \A i \in 1..(lo - 1) : free[i] >= k
    /\ \A i \in lo..Len(free) : free[i] <= k
    /\ (\E i \in 1..Len(free) : free[i] = k) => lo <= Len(free) /\ free[lo] = k

Slots(k, free) == { lo \in 1..(Len(free) + 1) : IsSlot(k, free, lo) }

Listed(k, free, lo) == lo <= Len(free) /\ free[lo] = k

(* Shift the entries from lo on up by one and put k at lo. *)
InsertSlot(free, lo, k) ==
    [ i \in 1..(Len(free) + 1) |->
        IF i < lo THEN free[i] ELSE IF i = lo THEN k ELSE free[i - 1] ]

(***************************************************************************)
(* getxrefnum: the last key of the list if there is one, else the next     *)
(* unused number.                                                          *)
(***************************************************************************)
GetKey(s) == IF s.free = << >> THEN s.next ELSE s.free[Len(s.free)]

\* does not take the key off the list
GetSetMutant(s) ==
    IF s.free = << >> THEN [s EXCEPT !.next = @ + 1] ELSE s

GetSet(s) ==
    IF s.free = << >> THEN [s EXCEPT !.next = @ + 1]
    ELSE [s EXCEPT !.free = [ i \in 1..(Len(@) - 1) |-> @[i] ]]

(***************************************************************************)
(* add_xref_to_set_impl.  Deleting the record below recs[0] only lowers    *)
(* recs[0], before the list is even looked at; any other key is inserted,  *)
(* unless it is listed already (the caller then gets FALSE or dies).       *)
(***************************************************************************)
\* also taken for a key that is not the highest
IsTopKeyMutant(s, k) == k + 1 <= s.next

IsTopKey(s, k) == k + 1 = s.next

\* forgets to lower recs[0]
AddTopKeepMutant(s, k) == s

AddTop(s, k) == [s EXCEPT !.next = k]

\* adds at the end, without a slot
AddAtMutant(s, k, lo) == [s EXCEPT !.free = Append(@, k)]

AddAt(s, k, lo) == [s EXCEPT !.free = InsertSlot(@, lo, k)]

AddedSets(s, k) ==
    IF IsTopKey(s, k) THEN { AddTop(s, k) }
    ELSE { AddAt(s, k, lo) : lo \in { l \in Slots(k, s.free) : ~Listed(k, s.free, l) } }

AlreadyFree(s, k) == ~IsTopKey(s, k) /\ k \in FreeKeys(s)

(***************************************************************************)
(* newxref with its flag set (import keeps the keys of the GEDCOM file):   *)
(* forget the deleted keys, and raise recs[0] above the key.               *)
(***************************************************************************)
KeepKey(s, k) ==
    [next |-> IF k >= s.next THEN k + 1 ELSE s.next, free |-> << >>]

(***************************************************************************)
(* delete_xref_if_present.  Entry lo is overwritten by its successors, but *)
(* the loop (i + 1 < n - 1) stops one short of the last one.               *)
(***************************************************************************)
DropSlot(free, lo) ==
    [ i \in 1..(Len(free) - 1) |->
        IF i >= lo /\ i + 1 < Len(free) THEN free[i + 1] ELSE free[i] ]

DeletedSets(s, k) ==
    LET found == { l \in Slots(k, s.free) : Listed(k, s.free, l) }
    IN  IF found = {} THEN { s }
        ELSE { [s EXCEPT !.free = DropSlot(@, lo)] : lo \in found }

(* num_set: the next key value less the number of deleted keys. *)
NumSet(s) == s.next - (Len(s.free) + 1)

(***************************************************************************)
(* xref_isvalid_impl, on a sorted list, and xref_next_impl: the next key   *)
(* after i that is not free, 0 if there is none.                           *)
(***************************************************************************)
NoValids(s) == Len(s.free) + 1 = s.next

IsValid(s, k) == ~NoValids(s) /\ k \notin FreeKeys(s)

\* looks at i again
NextValidStayMutant(s, i) ==
    LET later == { k \in i..(s.next - 1) : k > 0 /\ IsValid(s, k) }
    IN  IF later = {} THEN 0 ELSE CHOOSE m \in later : \A k \in later : m <= k

NextValid(s, i) ==
    LET later == { k \in (i + 1)..(s.next - 1) : IsValid(s, k) }
    IN  IF later = {} THEN 0 ELSE CHOOSE m \in later : \A k \in later : m <= k

(***************************************************************************)
(* sortxref.  Its first pass compares recs[1] with the others and, if none *)
(* is larger, takes the whole list to be sorted.                           *)
(***************************************************************************)
HighToLow(free) == \A i, j \in 1..Len(free) : i < j => free[i] >= free[j]

FirstIsHighest(free) == \A j \in 2..Len(free) : free[1] >= free[j]

SortXref(free) ==
    IF FirstIsHighest(free) THEN free
    ELSE CHOOSE t \in [1..Len(free) -> { free[i] : i \in 1..Len(free) }] :
           /\ HighToLow(t)
           /\ \E p \in [1..Len(free) -> 1..Len(free)] :
                /\ \A i, j \in 1..Len(free) : p[i] = p[j] => i = j
                /\ \A i \in 1..Len(free) : t[i] = free[p[i]]
=============================================================================
