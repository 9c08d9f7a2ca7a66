------------------------------ MODULE ReportSets ------------------------------
(***************************************************************************)
(* The sets of persons of a report: the functions of interp/intrpseq.c on  *)
(* variables that hold sets, and the loop over one (interp/interp.c),      *)
(* whose body may use the set it loops over.                               *)
(***************************************************************************)
EXTENDS IndiSeq

CONSTANTS Variable,   \* the variables
          MaxLen      \* bounds the elements of a set

VARIABLES sets,       \* the set of each variable, or None
          copied,     \* variables with a copy of a set sorted by key, or the result of one
          loop        \* the loop under way, its variable None if there is none

vars == <<sets, copied, loop>>

ASSUME ReportSetsAssumption == None \notin Variable /\ MaxLen \in Nat

NoLoop == [over |-> None, due |-> <<>>, at |-> 0, moved |-> FALSE]
Unknown(s) == [n \in 1..Len(s) |-> None]

Init ==
    /\ sets = [x \in Variable |-> IF x = CHOOSE y \in Variable : TRUE THEN NewSeq(<<>>, {}, TRUE) ELSE None]
    /\ copied = {} /\ loop = NoLoop

Holds(x) == sets[x] # None
InOrderOfKeys(seq) == {"KEYSORT", "UNIQUED"} \subseteq seq.flags
Free(x) == loop.over # x
Small == \A x \in Variable : sets'[x] # None => Len(sets'[x].els) <= MaxLen

(* Variable x gets the set; what appending has made a plain list is trusted. *)
Put(x, seq) ==
    /\ sets' = [sets EXCEPT ![x] = seq]
    /\ Small
    /\ copied' = IF seq = None \/ seq.flags = {} THEN copied \ {x} ELSE copied

(* The order of a set that is looped over may change: when it is sorted, by  *)
(* key only if something was appended to it, or when it loses an element.    *)
Disturbed(x) == IF Free(x) THEN loop ELSE [loop EXCEPT !.due = Unknown(@)]
Ordered(x) == IF InOrderOfKeys(sets[x]) THEN loop ELSE Disturbed(x)

-----------------------------------------------------------------------------
(* The functions that make a set. *)

Indiset(x) == Free(x) /\ Put(x, NewSeq(<<>>, {}, TRUE)) /\ UNCHANGED loop

(* The user is asked for persons: they come in the order of their names, the *)
(* ones from a list of the user's perhaps twice; or not at all.              *)
GetIndiset(x) ==
    /\ Free(x)
    /\ \/ Put(x, None)
       \/ \E n \in 1..MaxLen : \E keys \in [1..n -> Person] :
            LET els == [m \in 1..n |-> [key |-> keys[m], val |-> 0, pri |-> keys[m]]]
                single == Cardinality({keys[m] : m \in 1..n}) = n
            IN /\ \A m \in 2..n : NameCompare(els[m - 1], els[m]) <= 0
               /\ \E unique \in {FALSE, single} :
                    /\ sets' = [sets EXCEPT ![x] =
                         NewSeq(els, {"NAMESORT"} \cup (IF unique THEN {"UNIQUED"} ELSE {}), FALSE)]
                    /\ Small
                    /\ copied' = copied \ {x}
    /\ UNCHANGED loop

(* The user chooses by taking some out of a copy; without any, or if he      *)
(* cancels, there is no set.                                                 *)
ChooseSubset(x, y) ==
    /\ Holds(x) /\ Len(sets[x].els) >= 1 /\ Free(y)
    /\ \E gone \in SUBSET (1..Len(sets[x].els)) :
         LET left == Without(Copy(sets[x]), gone) IN
         /\ sets' = [sets EXCEPT ![y] = IF left.els = <<>> THEN None ELSE left]
         /\ Small
         /\ copied' = IF left.els # <<>> /\ (x \in copied \/ Has(left, "KEYSORT")) THEN copied \cup {y}
                      ELSE copied \ {y}
    /\ UNCHANGED loop

(* An argument that is no variable: the set that a function of a report has  *)
(* just made, of persons each once, here from the last to the first.         *)
Made ==
    {NewSeq([n \in 1..Cardinality(persons) |->
               [key |-> Reverse(SetToSortSeq(persons, <))[n], val |-> CHOOSE v \in Val : TRUE, pri |-> 0]],
            {}, TRUE) : persons \in SUBSET Person}

(* union, intersect and difference leave their arguments sorted and without  *)
(* duplicates, if both are sets.  The result may be used but not kept.       *)
Operand(o) == IF o \in Variable THEN sets[o] ELSE o

Operate(arg1, arg2, kept) ==
    LET used == {arg1, arg2} \cap Variable
        one == Operand(arg1)
        two == Operand(arg2)
        both == None \notin {one, two}
    IN /\ \E three \in {UnionIndiseq(one, two), IntersectIndiseq(one, two), DifferenceIndiseq(one, two)} :
            /\ sets' = [v \in Variable |-> IF v \in kept THEN three
                                          ELSE IF both /\ v \in used THEN Prepared(sets[v]) ELSE sets[v]]
            /\ copied' = IF three # None /\ three.flags # {} /\ used \cap copied # {} THEN copied \cup kept
                         ELSE copied \ kept
       /\ Small
       /\ loop' = IF both /\ loop.over \in used THEN Ordered(loop.over) ELSE loop

SetOperation ==
    \E kept \in {{x} : x \in {y \in Variable : Free(y)}} \cup {{}} :
      \E arg1, arg2 \in Variable \cup Made :
        {arg1, arg2} \cap Variable # {} /\ Operate(arg1, arg2, kept)

-----------------------------------------------------------------------------
(* The functions that change a set.  Each asserts that there is one. *)

(* A loop goes on in the array that it began with, though it was freed.      *)
AddToSet(x, k, v) ==
    /\ Holds(x)
    /\ Put(x, AppendNew(sets[x], k, v))
    /\ loop' = IF Free(x) \/ sets'[x].max = sets[x].max THEN loop
               ELSE [Disturbed(x) EXCEPT !.moved = TRUE]

DeleteFromSet(x, k, all) ==
    /\ Holds(x) /\ k \in Keys(sets[x])
    /\ Put(x, Without(sets[x], IF all THEN PlacesOf(sets[x], k) ELSE FirstPlace(sets[x], k)))
    /\ loop' = Disturbed(x)

SortByKey(x) == Holds(x) /\ Put(x, KeySort(sets[x])) /\ loop' = Ordered(x)

SortByName(x) == Holds(x) /\ Put(x, NameSort(sets[x])) /\ loop' = Disturbed(x)

(* Without values it asserts; with the values of others it compares by       *)
(* address.                                                                  *)
SortByValue(x) ==
    /\ Holds(x)
    /\ \/ sets[x].rpt /\ \A n \in 1..Len(sets[x].els) : sets[x].els[n].val # 0
       \/ ~sets[x].rpt /\ \A n \in 1..Len(sets[x].els) : sets[x].els[n].val = 0
    /\ Put(x, ValueSort(sets[x]))
    /\ loop' = Disturbed(x)

UniqueSet(x) == Holds(x) /\ Put(x, Unique(sets[x])) /\ loop' = Ordered(x)

-----------------------------------------------------------------------------
(* forindiset: the number of elements is read when the loop begins.  due has *)
(* the persons it should read, unknown where the order may change.           *)

Sound(x) == Holds(x) /\ x \notin copied

BeginLoop(x) ==
    /\ loop = NoLoop /\ Holds(x)
    /\ LET keys == [n \in 1..Len(sets[x].els) |-> sets[x].els[n].key] IN
         loop' = [over |-> x, at |-> 0, moved |-> FALSE,
                  due |-> IF Sound(x) /\ InOrderOfKeys(sets[x]) THEN keys ELSE Unknown(keys)]
    /\ UNCHANGED <<sets, copied>>

LoopEndMutant == Len(sets[loop.over].els)
LoopEnd == Len(loop.due)

(* A loop that reads behind the elements of its set, or in an array that was *)
(* freed, is not followed.                                                   *)
LoopStep ==
    /\ loop # NoLoop /\ ~loop.moved
    /\ loop.at < LoopEnd /\ loop.at < Len(sets[loop.over].els)
    /\ loop' = [loop EXCEPT !.at = @ + 1]
    /\ UNCHANGED <<sets, copied>>

EndLoop == loop # NoLoop /\ loop' = NoLoop /\ UNCHANGED <<sets, copied>>

Next ==
    \/ \E x \in Variable :
         \/ Indiset(x) \/ GetIndiset(x)
         \/ \E k \in Person, v \in Val : AddToSet(x, k, v)
         \/ \E k \in Person, all \in BOOLEAN : DeleteFromSet(x, k, all)
         \/ SortByKey(x) \/ SortByName(x) \/ SortByValue(x) \/ UniqueSet(x)
         \/ BeginLoop(x)
         \/ \E y \in Variable : ChooseSubset(x, y)
    \/ SetOperation
    \/ LoopStep
    \/ EndLoop

Spec == Init /\ [][Next]_vars

-----------------------------------------------------------------------------
(* Properties. *)

Rising(els, Rank(_), least) == \A n \in 2..Len(els) : Rank(els[n]) - Rank(els[n - 1]) >= least

Number(e) == e.key
Name(e) == NameRank(e.key)
Value(e) == e.val

(* What the flags of a set say is true, whatever was done to it since they   *)
(* were set: how it is sorted, that the s_pri of a set sorted by key are the *)
(* numbers of the keys, and that no person is in it twice.  Copies, and what *)
(* is made of them, are the exception: they keep flags without s_pri.        *)
FlagsTrue ==
    \A x \in Variable : Sound(x) =>
      LET seq == sets[x] IN
      /\ Cardinality(seq.flags \cap Sorts) <= 1
      /\ Has(seq, "KEYSORT") => Rising(seq.els, Number, 0) /\ seq.els = Numbers(seq.els)
      /\ Has(seq, "NAMESORT") => Rising(seq.els, Name, 0)
      /\ Has(seq, "VALUESORT") => Rising(seq.els, Value, 0)
      /\ Has(seq, "UNIQUED") => Cardinality(Keys(seq)) = Len(seq.els)

Valued(seq, e) == \E n \in 1..Len(seq.els) : seq.els[n].key = e.key /\ seq.els[n].val = e.val

Exact(three, keys, one, two) ==
    /\ Keys(three) = keys
    /\ Rising(three.els, Number, 1)
    /\ \A n \in 1..Len(three.els) :
         LET from == IF three.els[n].key \in Keys(one) THEN one ELSE two
         IN from.rpt => Valued(from, three.els[n])

(* Of any two sets, however they were made, sorted and changed, union,       *)
(* intersect and difference have exactly the persons that they should, each  *)
(* once, in the order of their keys, and with a value that it has in the     *)
(* first of the sets that it comes from.                                     *)
SetOpsExact ==
    LET sound == {sets[x] : x \in {y \in Variable : Sound(y)}} IN
    \A one \in sound, other \in sound \cup Made :
      \A pair \in {<<one, other>>, <<other, one>>} :
        LET k1 == Keys(pair[1])  k2 == Keys(pair[2]) IN
        /\ Exact(UnionIndiseq(pair[1], pair[2]), k1 \cup k2, pair[1], pair[2])
        /\ Exact(IntersectIndiseq(pair[1], pair[2]), k1 \cap k2, pair[1], pair[2])
        /\ Exact(DifferenceIndiseq(pair[1], pair[2]), k1 \ k2, pair[1], pair[2])

(* A loop over the result of a set operation has yet to read exactly the     *)
(* persons that were left when it began, in the order of their keys, though  *)
(* its body uses the set in other set operations, or adds to it while there  *)
(* is room in its array.                                                     *)
LoopComplete ==
    loop # NoLoop /\ None \notin ToSet(loop.due) =>
      /\ LoopEnd <= Len(sets[loop.over].els)
      /\ [n \in loop.at + 1..LoopEnd |-> sets[loop.over].els[n].key] =
         [n \in loop.at + 1..Len(loop.due) |-> loop.due[n]]
=============================================================================
