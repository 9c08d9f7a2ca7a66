--------------------------------- MODULE Trail ---------------------------------
(***************************************************************************)
(* What a history promises: a tape of so many cells with a place on it.    *)
(* Before the place is what was recorded, oldest first, behind it what     *)
(* going forward comes to: what the user went back over, and older cells   *)
(* that nothing has been written over yet.                                 *)
(***************************************************************************)
EXTENDS Integers, Sequences, FiniteSetsExt

CONSTANTS Key,       \* the keys of records
          NoKey,     \* a cell that was never written
          Sizes      \* the numbers of cells that HistorySize may ask for

VARIABLES past, rest, kept   \* kept: the past that is in the database

Blank(n) == [m \in 1..n |-> NoKey]

(* A tape of that size, with what fits on it of a past.                      *)
Fresh(size, before) ==
    LET fits == SubSeq(before, 1, Min({size, Len(before)}))
    IN past' = fits /\ rest' = Blank(size - Len(fits))

Init == \E size \in Sizes : past = <<>> /\ rest = Blank(size) /\ kept = <<>>

(* A record goes to the next cell, or, on a full tape, over the oldest.      *)
Visit(k) ==
    /\ \/ rest # <<>> /\ past' = Append(past, k) /\ rest' = Tail(rest)
       \/ rest = <<>> /\ past # <<>> /\ past' = Append(Tail(past), k) /\ rest' = rest
    /\ UNCHANGED kept

(* Going back leaves at least one record, and what it leaves comes next.     *)
Back ==
    /\ \E n \in 1..Len(past) - 1 : past' = SubSeq(past, 1, n) /\ rest' = SubSeq(past, n + 1, Len(past)) \o rest
    /\ UNCHANGED kept

Clear == past # <<>> /\ past' = <<>> /\ rest' = rest \o past /\ UNCHANGED kept

(* A program ends, with its past saved or not, and the next one begins with  *)
(* the past in the database, if it is to load it, or with none.              *)
Restart ==
    /\ kept' \in {kept, past}
    /\ \E size \in Sizes : Fresh(size, kept') \/ Fresh(size, <<>>)

Next == (\E k \in Key : Visit(k)) \/ Back \/ Clear \/ Restart

Spec == Init /\ [][Next]_<<past, rest, kept>>
=============================================================================
