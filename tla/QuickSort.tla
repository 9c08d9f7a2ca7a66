------------------------------- MODULE QuickSort -------------------------------
(* partition_sort of gedlib/indiseq.c: a quicksort of an array of elements,   *)
(* not recursive and not stable.  Cmp(x, y) is negative, zero or positive.    *)
EXTENDS Integers, Sequences, SequencesExt

CONSTANT Cmp(_, _)

Exchanged(arr, i, j) == [arr EXCEPT ![i] = arr[j], ![j] = arr[i]]
InOrder(arr, i, j) == IF Cmp(arr[i], arr[j]) > 0 THEN Exchanged(arr, i, j) ELSE arr

(* The first element from i upwards, or from j downwards, that is not on its *)
(* side of the pivot.                                                        *)
RECURSIVE Climb(_, _, _), Descend(_, _, _)
Climb(arr, i, pivot) == IF Cmp(arr[i], pivot) < 0 THEN Climb(arr, i + 1, pivot) ELSE i
Descend(arr, j, pivot) == IF Cmp(arr[j], pivot) > 0 THEN Descend(arr, j - 1, pivot) ELSE j

RECURSIVE Squeeze(_, _, _, _)
Squeeze(arr, i, j, pivot) ==
    LET up == Climb(arr, i + 1, pivot)
        down == Descend(arr, j - 1, pivot)
    IN IF down < up THEN [arr |-> arr, i |-> up, j |-> down]
       ELSE Squeeze(Exchanged(arr, up, down), up, down, pivot)

Median(arr, a, c, b) ==
    InOrder(InOrder(InOrder(arr, a, c), a, b), c, b)

(* partition2: the outer two and the middle one are sorted, the middle one   *)
(* is the pivot.                                                             *)
Partition(arr, a, b) ==
    LET c == (a + b) \div 2
        Split(tucked) == Squeeze(tucked, a, b - 1, tucked[b - 1])
        Untucked(split) == [split EXCEPT !.arr = Exchanged(@, split.i, b - 1)]
    IN Untucked(Split(Exchanged(Median(arr, a, c, b), c, b - 1)))

(* llqsort2: the longer side waits on the stack.                             *)
RECURSIVE Sorting(_, _, _, _), Sides(_, _, _, _)
Sorting(arr, a, b, stack) ==
    IF b > a + 1 THEN Sides(Partition(arr, a, b), a, b, stack)
    ELSE LET done == IF b > a THEN InOrder(arr, a, b) ELSE arr IN
         IF stack = <<>> THEN done
         ELSE Sorting(done, stack[1][1], stack[1][2], Tail(stack))

Sides(p, a, b, stack) ==
    IF p.j - a > b - p.i
    THEN Sorting(p.arr, p.i + 1, b, <<<<a, p.j>>>> \o stack)
    ELSE Sorting(p.arr, a, p.j, <<<<p.i + 1, b>>>> \o stack)

PartitionSort(arr) == Sorting(arr, 1, Len(arr), <<>>)
=============================================================================
