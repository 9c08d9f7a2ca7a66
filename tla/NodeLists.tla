------------------------------- MODULE NodeLists -------------------------------
(* The functions of gedlib/nodeutls.c on lists of lines, by which two records *)
(* are merged and the changes of an edited one are found.  A line is its      *)
(* value; the lines below it are left out.                                    *)
EXTENDS Naturals, Sequences, FiniteSets, SequencesExt

PositionsOf(s, x) == {n \in 1..Len(s) : s[n] = x}
Without(s, J) == FoldLeftDomain(LAMBDA t, n : IF n \in J THEN t ELSE Append(t, s[n]), <<>>, s)

UnionNodesMutant(s1, s2) == {s2}

(* union_nodes, where the lines below are compared too: the second list, and  *)
(* what of the first it does not match.  Each line of the second takes at     *)
(* most one of the same value out of the first (those in J), none if the      *)
(* lines below them differ.                                                   *)
UnionNodes(s1, s2) ==
    {s2 \o Without(s1, J) :
       J \in {K \in SUBSET (1..Len(s1)) :
                 \A n \in K : Cardinality(K \cap PositionsOf(s1, s1[n]))
                                <= Cardinality(PositionsOf(s2, s1[n]))}}

(* unique_nodes *)
UniqueNodes(s) ==
    LET among[n \in 0..Len(s)] ==
          IF n = 0 THEN <<>>
          ELSE LET t == among[n - 1] IN IF Contains(t, s[n]) THEN t ELSE Append(t, s[n])
    IN among[Len(s)]

(* classify_nodes splits two lists into the nodes of the first only (one)    *)
(* and those of both.  After a match it goes on in the second list where it  *)
(* is (at), not at the beginning, and it stops at the end of either list, so *)
(* that of two values in the opposite order only one is found to be shared.  *)
ClassifyNode(a, x) ==
    LET hits == {n \in a.at..Len(a.two) : a.two[n] = x}
        n == CHOOSE m \in hits : \A k \in hits : m <= k
    IN IF a.at > Len(a.two) THEN [a EXCEPT !.one = Append(@, x)]
       ELSE IF hits = {} THEN [a EXCEPT !.one = Append(@, x), !.at = 1]
       ELSE [a EXCEPT !.both = Append(@, x), !.two = RemoveAt(@, n), !.at = n]

ClassifyNodes(s1, s2) ==
    LET u == UniqueNodes(s1)
        after[n \in 0..Len(u)] ==
          IF n = 0 THEN [one |-> <<>>, both |-> <<>>, two |-> UniqueNodes(s2), at |-> 1]
          ELSE ClassifyNode(after[n - 1], u[n])
    IN after[Len(u)]
=============================================================================
