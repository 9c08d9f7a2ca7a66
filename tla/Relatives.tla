------------------------------- MODULE Relatives -------------------------------
(***************************************************************************)
(* The sets of relatives of a set of persons (gedlib/indiseq.c), and the   *)
(* families that are exported with one (gengedc.c).  They follow the links *)
(* of the persons to families and of those to their members.  A set is the *)
(* sequence of its persons; a person found has the place in the first set  *)
(* of the one whose value it gets, or the generation that is its value.    *)
(***************************************************************************)
EXTENDS LineageDb

Found(key, value) == [key |-> key, value |-> value]
FoundKeys(found) == {found[n].key : n \in 1..Len(found)}

-----------------------------------------------------------------------------
(* The loops of gedcom_macros.h. *)

Existing(tree, keys) == SelectSeq(keys, LAMBDA k : tree[k] # Gone)

FamSpouses(tree, f) == Existing(tree, tree[f].HUSB \o tree[f].WIFE)
FamChildren(tree, f) == Existing(tree, tree[f].CHIL)

OverFamilies(tree, families, Members(_)) ==
    FoldLeft(LAMBDA s, f : s \o Members(f), <<>>, Existing(tree, families))

ParentsOf(tree, i) == OverFamilies(tree, tree[i].FAMC, LAMBDA f : FamSpouses(tree, f))
ChildrenOf(tree, i) == OverFamilies(tree, tree[i].FAMS, LAMBDA f : FamChildren(tree, f))
SpousesOf(tree, i) ==
    OverFamilies(tree, tree[i].FAMS, LAMBDA f : SelectSeq(FamSpouses(tree, f), LAMBDA s : s # i))

(* indi_to_famc: the first family that the person is a child of.             *)
IndiToFamc(tree, i) ==
    IF tree[i].FAMC = <<>> THEN <<>> ELSE Existing(tree, <<Head(tree[i].FAMC)>>)

-----------------------------------------------------------------------------
(* parent_indiseq, child_indiseq, spouse_indiseq: whoever is not in the      *)
(* table yet is added, with the value of the person that led there.          *)

AddFound(found, keys, value) ==
    FoldLeft(LAMBDA t, k : IF k \in FoundKeys(t) THEN t ELSE Append(t, Found(k, value)), found, keys)

Collect(seq, Relatives(_)) ==
    FoldLeft(LAMBDA t, n : AddFound(t, Relatives(seq[n]), n), <<>>, [n \in 1..Len(seq) |-> n])

ParentIndiseq(tree, seq) == Collect(seq, LAMBDA i : ParentsOf(tree, i))
ChildIndiseq(tree, seq) == Collect(seq, LAMBDA i : ChildrenOf(tree, i))
SpouseIndiseq(tree, seq) == Collect(seq, LAMBDA i : SpousesOf(tree, i))

(* sibling_indiseq, without the persons themselves.                          *)
SiblingIndiseq(tree, seq) ==
    LET families == FoldLeft(LAMBDA s, i : s \o IndiToFamc(tree, i), <<>>, seq)
        children == FoldLeft(LAMBDA s, f : s \o FamChildren(tree, f), <<>>, families)
    IN AddFound(<<>>, SelectSeq(children, LAMBDA k : k \notin ToSet(seq)), 0)

(* ancestor_indiseq: the list is worked off from the front and those who are *)
(* found go to its end.                                                      *)
RECURSIVE Ancestors(_, _, _)
Ancestors(tree, todo, found) ==
    IF todo = <<>> THEN found
    ELSE LET next == Head(todo)
             all == AddFound(found, ParentsOf(tree, next.key), next.value + 1)
         IN Ancestors(tree, Tail(todo) \o SubSeq(all, Len(found) + 1, Len(all)), all)

Seeds(seq) == [n \in 1..Len(seq) |-> Found(seq[n], 0)]

AncestorIndiseq(tree, seq) == Ancestors(tree, Seeds(seq), <<>>)

RECURSIVE Descendants(_, _, _, _)
DescendantsMutant(tree, todo, families, found) ==
    IF todo = <<>> THEN found
    ELSE LET next == Head(todo)
             fresh == SelectSeq(UniqueNodes(Existing(tree, tree[next.key].FAMS)),
                                LAMBDA f : f \notin families)
             children == FoldLeft(LAMBDA s, f : s \o FamChildren(tree, f), <<>>, fresh)
             all == AddFound(found, children, next.value + 1)
         IN Descendants(tree, SubSeq(all, Len(found) + 1, Len(all)) \o Tail(todo),
                        families \cup ToSet(fresh), all)
(* descendent_indiseq: each family once. *)
Descendants(tree, todo, families, found) ==
    IF todo = <<>> THEN found
    ELSE LET next == Head(todo)
             fresh == SelectSeq(UniqueNodes(Existing(tree, tree[next.key].FAMS)),
                                LAMBDA f : f \notin families)
             children == FoldLeft(LAMBDA s, f : s \o FamChildren(tree, f), <<>>, fresh)
             all == AddFound(found, children, next.value + 1)
         IN Descendants(tree, Tail(todo) \o SubSeq(all, Len(found) + 1, Len(all)),
                        families \cup ToSet(fresh), all)

DescendentIndiseq(tree, seq) == Descendants(tree, Seeds(seq), {}, <<>>)

(* gen_gedcom: the families that the persons of the set refer to twice.      *)
ExportedFamilies(tree, seq) ==
    LET refs == FoldLeft(LAMBDA s, i : s \o IndiToFamc(tree, i) \o Existing(tree, tree[i].FAMS),
                         <<>>, seq)
    IN {f \in Family : Count(refs, f) > 1}

-----------------------------------------------------------------------------
(* The same by the members that the families have. *)

SpouseSet(f) == {i \in Persons : SpouseLinks(mem[f], i) > 0}
ChildSet(f) == {i \in Persons : Contains(mem[f].CHIL, i)}

ParentRel == UNION {SpouseSet(f) \X ChildSet(f) : f \in Families}
SpouseRel == {p \in UNION {SpouseSet(f) \X SpouseSet(f) : f \in Families} : p[1] # p[2]}
SiblingRel == UNION {ChildSet(f) \X ChildSet(f) : f \in Families}
Converse(rel) == {<<p[2], p[1]>> : p \in rel}
Image(rel, S) == {p[2] : p \in {q \in rel : q[1] \in S}}

RECURSIVE Generation(_, _, _)
Generation(rel, S, n) == IF n = 0 THEN S ELSE Image(rel, Generation(rel, S, n - 1))

Once(found) == Cardinality(FoundKeys(found)) = Len(found)

(* Exactly the persons related to the set are found, once, and each has the  *)
(* value of the first person of the set whom it is related to.               *)
FoundByFirst(found, seq, rel) ==
    /\ Once(found) /\ FoundKeys(found) = Image(rel, ToSet(seq))
    /\ \A n \in 1..Len(found) :
         /\ <<seq[found[n].value], found[n].key>> \in rel
         /\ \A m \in 1..(found[n].value - 1) : <<seq[m], found[n].key>> \notin rel

(* Exactly the persons any number of generations away are found, once, with  *)
(* the least such number.                                                    *)
FoundByGeneration(found, seq, rel) ==
    /\ Once(found)
    /\ FoundKeys(found) = UNION {Generation(rel, ToSet(seq), g) : g \in 1..Cardinality(Person)}
    /\ \A n \in 1..Len(found) :
         /\ found[n].key \in Generation(rel, ToSet(seq), found[n].value)
         /\ \A g \in 1..(found[n].value - 1) : found[n].key \notin Generation(rel, ToSet(seq), g)

(* A person who is a child of two families, or several times in one.         *)
Simple(i) ==
    /\ Len(mem[i].FAMC) <= 1
    /\ \A f \in Families : Count(mem[i].FAMC \o mem[i].FAMS, f) <= 1

Starts == {<<i>> : i \in Persons} \cup {s \in Persons \X Persons : s[1] # s[2]}

(* The sets of relatives that a report makes from a set of persons, by the   *)
(* links that the persons have, are those that the families, by theirs,      *)
(* imply, with the values that the manual promises; siblings and exported    *)
(* families only if no person is a child of two families or twice in one.    *)
KinSetsExact ==
    AtRest /\ damage = {} =>
      \A seq \in Starts :
        /\ FoundByFirst(ParentIndiseq(mem, seq), seq, Converse(ParentRel))
        /\ FoundByFirst(ChildIndiseq(mem, seq), seq, ParentRel)
        /\ FoundByFirst(SpouseIndiseq(mem, seq), seq, SpouseRel)
        /\ FoundByGeneration(AncestorIndiseq(mem, seq), seq, Converse(ParentRel))
        /\ FoundByGeneration(DescendentIndiseq(mem, seq), seq, ParentRel)
        /\ (\A i \in ToSet(seq) : Simple(i)) =>
             /\ FoundKeys(SiblingIndiseq(mem, seq)) = Image(SiblingRel, ToSet(seq)) \ ToSet(seq)
             /\ ExportedFamilies(mem, seq) =
                  {f \in Families : Cardinality(ToSet(seq) \cap (SpouseSet(f) \cup ChildSet(f))) > 1}
=============================================================================
