-------------------------------- MODULE Lineage --------------------------------
(***************************************************************************)
(* The links between persons and families, and what the commands of the    *)
(* program do to them: adding (liflines/add.c), removing (gedlib/remove.c, *)
(* liflines/delete.c), merging (merge.c) and reordering (swap.c).          *)
(*                                                                         *)
(* A link is two lines in two records: HUSB, WIFE or CHIL in the family,   *)
(* FAMS or FAMC in the person.  Here a record is its lines of these tags,  *)
(* in their order, and the sex of a person.  A function of the code is an  *)
(* operator on a command c under way: the trees in memory, the records it  *)
(* has written so far, the calls of rmvat, and what ended the program.     *)
(***************************************************************************)
EXTENDS Naturals, Sequences, FiniteSets, SequencesExt, NodeLists

CONSTANTS Person, Family,  \* the keys of persons and families
          Gone,            \* the record of a key that is not in use
          Traditional,     \* whether the program runs without the option -n
          RingSize,        \* the buffers of rmvat, 32 in the code
          MaxLinks         \* bounds the members of all families

Key == Person \cup Family
Sex == {"M", "F"}          \* a person of unknown sex cannot be a spouse
Tags == {"HUSB", "WIFE", "CHIL"}

ASSUME LineageAssumption ==
    /\ IsFiniteSet(Key) /\ Person \cap Family = {} /\ Gone \notin Key
    /\ Traditional \in BOOLEAN /\ RingSize \in Nat \ {0} /\ MaxLinks \in Nat

PersonText == [sex : Sex, FAMC : Seq(Family), FAMS : Seq(Family)]
FamilyText == [HUSB : Seq(Person), WIFE : Seq(Person), CHIL : Seq(Person)]

Dooms == {"none", "missing", "mismatch", "assert", "null", "corrupt", "wrongkey"}

Count(s, x) == Cardinality({n \in 1..Len(s) : s[n] = x})

-----------------------------------------------------------------------------
(* A command under way. *)

Begun(tree) == [tree |-> tree, writes |-> <<>>, calls |-> 0, doom |-> "none"]

Doom(c, how) == [c EXCEPT !.doom = how]
Rmvat(c) == [c EXCEPT !.calls = @ + 1]

(* indi_to_dbase, fam_to_dbase *)
Store(c, k) ==
    IF c.doom # "none" THEN c
    ELSE [Rmvat(c) EXCEPT !.writes = Append(@, <<k, c.tree[k]>>)]

(* The record is removed from the cache, and "DELE" stored instead of it. *)
Delete(c, k) ==
    IF c.doom # "none" THEN c
    ELSE [c EXCEPT !.tree[k] = Gone, !.writes = Append(@, <<k, Gone>>)]

NumFamXrefs(fam) == Len(fam.HUSB) + Len(fam.WIFE) + Len(fam.CHIL)

(* remove_empty_fam *)
RemoveEmptyFam(c, f) == Delete(Rmvat(c), f)

(* A family is stored, or removed with the last of its members. *)
StoreFam(c, f) ==
    IF c.doom # "none" THEN c
    ELSE IF NumFamXrefs(c.tree[f]) > 0 THEN Store(c, f) ELSE RemoveEmptyFam(c, f)

(* key_to_fam(rmvat(...)) and key_to_indi(rmvat(...)) *)
KeyTo(c, k) ==
    IF c.doom # "none" THEN c ELSE IF c.tree[k] = Gone THEN Doom(c, "missing") ELSE Rmvat(c)

SpouseTag(sex) == IF sex = "M" THEN "HUSB" ELSE "WIFE"
IsMale(tree, i) == tree[i].sex = "M"

-----------------------------------------------------------------------------
(* Adding. *)

AddChildToFamMutant(c, i, f, at) ==
    Store([c EXCEPT !.tree = [@ EXCEPT ![f].CHIL = InsertAt(@, at, i), ![i].FAMC = Append(@, f)]], f)
AddChildToFam(c, i, f, at) ==
    IF c.doom # "none" THEN c
    ELSE Store(Store([c EXCEPT !.tree = [@ EXCEPT ![f].CHIL = InsertAt(@, at, i),
                                                  ![i].FAMC = Append(@, f)]], f), i)

AddSpouseToFam(c, i, f) ==
    LET tag == SpouseTag(c.tree[i].sex) IN
    Store(Store([c EXCEPT !.tree = [@ EXCEPT ![f][tag] = Append(@, i),
                                             ![i].FAMS = Append(@, f)]], i), f)

(* add_new_fam_to_db: the members are spouses, or one child. *)
AddNewFam(c, f, spouses, children) ==
    LET fam == [HUSB |-> SelectSeq(spouses, LAMBDA i : IsMale(c.tree, i)),
                WIFE |-> SelectSeq(spouses, LAMBDA i : ~IsMale(c.tree, i)),
                CHIL |-> children]
        AddFams(e, i) == [e EXCEPT !.tree[i].FAMS = Append(@, f)]
        AddFamc(e, i) == [e EXCEPT !.tree[i].FAMC = Append(@, f)]
        d == FoldLeft(AddFamc, FoldLeft(AddFams, [c EXCEPT !.tree[f] = fam], spouses), children)
    IN FoldLeft(Store, Store(d, f), spouses \o children)

-----------------------------------------------------------------------------
(* Removing. *)

(* find_node finds nothing to unlink in a damaged person, which remove_child *)
(* does not notice.                                                          *)
RemoveChild(c, i, f) ==
    IF c.doom # "none" \/ ~Contains(c.tree[f].CHIL, i) THEN c
    ELSE IF ~Contains(c.tree[i].FAMC, f) THEN Doom(c, "null")
    ELSE StoreFam(Store([c EXCEPT !.tree = [@ EXCEPT ![f].CHIL = RemoveFirst(@, i),
                                                     ![i].FAMC = RemoveFirst(@, f)]], i), f)

RemoveSpouse(c, i, f) ==
    LET tag == IF Contains(c.tree[f].HUSB, i) THEN "HUSB" ELSE "WIFE" IN
    IF c.doom # "none" \/ ~Contains(c.tree[f][tag], i) THEN c
    ELSE IF ~Contains(c.tree[i].FAMS, f) THEN Doom(c, "assert")
    ELSE StoreFam(Store([c EXCEPT !.tree = [@ EXCEPT ![f][tag] = RemoveFirst(@, i),
                                                     ![i].FAMS = RemoveFirst(@, f)]], i), f)

(* remove_any_xrefs_node_list steps on with the node that it just freed as   *)
(* the previous one, so that the second of two equal nodes in a row stays in *)
(* the list after it was freed, and the list ends with it.                   *)
Doubled(s, i) == \E n \in 1..(Len(s) - 1) : s[n] = i /\ s[n + 1] = i

(* One turn of the loops of remove_indi_by_root. *)
StripXrefs(c, i, f, tags) ==
    LET d == KeyTo(c, f)
        fam == c.tree[f]
    IN IF d.doom # "none" THEN d
       ELSE IF \E t \in tags : Doubled(fam[t], i) THEN Doom(d, "corrupt")
       ELSE StoreFam([d EXCEPT !.tree[f] = [t \in Tags |-> IF t \in tags THEN Remove(fam[t], i)
                                                          ELSE fam[t]]], f)

(* key is the buffer that rmvat returned first; the calls for the families   *)
(* may have come round to it.                                                *)
RemoveIndiByRoot(c, i) ==
    LET key == Rmvat(c)
        FromFams(d, f) == StripXrefs(d, i, f, {"HUSB", "WIFE"})
        FromFamc(d, f) == StripXrefs(d, i, f, {"CHIL"})
        d == FoldLeft(FromFamc, FoldLeft(FromFams, key, c.tree[i].FAMS), c.tree[i].FAMC)
    IN IF c.doom # "none" THEN c
       ELSE IF d.doom # "none" THEN d
       ELSE IF d.calls - key.calls >= RingSize THEN Doom(d, "wrongkey")
       ELSE Delete(d, i)

(* choose_and_remove_family: the last member that goes takes it along. *)
RemoveFamily(c, f) ==
    LET fam == c.tree[f]
        Spouse(d, i) == RemoveSpouse(KeyTo(d, i), i, f)
        Child(d, i) == RemoveChild(KeyTo(d, i), i, f)
    IN IF NumFamXrefs(fam) = 0 THEN RemoveEmptyFam(c, f)
       ELSE FoldLeft(Child, FoldLeft(Spouse, c, fam.HUSB \o fam.WIFE), fam.CHIL)

-----------------------------------------------------------------------------
(* Merging. *)

(* check_indi_lineage_links and check_fam_lineage_links *)
SpouseLinks(fam, i) == Count(fam.HUSB, i) + Count(fam.WIFE, i)

CheckIndi(c, i) ==
    LET p == c.tree[i] IN
    IF c.doom # "none" THEN c
    ELSE IF \E f \in ToSet(p.FAMS \o p.FAMC) : c.tree[f] = Gone THEN Doom(c, "missing")
    ELSE IF \/ \E f \in ToSet(p.FAMS) : SpouseLinks(c.tree[f], i) # Count(p.FAMS, f)
            \/ \E f \in ToSet(p.FAMC) : Count(c.tree[f].CHIL, i) # Count(p.FAMC, f)
    THEN Doom(c, "mismatch") ELSE c

CheckFam(c, f) ==
    LET fam == c.tree[f]
        spouses == ToSet(fam.HUSB \o fam.WIFE)
    IN
    IF c.doom # "none" THEN c
    ELSE IF \E i \in spouses \cup ToSet(fam.CHIL) : c.tree[i] = Gone THEN Doom(c, "missing")
    ELSE IF \/ \E i \in spouses : Count(c.tree[i].FAMS, f) # SpouseLinks(fam, i)
            \/ \E i \in ToSet(fam.CHIL) : Count(c.tree[i].FAMC, f) # Count(fam.CHIL, i)
    THEN Doom(c, "mismatch") ELSE c

(* The turns of the loops of merge_two_indis: the family refers to both      *)
(* persons, or to the first only.  Two equal spouses at the head of a list   *)
(* have the second freed while the list begins with it.                      *)
DropFirst(c, f, tag, i) ==
    LET d == KeyTo(c, f)
        s == c.tree[f][tag]
    IN IF d.doom # "none" THEN d
       ELSE IF tag # "CHIL" /\ Len(s) > 1 /\ s[1] = i /\ s[2] = i THEN Doom(d, "corrupt")
       ELSE Store([d EXCEPT !.tree[f][tag] = Remove(@, i)], f)

ReferToSecond(c, f, tag, i1, i2) ==
    LET d == KeyTo(c, f) IN
    IF d.doom # "none" THEN d ELSE Store([d EXCEPT !.tree[f][tag] = ReplaceAll(@, i1, i2)], f)

(* famc3 and fams3 are unions of the lines of the two.                       *)
MergeTwoIndis(c, i1, i2, famc3, fams3) ==
    LET p1 == c.tree[i1]
        p2 == c.tree[i2]
        tag == SpouseTag(IF p2.FAMS # <<>> THEN p2.sex ELSE p1.sex)
        famc == ClassifyNodes(p1.FAMC, p2.FAMC)
        fams == ClassifyNodes(p1.FAMS, p2.FAMS)
        DropChild(d, f) == DropFirst(d, f, "CHIL", i1)
        MoveChild(d, f) == ReferToSecond(d, f, "CHIL", i1, i2)
        DropSpouse(d, f) == DropFirst(d, f, tag, i1)
        MoveSpouse(d, f) == ReferToSecond(d, f, tag, i1, i2)
        checked == CheckIndi(CheckIndi(c, i1), i2)
        children == FoldLeft(MoveChild, FoldLeft(DropChild, checked, famc.both), famc.one)
        spouses == FoldLeft(MoveSpouse, FoldLeft(DropSpouse, children, fams.both), fams.one)
        merged == [spouses EXCEPT !.tree[i2] =
                      [p2 EXCEPT !.FAMC = famc3, !.FAMS = fams3]]
    IN IF spouses.doom # "none" THEN spouses
       ELSE CheckIndi(RemoveIndiByRoot(Store(merged, i2), i1), i2)

MergeFamLinkMutant(c, f1, f2, link, i, isBoth) ==
    Store([c EXCEPT !.tree[i] = [@ EXCEPT ![link] = ReplaceAll(@, f1, f2)]], i)
(* One turn of the loop of merge_fam_links, for a member of the first family *)
(* that is in the same list of the second, or not.                           *)
MergeFamLink(c, f1, f2, link, i, isBoth) ==
    LET d == KeyTo(c, i) IN
    IF d.doom # "none" THEN d
    ELSE Store([d EXCEPT !.tree[i] =
                  [@ EXCEPT ![link] = IF isBoth THEN Remove(@, f1) ELSE ReplaceAll(@, f1, f2)]], i)

(* The children in the order of their births, which is any that keeps those  *)
(* of each family in order (sort_children); those in both are taken from the *)
(* second.                                                                   *)
Woven(s1, s2) ==
    LET n == Len(s1) + Len(s2)
        Weave(J) == [k \in 1..n |-> LET before == Cardinality({j \in J : j <= k})
                                    IN IF k \in J THEN s1[before] ELSE s2[k - before]]
    IN {Weave(J) : J \in {K \in SUBSET (1..n) : Cardinality(K) = Len(s1)}}

SortChildren(chil1, chil2) == Woven(SelectSeq(chil1, LAMBDA i : ~Contains(chil2, i)), chil2)

MergeTwoFams(c, f1, f2, husb3, wife3, sorted) ==
    LET fam1 == c.tree[f1]
        fam2 == c.tree[f2]
        Husb(d, i) == MergeFamLink(d, f1, f2, "FAMS", i, Contains(fam2.HUSB, i))
        Wife(d, i) == MergeFamLink(d, f1, f2, "FAMS", i, Contains(fam2.WIFE, i))
        Chil(d, i) == MergeFamLink(d, f1, f2, "FAMC", i, Contains(fam2.CHIL, i))
        checked == CheckFam(CheckFam(c, f1), f2)
        moved == FoldLeft(Chil, FoldLeft(Wife, FoldLeft(Husb, checked, fam1.HUSB), fam1.WIFE), fam1.CHIL)
        removed == RemoveEmptyFam(moved, f1)
        merged == [removed EXCEPT !.tree[f2] =
                     [HUSB |-> husb3, WIFE |-> wife3, CHIL |-> sorted]]
    IN IF moved.doom # "none" THEN moved ELSE CheckFam(Store(merged, f2), f2)

-----------------------------------------------------------------------------
(* Reordering. *)

LastOf(s, x) == CHOOSE n \in 1..Len(s) : s[n] = x /\ \A m \in 1..Len(s) : s[m] = x => m <= n
Swapped(s, m, n) == [k \in 1..Len(s) |-> IF k = m THEN s[n] ELSE IF k = n THEN s[m] ELSE s[k]]

(* The first two of two, or the last lines with two values chosen. *)
Swaps(s) ==
    IF Len(s) < 2 THEN {}
    ELSE IF Len(s) = 2 THEN {Swapped(s, 1, 2)}
    ELSE {Swapped(s, LastOf(s, x), LastOf(s, y)) : <<x, y>> \in {p \in ToSet(s) \X ToSet(s) : p[1] # p[2]}}

SwapChildren(c, f, sorted) == Store([c EXCEPT !.tree[f].CHIL = sorted], f)
SwapFamilies(c, i, sorted) == Store([c EXCEPT !.tree[i].FAMS = sorted], i)

(* The child is removed and added again, also when the user cancels. *)
ReorderChild(c, i, f, at) ==
    LET d == AddChildToFam(RemoveChild(c, i, f), i, f, at) IN
    Store(d, f)

-----------------------------------------------------------------------------
(* dbverify -F -i -f.  A link line that the other record does not answer     *)
(* gets the tag _badptr, and is a link no more.  A person's line for a       *)
(* family that is gone, and a member who does not point back, are reported   *)
(* and left.                                                                 *)

(* check_indi: the links of a person. *)
FixIndi(c, i) ==
    LET p == c.tree[i]
        AnswersChild(f) == c.tree[f] = Gone \/ Contains(c.tree[f].CHIL, i)
        AnswersSpouse(f) == c.tree[f] = Gone \/ SpouseLinks(c.tree[f], i) > 0
        fixed == [p EXCEPT !.FAMC = SelectSeq(@, AnswersChild), !.FAMS = SelectSeq(@, AnswersSpouse)]
    IN IF fixed = p THEN c ELSE Store([c EXCEPT !.tree[i] = fixed], i)

FixFamMutant(c, f) ==
    LET fam == c.tree[f]
        fixed == [fam EXCEPT !.HUSB = SelectSeq(@, LAMBDA i : c.tree[i] # Gone),
                             !.WIFE = SelectSeq(@, LAMBDA i : c.tree[i] # Gone)]
    IN IF fixed = fam THEN c ELSE Store([c EXCEPT !.tree[f] = fixed], f)
(* check_fam: the members of a family.  It may be left with none. *)
FixFam(c, f) ==
    LET fam == c.tree[f]
        fixed == [t \in Tags |-> SelectSeq(fam[t], LAMBDA i : c.tree[i] # Gone)]
    IN IF fixed = fam THEN c ELSE Store([c EXCEPT !.tree[f] = fixed], f)

Fix(c, k) == IF c.tree[k] = Gone THEN c ELSE IF k \in Person THEN FixIndi(c, k) ELSE FixFam(c, k)
=============================================================================
