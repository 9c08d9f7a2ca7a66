------------------------------- MODULE LineageDb -------------------------------
(***************************************************************************)
(* The database of persons and families under the commands of Lineage.     *)
(* A command changes the trees in memory and writes records one after the  *)
(* other; the program can die between any two writes, by a crash or by an  *)
(* assertion of its own, and is then started again with what is stored.    *)
(***************************************************************************)
EXTENDS Lineage

CONSTANTS CutLinks,    \* bounds the members of all families when links are torn
          MaxLater     \* bounds the commands after that, but for a repair in the end

VARIABLES mem,         \* the trees in memory
          disk,        \* the records stored
          op,          \* the command that is under way
          damage,      \* the links that a command cut short has touched, or an edit has torn
          later        \* the commands since then, none before it

vars == <<mem, disk, op, damage, later>>

ASSUME LineageDbAssumption == CutLinks \in Nat /\ MaxLater \in Nat

Idle == [kind |-> "idle", who |-> <<>>, writes |-> <<>>, done |-> 0, doom |-> "none"]
AtRest == op = Idle

Init ==
    /\ mem = [k \in Key |-> Gone] /\ disk = mem
    /\ op = Idle /\ damage = {} /\ later = 0

Persons == {i \in Person : mem[i] # Gone}
Families == {f \in Family : mem[f] # Gone}
Unused(keys) == {k \in keys : mem[k] = Gone}

Start == Begun(mem)

LinksOf(tree) ==
    Cardinality({<<f, t, n>> \in {g \in Family : tree[g] # Gone} \X Tags \X (1..MaxLinks) :
                     n <= Len(tree[f][t])})

BeginTearing(kind, who, c, torn) ==
    /\ c.writes # <<>> \/ c.doom # "none"
    /\ mem' = IF c.doom = "none" THEN c.tree ELSE mem
    /\ op' = [kind |-> kind, who |-> who, writes |-> c.writes, done |-> 0, doom |-> c.doom]
    /\ later' = IF damage = {} THEN 0 ELSE later + 1
    /\ later' <= MaxLater + (IF kind = "verify" THEN 1 ELSE 0)
    /\ damage' = damage \cup torn
    /\ torn # {} => LinksOf(mem) <= CutLinks
    /\ UNCHANGED disk

Begin(kind, who, c) == BeginTearing(kind, who, c, {})

Links == LinksOf(mem)

-----------------------------------------------------------------------------
(* The commands. *)

(* A new person has no links, whatever the user typed. *)
AddIndi(i, sex) ==
    Begin("addIndi", <<i>>,
          Store([Start EXCEPT !.tree[i] = [sex |-> sex, FAMC |-> <<>>, FAMS |-> <<>>]], i))

PromptAddChild(i, f, at) ==
    /\ Links < MaxLinks
    /\ Begin("addChild", <<i, f>>, AddChildToFam(Start, i, f, at))

PromptAddSpouse(i, f) ==
    /\ Links < MaxLinks
    /\ Traditional => mem[f][SpouseTag(mem[i].sex)] = <<>>
    /\ Begin("addSpouse", <<i, f>>, AddSpouseToFam(Start, i, f))

AddFamilyOfSpouses(f, spouses) ==
    /\ Links + Len(spouses) <= MaxLinks
    /\ Traditional /\ Len(spouses) = 2 => mem[spouses[1]].sex # mem[spouses[2]].sex
    /\ Begin("addFamily", <<f>> \o spouses, AddNewFam(Start, f, spouses, <<>>))

AddFamilyOfChild(f, i) ==
    /\ Links < MaxLinks
    /\ Begin("addFamily", <<f, i>>, AddNewFam(Start, f, <<>>, <<i>>))

(* The family is one of those of the person, or the person a member of it    *)
(* and not the last.                                                         *)
ChooseAndRemoveChild(i, f) ==
    /\ mem[i].FAMC # <<>>
    /\ Contains(mem[i].FAMC, f) \/ (Contains(mem[f].CHIL, i) /\ NumFamXrefs(mem[f]) > 1)
    /\ Begin("removeChild", <<i, f>>, RemoveChild(Start, i, f))

ChooseAndRemoveSpouse(i, f) ==
    /\ mem[i].FAMS # <<>>
    /\ Contains(mem[i].FAMS, f) \/ (SpouseLinks(mem[f], i) > 0 /\ NumFamXrefs(mem[f]) > 1)
    /\ Begin("removeSpouse", <<i, f>>, RemoveSpouse(Start, i, f))

ChooseAndRemoveFamily(f) == Begin("removeFamily", <<f>>, RemoveFamily(Start, f))

ChooseAndRemoveIndi(i) == Begin("removeIndi", <<i>>, RemoveIndiByRoot(Start, i))

(* Persons who are both spouses must have the same sex. *)
MergeIndis(i1, i2) ==
    /\ i1 # i2
    /\ mem[i1].FAMS # <<>> /\ mem[i2].FAMS # <<>> => mem[i1].sex = mem[i2].sex
    /\ \E famc \in UnionNodes(mem[i1].FAMC, mem[i2].FAMC), fams \in UnionNodes(mem[i1].FAMS, mem[i2].FAMS) :
         Begin("mergeIndis", <<i1, i2>>, MergeTwoIndis(Start, i1, i2, famc, fams))

SameHead(s1, s2) == s1 = <<>> \/ s2 = <<>> \/ Head(s1) = Head(s2)

MergeFams(f1, f2) ==
    /\ f1 # f2
    /\ Traditional => /\ SameHead(mem[f1].HUSB, mem[f2].HUSB)
                      /\ SameHead(mem[f1].WIFE, mem[f2].WIFE)
    /\ \E husb \in UnionNodes(mem[f1].HUSB, mem[f2].HUSB), wife \in UnionNodes(mem[f1].WIFE, mem[f2].WIFE),
          sorted \in SortChildren(mem[f1].CHIL, mem[f2].CHIL) :
         Begin("mergeFams", <<f1, f2>>, MergeTwoFams(Start, f1, f2, husb, wife, sorted))

Swap ==
    \/ \E f \in Families : \E s \in Swaps(mem[f].CHIL) : Begin("swap", <<f>>, SwapChildren(Start, f, s))
    \/ \E i \in Persons : \E s \in Swaps(mem[i].FAMS) : Begin("swap", <<i>>, SwapFamilies(Start, i, s))

Reorder(i, f, at) ==
    /\ Contains(mem[f].CHIL, i) /\ Len(mem[f].CHIL) > 2
    /\ Begin("reorder", <<i, f>>, ReorderChild(Start, i, f, at))

(* iso_nodes accepts a list of the same length whose every line is in the    *)
(* other one.  So a user may change the order of the lines; and he may have  *)
(* one twice and lose another, which tears these links.                      *)
Edited(s) == [1..Len(s) -> ToSet(s)]
TornLines(s, t) == {x \in ToSet(s) : Count(t, x) # Count(s, x)}

EditIndi(i) ==
    \E famc \in Edited(mem[i].FAMC), fams \in Edited(mem[i].FAMS), sex \in Sex :
      /\ fams # <<>> => sex = mem[i].sex
      /\ BeginTearing("edit", <<i>>,
               Store([Start EXCEPT !.tree[i] = [sex |-> sex, FAMC |-> famc, FAMS |-> fams]], i),
               {i} \X (TornLines(mem[i].FAMC, famc) \cup TornLines(mem[i].FAMS, fams)))

EditFam(f) ==
    \E husb \in Edited(mem[f].HUSB), wife \in Edited(mem[f].WIFE), chil \in Edited(mem[f].CHIL) :
      BeginTearing("edit", <<f>>,
            Store([Start EXCEPT !.tree[f] = [HUSB |-> husb, WIFE |-> wife, CHIL |-> chil]], f),
            (TornLines(mem[f].HUSB, husb) \cup TornLines(mem[f].WIFE, wife) \cup TornLines(mem[f].CHIL, chil)) \X {f})

(* The records that the first pass found wrong are fixed one by one.         *)
Broken == {k \in Key : mem[k] # Gone /\ Fix(Start, k) # Start}

Verify == \E tofix \in SetToSeqs(Broken) : Begin("verify", <<>>, FoldLeft(Fix, Start, tofix))

-----------------------------------------------------------------------------
(* Writing, and dying. *)

(* A command that the bounds do not let be cut short writes all its records  *)
(* in one step.                                                              *)
CanBeCut == damage = {} /\ Links <= CutLinks

Written(store, write) == [store EXCEPT ![write[1]] = write[2]]

StoreRecord ==
    /\ op.done < Len(op.writes)
    /\ LET now == IF CanBeCut THEN op.done + 1 ELSE Len(op.writes)
       IN /\ disk' = FoldLeft(Written, disk, SubSeq(op.writes, op.done + 1, now))
          /\ op' = IF now = Len(op.writes) /\ op.doom = "none" THEN Idle
                   ELSE [op EXCEPT !.done = now]
    /\ UNCHANGED <<mem, damage, later>>

(* The records that a command is about: those it names and those it writes.  *)
Touched == ToSet(op.who) \cup {op.writes[n][1] : n \in 1..Len(op.writes)}
Torn == IF op.done = 0 THEN {} ELSE (Touched \cap Person) \X (Touched \cap Family)

Restart ==
    /\ mem' = disk /\ op' = Idle
    /\ damage' = damage \cup Torn
    /\ CanBeCut /\ LinksOf(disk) <= CutLinks
    /\ UNCHANGED <<disk, later>>

(* The program ends itself. *)
Abort == op.doom # "none" /\ op.done = Len(op.writes) /\ Restart

Crash == op.done < Len(op.writes) /\ Restart

Command ==
    /\ AtRest
    /\ \/ \E i \in Unused(Person), sex \in Sex : AddIndi(i, sex)
       \/ \E i \in Persons, f \in Families :
            \/ \E at \in 1..(Len(mem[f].CHIL) + 1) : PromptAddChild(i, f, at)
            \/ PromptAddSpouse(i, f)
            \/ ChooseAndRemoveChild(i, f) \/ ChooseAndRemoveSpouse(i, f)
            \/ \E at \in 1..Len(mem[f].CHIL) : Reorder(i, f, at)
       \/ \E f \in Unused(Family), i \in Persons :
            \/ AddFamilyOfChild(f, i)
            \/ AddFamilyOfSpouses(f, <<i>>)
            \/ \E j \in Persons : AddFamilyOfSpouses(f, <<i, j>>)
       \/ \E f \in Families : ChooseAndRemoveFamily(f) \/ EditFam(f)
       \/ \E i \in Persons : ChooseAndRemoveIndi(i) \/ EditIndi(i)
       \/ \E i1, i2 \in Persons : MergeIndis(i1, i2)
       \/ \E f1, f2 \in Families : MergeFams(f1, f2)
       \/ Swap
       \/ Verify

Next == Command \/ StoreRecord \/ Abort \/ Crash

Spec == Init /\ [][Next]_vars

-----------------------------------------------------------------------------
(* Properties. *)

Records == [Key -> PersonText \cup FamilyText \cup {Gone}]

(* A person's key has a person's record, a family's key a family's, whose    *)
(* lines point to records of the other kind.                                 *)
Fits(tree) ==
    /\ \A i \in Person : tree[i] \in PersonText \cup {Gone}
    /\ \A f \in Family : tree[f] \in FamilyText \cup {Gone}

TypeOK ==
    /\ DOMAIN mem = Key /\ DOMAIN disk = Key /\ Fits(mem) /\ Fits(disk)
    /\ op.done \in 0..Len(op.writes) /\ op.doom \in Dooms
    /\ damage \subseteq Person \X Family /\ later \in 0..(MaxLater + 1)

FamsOf(i) == IF disk[i] = Gone THEN <<>> ELSE disk[i].FAMS
FamcOf(i) == IF disk[i] = Gone THEN <<>> ELSE disk[i].FAMC
SpousesIn(f, i) == IF disk[f] = Gone THEN 0 ELSE SpouseLinks(disk[f], i)
ChildrenIn(f, i) == IF disk[f] = Gone THEN 0 ELSE Count(disk[f].CHIL, i)

Matched(i, f) ==
    /\ Count(FamsOf(i), f) = SpousesIn(f, i)
    /\ Count(FamcOf(i), f) = ChildrenIn(f, i)

(* Between commands every link is in both of its records, as many times in   *)
(* the one as in the other, and no record refers to one that is gone.  A     *)
(* command that was cut short leaves other links only between records that   *)
(* it was writing, and an edit that doubles one line in place of another     *)
(* only where the two lines point; such links never spread.                  *)
LinksMatch == AtRest => \A i \in Person, f \in Family : Matched(i, f) \/ <<i, f>> \in damage

(* A family goes with its last member, whichever way that member goes: none  *)
(* is stored without members, not even by a command cut short.  The          *)
(* exception: a family that was cut short, and then lost the last persons it *)
(* names, is left without members when dbverify takes them out of it.        *)
FamiliesHaveMembers ==
    /\ TypeOK
    /\ \A f \in Family : disk[f] # Gone =>
          NumFamXrefs(disk[f]) > 0 \/ (later > 1 /\ \E i \in Person : <<i, f>> \in damage)

(* Both, through any sequence of commands, complete or cut short.            *)
LineageSound == LinksMatch /\ FamiliesHaveMembers

(* Who is a spouse or a child in which family.                               *)
Kin(tree) ==
    LET used == {f \in Family : tree[f] # Gone} IN
         {x \in Person \X used \X {"FAMS"} : SpouseLinks(tree[x[2]], x[1]) > 0}
    \cup {x \in Person \X used \X {"FAMC"} : Contains(tree[x[2]].CHIL, x[1])}

(* A command changes no link between records that it does not name.  A merge *)
(* neither loses nor invents a link: the second of the two has exactly those *)
(* that either had, and the first has none.                                  *)
KinKept ==
    [][op = Idle /\ op'.kind # "idle" /\ op'.doom = "none" /\ damage = {} =>
         LET who == op'.who
             Unnamed(tree) == {x \in Kin(tree) : x[1] \notin ToSet(who) /\ x[2] \notin ToSet(who)}
             Moved(k) == IF k = who[1] THEN who[2] ELSE k
         IN /\ Unnamed(mem') = Unnamed(mem)
            /\ op'.kind \in {"mergeIndis", "mergeFams"} =>
                 Kin(mem') = {<<Moved(x[1]), Moved(x[2]), x[3]>> : x \in Kin(mem)}]_vars

(* After dbverify repaired the links no family has a member who is gone, and *)
(* no person is linked to a family that does not have it, unless the family  *)
(* is gone.                                                                  *)
RepairMends ==
    [][op.kind = "verify" /\ op' = Idle /\ disk' # disk =>
         \A i \in Person, f \in Family :
            /\ disk'[f] # Gone /\ disk'[i] = Gone => \A t \in Tags : ~Contains(disk'[f][t], i)
            /\ disk'[f] # Gone /\ disk'[i] # Gone =>
                  /\ Contains(disk'[i].FAMS, f) => SpouseLinks(disk'[f], i) > 0
                  /\ Contains(disk'[i].FAMC, f) => Contains(disk'[f].CHIL, i)]_vars

RepeatedInRow(s) == \E n \in 1..(Len(s) - 1) : s[n] = s[n + 1]
Repeats(i, f) == \E link \in {"FAMS", "FAMC"} : Count(mem[i][link], f) > 1
Shared(i1, i2, link) == ToSet(mem[i1][link]) \cap ToSet(mem[i2][link])
OtherRole(i, f) == SpouseLinks(mem[f], i) > Count(mem[f][SpouseTag(mem[i].sex)], i)

(* A merge has kept two lines of the second record for a key that both had. *)
KeptBoth ==
    \E n \in 1..Len(op.writes) : LET k == op.writes[n][1] text == op.writes[n][2] IN
       k = op.who[2] /\ \E tag \in DOMAIN text \ {"sex"} : \E x \in ToSet(text[tag]) :
          /\ Count(text[tag], x) > 1
          /\ Contains(mem[op.who[1]][tag], x) /\ Contains(mem[k][tag], x)

(* A command before which no link was torn carries out what it began.   *)
(* The exceptions: a person twice in a row in a family, whose second line is *)
(* used after it was freed; a person with so many families that the buffer   *)
(* of rmvat that holds its key is used again; a person twice in one family,  *)
(* of whom the first merge or removal makes the second impossible; the merge *)
(* of two persons who share two families, which classify_nodes does not      *)
(* both find, or of a husband who is stored as a wife; and the merge of two  *)
(* records with a line of the same value and different lines below it, which *)
(* keeps both lines although one link is left.                               *)
DiesOnlyOf ==
    op.doom # "none" /\ op.done = 0 /\ damage = {} =>
      \/ op.doom = "corrupt" /\ \E f \in Families, t \in Tags : RepeatedInRow(mem[f][t])
      \/ op.doom = "wrongkey" /\ \E i \in Persons : 2 * Len(mem[i].FAMS \o mem[i].FAMC) >= RingSize
      \/ /\ op.doom \in {"missing", "mismatch"}
         /\ \/ \E i \in Persons, f \in Families : Repeats(i, f)
            \/ /\ op.kind = "mergeIndis"
               /\ \/ \E f \in Families : OtherRole(op.who[1], f)
                  \/ \E link \in {"FAMS", "FAMC"} :
                       Cardinality(Shared(op.who[1], op.who[2], link)) > 1
      \/ op.doom = "mismatch" /\ op.kind \in {"mergeIndis", "mergeFams"} /\ KeptBoth
=============================================================================
