------------------------------ MODULE RecordIndex ------------------------------
(***************************************************************************)
(* The indexes of names (gedlib/names.c) and of REFNs (refns.c), and the   *)
(* commands that keep them in step with the records.                       *)
(*                                                                         *)
(* A record is its NAME and REFN lines, an index the pairs of a value and  *)
(* the key of a record: names of one soundex code, and REFNs of the same   *)
(* two letters, share a record of the tree, but are told apart by their    *)
(* whole value.  A command writes records and index entries one after the  *)
(* other, and the program can die between any two of these writes.         *)
(***************************************************************************)
EXTENDS Naturals, Sequences, FiniteSets, SequencesExt, NodeLists

CONSTANTS Person, Family, Other,  \* the keys of persons, families and the other records
          Name, Refn,             \* the values of NAME and REFN lines
          Gone,                   \* the record of a key that is not in use
          MaxNames, MaxRefns,     \* bound the lines of a record
          MaxLines,               \* bounds the lines of all records
          MaxLater                \* bounds the commands after one was cut short

VARIABLES disk,     \* the records stored
          index,    \* the entries of both indexes, as stored
          op,       \* the command under way: its writes, and how many are done
          loose,    \* entries that a command has left out of step with the records
          clean,    \* whether nothing was imported and no command cut short
          later     \* the commands left once one was cut short, all before that

vars == <<disk, index, op, loose, clean, later>>

Key == Person \cup Family \cup Other
Value == Name \cup Refn
Entry == Value \X Key

Lists(S, n) == UNION {[1..m -> S] : m \in 0..n}
PersonText == [NAME : Lists(Name, MaxNames), REFN : Lists(Refn, MaxRefns)]
OtherText == [NAME : {<<>>}, REFN : Lists(Refn, MaxRefns)]
TextsOf(k) == IF k \in Person THEN PersonText ELSE OtherText

ASSUME RecordIndexAssumption ==
    /\ IsFiniteSet(Key) /\ Name \cap Refn = {}
    /\ \A k \in Key : Gone \notin TextsOf(k)
    /\ Person \cap (Family \cup Other) = {} /\ Family \cap Other = {}
    /\ {MaxNames, MaxRefns, MaxLines, MaxLater} \subseteq Nat

Used == {k \in Key : disk[k] # Gone}
Unused == Key \ Used

(* What the record has of each value, and what the index says of it.         *)
Carries(k, v) ==
    k \in Used /\ (Contains(disk[k].NAME, v) \/ Contains(disk[k].REFN, v))
InStep(e) == e \in index <=> Carries(e[2], e[1])

-----------------------------------------------------------------------------
(* Writes.  An entry is added if it is not there, and removed if it is.      *)

Add(s, k) == [n \in 1..Len(s) |-> [what |-> "add", key |-> k, value |-> s[n]]]
Drop(s, k) == [n \in 1..Len(s) |-> [what |-> "drop", key |-> k, value |-> s[n]]]
Store(k, text) == <<[what |-> "store", key |-> k, value |-> text]>>
Delete(k) == Store(k, Gone)

ExchangeMutant(old, new, k) ==
    LET c == ClassifyNodes(old, new) IN Add(c.two, k) \o Drop(c.one, k)
(* The entries of a changed record: those of the lines it lost are removed,  *)
(* then those of its new lines added.  Lines in another order may be both.   *)
Exchange(old, new, k) ==
    LET c == ClassifyNodes(old, new) IN Drop(c.one, k) \o Add(c.two, k)

Reindex(old, new, k) == Exchange(old.NAME, new.NAME, k) \o Exchange(old.REFN, new.REFN, k)

Idle == [kind |-> "idle", writes |-> <<>>, done |-> 0]
AtRest == op = Idle

Begin(kind, writes) ==
    /\ AtRest /\ writes # <<>>
    /\ op' = [kind |-> kind, writes |-> writes, done |-> 0]
    /\ later # 0 /\ later' = IF later > MaxLater THEN later ELSE later - 1
    /\ UNCHANGED <<disk, index, loose>>

Keep == UNCHANGED clean

-----------------------------------------------------------------------------
(* The commands. *)

RefnFreeMutant(text, known) ==
    \A n \in 1..Len(text.REFN) : Cardinality({i \in Person : <<text.REFN[n], i>> \in index}) <= 1
(* valid_indi_tree: no other person has the REFN, as far as the index knows. *)
RefnFree(text, known) ==
    \A n \in 1..Len(text.REFN) : {i \in Person : <<text.REFN[n], i>> \in index} \subseteq known

(* A new record is stored after its entries. *)
NewRecord(k, text) == Add(text.NAME, k) \o Add(text.REFN, k) \o Store(k, text)

AddIndi(i, text) == RefnFree(text, {}) /\ Begin("add", NewRecord(i, text)) /\ Keep
AddRecord(k, text) == Begin("add", NewRecord(k, text)) /\ Keep

(* An edited record is stored before its entries change. *)
Replace(k, text) == Store(k, text) \o Reindex(disk[k], text, k)

ReplaceIndi(i, text) == RefnFree(text, {i}) /\ Begin("edit", Replace(i, text)) /\ Keep
ReplaceRecord(k, text) == Begin("edit", Replace(k, text)) /\ Keep

DropAll(i) == Drop(disk[i].NAME, i) \o Drop(disk[i].REFN, i) \o Delete(i)

RemoveIndi(i) == Begin("remove", DropAll(i)) /\ Keep

(* remove_any_record frees the record once more than it may; what the        *)
(* program does after that is not modelled.                                  *)
RemoveRecord(k) == Begin("remove", Drop(disk[k].REFN, k) \o Delete(k)) /\ Keep

(* The positions of some of n lines, in their order. *)
Picked(n) == {found \in Lists(1..n, n) :
                \A a, b \in DOMAIN found : a < b => found[a] < found[b]}

(* remove_empty_fam takes the REFN lines from nodes that leaving the cache   *)
(* has freed: the entry of each is removed, or what is in its place is no    *)
(* REFN of the family and the entry stays.                                   *)
RemoveEmptyFam(f) ==
    \E found \in Picked(Len(disk[f].REFN)) :
      LET lines == [n \in DOMAIN found |-> disk[f].REFN[found[n]]]
      IN Begin("remove", Drop(lines, f) \o Delete(f)) /\ Keep

(* The edited text of both becomes the second person; then the first goes.   *)
MergeIndis(i1, i2, text) ==
    /\ RefnFree(text, {i2})
    /\ Begin("merge", Reindex(disk[i2], text, i2) \o Store(i2, text) \o DropAll(i1))
    /\ Keep

(* The first family loses its lines before it is removed, and those of the   *)
(* second are stored without a look at the index.                            *)
MergeFams(f1, f2, text) == Begin("mergeFams", Delete(f1) \o Store(f2, text)) /\ Keep

(* restore_record: a person as a new one, but unchecked; other records are   *)
(* stored first.                                                             *)
RestoreRecord(k, text) ==
    /\ Begin("import", IF k \in Person THEN NewRecord(k, text)
                       ELSE Store(k, text) \o Add(text.REFN, k))
    /\ clean' = FALSE

GhostNameMutant(e) == e[1] \in Name /\ e[2] \notin Used
(* dbverify -G: names whose person is gone or has another name, and REFNs    *)
(* whose record is gone.  Entries that are missing are not looked for.       *)
GhostName(e) == e[1] \in Name /\ ~Carries(e[2], e[1])
GhostRefn(e) == e[1] \in Refn /\ e[2] \notin Used
Ghosts == {e \in index : GhostName(e) \/ GhostRefn(e)}

CheckGhosts ==
    /\ Begin("verify", [n \in 1..Cardinality(Ghosts) |-> [what |-> "ghost"]])
    /\ Keep

-----------------------------------------------------------------------------
(* Writing, and dying. *)

Perform(w) ==
    CASE w.what = "store" -> disk' = [disk EXCEPT ![w.key] = w.value] /\ UNCHANGED index
      [] w.what = "add"   -> index' = index \cup {<<w.value, w.key>>} /\ UNCHANGED disk
      [] w.what = "drop"  -> index' = index \ {<<w.value, w.key>>} /\ UNCHANGED disk
      [] w.what = "ghost" -> (\E e \in Ghosts : index' = index \ {e}) /\ UNCHANGED disk

(* The entries that the command was to keep in step. *)
Pending ==
    LET entries == {w \in ToSet(op.writes) : w.what \in {"add", "drop"}}
    IN {<<w.value, w.key>> : w \in entries}

(* What a removed or merged family leaves, whether or not it is cut short.   *)
Careless ==
    IF op.kind \in {"mergeFams", "remove"}
    THEN Refn \X (Family \cap {w.key : w \in ToSet(op.writes)}) ELSE {}

Settle(entries) ==
    /\ op' = Idle
    /\ loose' = {e \in loose \cup entries : ~InStep(e)'}

WriteNext ==
    /\ op.done < Len(op.writes)
    /\ Perform(op.writes[op.done + 1])
    /\ IF op.done + 1 = Len(op.writes) THEN Settle(Careless)
       ELSE op' = [op EXCEPT !.done = @ + 1] /\ UNCHANGED loose
    /\ UNCHANGED <<clean, later>>

Crash ==
    /\ ~AtRest /\ op.done > 0 /\ later > MaxLater
    /\ UNCHANGED <<disk, index>>
    /\ Settle(Pending \cup Careless)
    /\ clean' = FALSE /\ later' = MaxLater

Init ==
    /\ disk = [k \in Key |-> Gone] /\ index = {}
    /\ op = Idle /\ loose = {} /\ clean = TRUE /\ later = MaxLater + 1

LinesWithout(k) ==
    Cardinality({line \in (Used \ {k}) \X {"NAME", "REFN"} \X (1..MaxLines) :
                    line[3] <= Len(disk[line[1]][line[2]])})
Texts(k) ==
    LET others == LinesWithout(k)
    IN {text \in TextsOf(k) : others + Len(text.NAME) + Len(text.REFN) <= MaxLines}

Command ==
    \/ \E k \in Unused : \E text \in Texts(k) :
         \/ k \in Person /\ AddIndi(k, text)
         \/ k \notin Person /\ AddRecord(k, text)
         \/ RestoreRecord(k, text)
    \/ \E k \in Used : \E text \in Texts(k) :
         \/ k \in Person /\ ReplaceIndi(k, text)
         \/ k \notin Person /\ ReplaceRecord(k, text)
    \/ \E i \in Used \cap Person : RemoveIndi(i)
    \/ \E k \in Used \cap Other : RemoveRecord(k)
    \/ \E f \in Used \cap Family : RemoveEmptyFam(f)
    \/ \E i1, i2 \in Used \cap Person : i1 # i2 /\ \E text \in Texts(i2) : MergeIndis(i1, i2, text)
    \/ \E f1, f2 \in Used \cap Family : f1 # f2 /\ \E text \in Texts(f2) : MergeFams(f1, f2, text)
    \/ CheckGhosts

Next == Command \/ WriteNext \/ Crash

Spec == Init /\ [][Next]_vars

-----------------------------------------------------------------------------
(* Properties. *)

(* Only persons have names, and the entries are of known values. *)
TypeOK ==
    /\ \A k \in Key : disk[k] = Gone \/ disk[k] \in TextsOf(k)
    /\ index \subseteq (Name \X Person) \cup (Refn \X Key) /\ loose \subseteq Entry
    /\ op.done \in 0..Len(op.writes) /\ clean \in BOOLEAN /\ later \in 0..(MaxLater + 1)

(* Between commands each value of each record is in the index, and nothing   *)
(* else: every NAME line is found and every entry found is right, through    *)
(* doubled and reordered lines, changes and merges.  A command cut short     *)
(* leaves only its own entries out of step, and otherwise only removed and   *)
(* merged families leave REFNs behind.                                       *)
IndexExact ==
    /\ TypeOK
    /\ AtRest => \A e \in Entry : InStep(e) \/ e \in loose

(* Until something is imported or a command cut short, no two persons have a *)
(* REFN in common: the check of an edited person sees every REFN in use.     *)
PersonRefnsUnique ==
    clean => \A i, j \in Person, r \in Refn : Carries(i, r) /\ Carries(j, r) => i = j

(* After dbverify -G every name leads to a person who has it, and every REFN *)
(* to a record.                                                              *)
GhostsGone ==
    [][op.kind = "verify" /\ op' = Idle /\ index' # index =>
         \A e \in index' : /\ e[1] \in Name => Carries(e[2], e[1])'
                           /\ (e[2] \in Used)']_vars
=============================================================================
