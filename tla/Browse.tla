--------------------------------- MODULE Browse --------------------------------
(***************************************************************************)
(* The browse screens (liflines/browse.c, tandem.c and lbrowse.c) and the  *)
(* references to record objects that they hold, pass on and let go, over   *)
(* the caches of RecordCache.  main_browse runs one screen after another:  *)
(* a screen is given its record or two in rec1 and rec2, or a list in seq, *)
(* waits for commands, and ends by putting what the next one is to show    *)
(* into the same three.                                                    *)
(*                                                                         *)
(* Which relative a command leads to is data: it leads to any record of    *)
(* the type it can lead to.  A reference that a screen forgets is never    *)
(* released: leaked has the records of which there are such references,    *)
(* however many.                                                           *)
(***************************************************************************)
EXTENDS RecordCache, FiniteSets

CONSTANTS FreeOrder,   \* the elements of each cache, all free at first
          MaxList,     \* bounds the records in a list
          MaxNamed,    \* bounds the lists with a name
          MaxLeaked,   \* bounds the records with forgotten references
          MaxGone      \* bounds the keys without a record at once

ASSUME BrowseAssumption ==
    MaxList \in Nat /\ MaxNamed \in Nat /\ MaxLeaked \in Nat /\ MaxGone \in Nat

(* create_cache puts each element once on the free list of its cache.        *)
ASSUME FreeOrderAssumption ==
    /\ FreeOrder \in [Type -> Seq(El)]
    /\ \A t \in Type :
          /\ \A i, j \in 1..Len(FreeOrder[t]) : FreeOrder[t][i] = FreeOrder[t][j] => i = j
          /\ Members(FreeOrder[t]) = {e \in El : Cache[e] = t}

(* A cache has two elements if two records can want them: create_cache makes *)
(* 200 of each (csz_indi and the others) unless the user asks for fewer.     *)
Roomy ==
    \A k, m \in Key :
        \E e1, e2 \in El :
            Cache[e1] = TypeOf[k] /\ Cache[e2] = TypeOf[m] /\ (k # m => e1 # e2)

VARIABLES cache,
          stored,      \* the keys of the records in the database
          lists,       \* the keys on each list that has a name
          screen,      \* where the user is, and the records that are held there
          leaked,
          robbed,      \* a reference was released that its holder still counts on
          strayed      \* a record that is not a person was taken for one

vars == <<cache, stored, lists, screen, leaked, robbed, strayed>>

(* current or current1, current2 and save of the screen's function; shared:  *)
(* current2 is current1, with one reference for both; seq of browse_list.    *)
Screens == {"menu", "indi", "fam", "aux", "tandem", "2fam", "list"}
Blank == [at |-> "menu", one |-> NoRec, two |-> NoRec, shared |-> FALSE, save |-> NoRec, seq |-> {}]

Persons == {k \in Key : TypeOf[k] = "INDI"}
Families == {k \in Key : TypeOf[k] = "FAM"}
Others == Key \ (Persons \cup Families)

(* main_browse, BROWSE_UNK: the screen for a record. *)
ScreenOf(k) == IF k \in Persons THEN "indi" ELSE IF k \in Families THEN "fam" ELSE "aux"

-----------------------------------------------------------------------------
(* References.  A step works on x, the caches with what is leaked in them    *)
(* and the record objects that the step has got, by key; nothing more        *)
(* happens once the program has died.                                        *)

Now == [c |-> cache, leaked |-> leaked, got |-> [k \in Key |-> NoRec]]
Ended(x) == x.c.dead # "alive"
Call(x, d) == IF Ended(x) THEN x ELSE [x EXCEPT !.c = d]

(* key_to_record and setrecord; Ref is the record that Get has got, which    *)
(* may have lost its element to the next one.                                *)
Noted(x, k) == IF Ended(x) THEN x ELSE [x EXCEPT !.got[k] = RecordOf(x.c, k)]
Get(x, k) == Noted(Call(x, KeyToRecord(x.c, k)), k)
Ref(x, k) == x.got[k]
Lose(x, r) == [x EXCEPT !.c = IF @.refs[r] = 0 THEN Die(@, "dangling") ELSE Release(@, r)]
DropMutant(x, r) == IF Ended(x) \/ r = NoRec \/ x.c.rcel[r] = NoEl THEN x ELSE Lose(x, r)
Drop(x, r) == IF Ended(x) \/ r = NoRec THEN x ELSE Lose(x, r)

(* A reference is forgotten, while what it is to stays. *)
Leak(x, r) ==
    IF Ended(x) \/ r = NoRec \/ x.c.refs[r] = 0 THEN x
    ELSE IF r \in x.leaked THEN Drop(x, r) ELSE [x EXCEPT !.leaked = @ \cup {r}]

(* The same for a line of a list, whose record may be gone: ASSERT(rec) in   *)
(* key_to_cacheel, or key_to_record without a key.                           *)
Missing(x) == Call(x, Die(x.c, "missing"))
Find(x, k) == IF k \in stored THEN Get(x, k) ELSE Missing(x)

(* What the user has added to the database and the cache. *)
New(x, k) == Get(Call(x, AddNew(x.c, k)), k)

-----------------------------------------------------------------------------
(* A record that nobody holds and no element is of cannot be reached again,  *)
(* though a reference to it was leaked: that is left out of then on.         *)
Held(scr) == {scr.one, scr.two, scr.save}
Reachable(c, scr) == {r \in Rec : r \in Held(scr) \/ \E e \in El : c.crec[e] = r}

Forget(c, lost) ==
    [c EXCEPT !.refs = [r \in Rec |-> IF r \in lost /\ @[r] > 0 THEN @[r] - 1 ELSE @[r]],
              !.rcel = [r \in Rec |-> IF r \in lost THEN NoEl ELSE @[r]],
              !.gone = {}]

(* A bound: no step needs more than MaxObject objects of a record at once.   *)
Commit(x, scr) ==
    /\ x.c.dead # "memory"
    /\ cache' = IF Ended(x) THEN x.c ELSE Forget(x.c, x.leaked \ Reachable(x.c, scr))
    /\ leaked' = IF Ended(x) THEN leaked ELSE x.leaked \cap Reachable(x.c, scr)
    /\ screen' = IF Ended(x) THEN screen ELSE scr

(* The screen for record r begins.  What it asserts of its record is met by  *)
(* what the commands find, but for a person asked for that is none: Strayed. *)
Show(x, code, r) == Commit(x, [Blank EXCEPT !.at = code, !.one = r])
ShowTwo(x, code, r1, r2) == Commit(x, [Blank EXCEPT !.at = code, !.one = r1, !.two = r2])
(* A list is what a search finds, or a copy of one that has a name.          *)
ShowList(x) ==
    \E keys \in (SUBSET stored) \cup lists :
        Cardinality(keys) \in 2..MaxList /\ Commit(x, [Blank EXCEPT !.at = "list", !.seq = keys])

-----------------------------------------------------------------------------
(* The display.  A held record must be alive; it is read again if it fell    *)
(* out of the cache, and its element is locked while others are read: seen   *)
(* is one of them, or the record itself.                                     *)

Seen(c, seen) == IF c.dead # "alive" THEN c ELSE KeyToCacheel(c, seen)
Unlocked1(c, e) == IF c.dead # "alive" THEN c ELSE UnlockCache(c, e)
Locked(c, k, seen) ==
    IF c.dead # "alive" THEN c ELSE Unlocked1(Seen(LockCache(c, c.table[k]), seen), c.table[k])
Found(c, k, seen) == IF c.dead # "alive" THEN c ELSE Locked(KeyToCacheel(c, k), k, seen)

Display(x, r, seen) ==
    IF Ended(x) THEN x
    ELSE IF x.c.refs[r] = 0 THEN Call(x, Die(x.c, "dangling"))
    ELSE Call(x, Found(Nztop(x.c, r, stored), KeyOf(r), seen))

(* What there is when a screen has been shown and a command is given.  Only  *)
(* NEWFAMILY, ADDCHILD and ADDSPOUSE leave save alone.                       *)
At(codes) == screen.at \in codes
Shown(seen) ==
    IF screen.two = NoRec THEN Display(Now, screen.one, seen)
    ELSE Display(Display(Now, screen.one, seen), screen.two, KeyOf(screen.two))
Unsaved(x) == Leak(x, screen.save)

Unchanged == UNCHANGED <<stored, lists, robbed, strayed>>

(* remove_from_browse_lists: delete_indiseq leaves the keys of other records *)
(* where they are, and nobody asks it for them.                              *)
RemoveFromListsMutant(k) == lists' = lists
RemoveFromLists(k) == lists' = IF k \in Persons THEN {keys \ {k} : keys \in lists} ELSE lists

Removes(k) == Cardinality(Key \ stored) < MaxGone /\ stored' = stored \ {k} /\ RemoveFromLists(k)
Stores(k) == stored' = stored \cup {k} /\ UNCHANGED lists

-----------------------------------------------------------------------------
(* The main menu: prompt_for_browse, and commands that show no record.  In   *)
(* all that follows, x is what there is after the display and the records    *)
(* that the command has got with Get or made with New.                       *)

Open(k, x) == At({"menu"}) /\ Show(x, ScreenOf(k), Ref(x, k)) /\ Unchanged

OpenList == At({"menu"}) /\ ShowList(Now) /\ Unchanged

DeleteRecord(k, x) ==
    /\ At({"menu"})
    /\ Commit(Call(x, RemoveFromCache(x.c, k)), Blank)
    /\ Removes(k)
    /\ UNCHANGED <<robbed, strayed>>

-----------------------------------------------------------------------------
(* browse_indi_modes, browse_fam and browse_aux. *)

One == {"indi", "fam", "aux"}

(* A command that shows the same record afterwards, having perhaps read others.*)
Stay(x) == At(One) /\ Commit(x, [screen EXCEPT !.save = NoRec]) /\ Unchanged

(* A command that leads to one other record, on the same screen or the one   *)
(* of its type.                                                              *)
Go(k, x) == At(One) /\ Show(Drop(x, screen.one), ScreenOf(k), Ref(x, k)) /\ Unchanged

(* goto_indi_child and goto_fam_child add a reference to the one they got.   *)
GoToChild(k, x) ==
    /\ At({"indi", "fam"}) /\ k \in Persons
    /\ Show(Drop(Leak(Get(x, k), Ref(x, k)), screen.one), "indi", Ref(x, k))
    /\ Unchanged

(* handle_history_cmds in browse_aux returns without a look at current.      *)
AuxHistory(k, x) == At({"aux"}) /\ Show(Leak(x, screen.one), ScreenOf(k), Ref(x, k)) /\ Unchanged

(* The TANDEM commands: two relatives of the one shown, both persons or both *)
(* families; without the second the first is let go.                         *)
GoToTwo(k1, k2, x) ==
    /\ At({"indi", "fam"})
    /\ \/ {k1, k2} \subseteq Persons /\ ShowTwo(Drop(x, screen.one), "tandem", Ref(x, k1), Ref(x, k2))
       \/ /\ {k1, k2} \subseteq Families /\ At({"indi"})
          /\ ShowTwo(Drop(x, screen.one), "2fam", Ref(x, k1), Ref(x, k2))
    /\ Unchanged

(* CMD_TANDEM: a second one beside the one shown, which is handed on.        *)
Beside(k, x) ==
    /\ \/ At({"indi"}) /\ k \in Persons /\ ShowTwo(x, "tandem", screen.one, Ref(x, k))
       \/ At({"fam"}) /\ k \in Families /\ ShowTwo(x, "2fam", screen.one, Ref(x, k))
    /\ Unchanged

GoToList(x) == At({"indi", "fam"}) /\ ShowList(Drop(x, screen.one)) /\ Unchanged

(* CMD_NEWPERSON: the person shown before, or on the screen of a family the  *)
(* new one, is kept in save for the next command.                            *)
NewPerson(k, x) ==
    /\ At({"indi", "fam"}) /\ k \in Persons
    /\ Commit(x, IF At({"indi"}) THEN [screen EXCEPT !.save = screen.one, !.one = Ref(x, k)]
                 ELSE [screen EXCEPT !.save = Ref(x, k)])
    /\ Stores(k) /\ UNCHANGED <<robbed, strayed>>

(* CMD_NEWFAMILY, or CMD_ADDCHILD and CMD_ADDSPOUSE: what is in save is used,*)
(* unless the user gives up the new family.                                  *)
NewFamily(k, x) ==
    /\ At({"indi"}) /\ k \in Families
    /\ Show(Drop(Drop(x, screen.save), screen.one), "fam", Ref(x, k))
    /\ Stores(k) /\ UNCHANGED <<robbed, strayed>>

GiveUp(x) == At({"indi"}) /\ Commit(x, screen) /\ Unchanged
UseSave(x) ==
    At({"fam"}) /\ Commit(Drop(x, screen.save), [screen EXCEPT !.save = NoRec]) /\ Unchanged

(* add_new_rec_maybe_ref: the user goes to the new record, or stays and its  *)
(* reference is forgotten.                                                   *)
NewOther(k, x) ==
    /\ At(One) /\ k \in Others
    /\ \/ Show(Drop(x, screen.one), "aux", Ref(x, k))
       \/ Commit(Leak(x, Ref(x, k)), [screen EXCEPT !.save = NoRec])
    /\ Stores(k) /\ UNCHANGED <<robbed, strayed>>

(* A leaked reference is a handle again. *)
Reclaimed(x, r) == IF Ended(x) THEN x ELSE [x EXCEPT !.leaked = @ \ {r}]

(* Or he edits the current record: it is returned as if it were another one, *)
(* and the top of the loops of browse_indi_modes and browse_fam releases it. *)
(* That takes one of its leaked references, if there is one, and otherwise   *)
(* the one of the screen.  (browse_aux releases nothing: the same as staying.)*)
Rob(x, scr) ==
    IF screen.one \in x.leaked
    THEN /\ (Commit(x, scr) \/ Commit(Drop(Reclaimed(x, screen.one), screen.one), scr))
         /\ UNCHANGED robbed
    ELSE Commit(Drop(x, screen.one), scr) /\ robbed' = TRUE

EditToRefer(k, x) ==
    /\ At({"indi", "fam"}) /\ k \in Others
    /\ Rob(Leak(x, Ref(x, k)), [screen EXCEPT !.save = NoRec])
    /\ Stores(k) /\ UNCHANGED strayed

(* pick_remove_spouse_from_family makes a record of the node of the spouse.  *)
RemoveSpouse(k, x) ==
    /\ At({"fam"}) /\ k \in Persons
    /\ Commit(Leak(x, Ref(x, k)), [screen EXCEPT !.save = NoRec])
    /\ Unchanged

(* CMD_REMOVEASSPOUSE and CMD_REMOVEASCHILD: the family that was chosen is   *)
(* forgotten, and deleted if nobody is left in it.                           *)
RemoveFromFamily(k, x) ==
    /\ At({"indi"}) /\ k \in Families
    /\ \/ Commit(Leak(x, Ref(x, k)), [screen EXCEPT !.save = NoRec]) /\ Unchanged
       \/ /\ Commit(Leak(Call(x, RemoveFromCache(x.c, k)), Ref(x, k)), [screen EXCEPT !.save = NoRec])
          /\ Removes(k) /\ UNCHANGED <<robbed, strayed>>

(* ask_for_indi and ask_for_indiseq take any record from a list that has a   *)
(* name, or from a history, for a person: the screen asserts that it is one, *)
(* but for ZIP_INDI on the screen of a person, which shows it as one.        *)
Stray(k, x) ==
    /\ At({"indi", "fam"}) /\ k \notin Persons
    /\ \/ Commit(Call(x, Die(x.c, "assert")), screen)
       \/ At({"indi"}) /\ Show(Drop(x, screen.one), "indi", Ref(x, k))
    /\ strayed' = TRUE /\ UNCHANGED <<stored, lists, robbed>>

(* CMD_QUIT, or CMD_BROWSE with a named list that has no line left: so also   *)
(* QuitTwo.                                                                  *)
Quit(x) == At(One) /\ Commit(Drop(x, screen.one), Blank) /\ Unchanged

-----------------------------------------------------------------------------
(* browse_tandem and browse_2fam release nothing. *)

Two == {"tandem", "2fam"}
Both(x) == Leak(IF screen.shared THEN x ELSE Leak(x, screen.two), screen.one)

StayTwo(x) == At(Two) /\ Commit(x, screen) /\ Unchanged

Swap(x) == At(Two) /\ Commit(x, [screen EXCEPT !.one = screen.two, !.two = screen.one]) /\ Unchanged

(* A relative of the person above, who takes his place. *)
GoAbove(k, x) ==
    /\ At({"tandem"}) /\ k \in Persons
    /\ Commit(IF screen.shared THEN x ELSE Leak(x, screen.one), [screen EXCEPT !.one = Ref(x, k), !.shared = FALSE])
    /\ Unchanged

CopyTopToBottom(x) ==
    /\ At({"tandem"})
    /\ Commit(IF screen.shared THEN x ELSE Leak(x, screen.two), [screen EXCEPT !.two = screen.one, !.shared = TRUE])
    /\ Unchanged

(* CMD_TOP, and CMD_BOTTOM of the screen of families.                        *)
GoToTop(x) ==
    /\ At(Two)
    /\ \/ Show(IF screen.shared THEN x ELSE Leak(x, screen.two), ScreenOf(KeyOf(screen.one)), screen.one)
       \/ At({"2fam"}) /\ Show(Leak(x, screen.one), "fam", screen.two)
    /\ Unchanged

(* CMD_MERGE_BOTTOM_TO_TOP: the second one is deleted.                       *)
Merged(x) == Get(Call(x, RemoveFromCache(x.c, KeyOf(screen.two))), KeyOf(screen.one))
Merge(x) ==
    /\ At(Two) /\ KeyOf(screen.one) # KeyOf(screen.two)
    /\ Show(Both(Merged(x)), ScreenOf(KeyOf(screen.one)), Ref(Merged(x), KeyOf(screen.one)))
    /\ Removes(KeyOf(screen.two))
    /\ UNCHANGED <<robbed, strayed>>

AddFamily(k, x) ==
    /\ At({"tandem"}) /\ k \in Families
    /\ Show(Both(x), "fam", Ref(x, k))
    /\ Stores(k) /\ UNCHANGED <<robbed, strayed>>

(* CMD_BROWSE of the screen of persons. *)
BrowseNew(k, x) ==
    /\ At({"tandem"})
    /\ IF k \in Persons THEN Show(Both(x), "indi", Ref(x, k)) /\ UNCHANGED strayed
       ELSE Commit(Call(x, Die(x.c, "assert")), screen) /\ strayed' = TRUE
    /\ UNCHANGED <<stored, lists, robbed>>

BrowseNewList(x) == At({"tandem"}) /\ ShowList(Both(x)) /\ Unchanged

(* CMD_BOTH_FATHERS and CMD_BOTH_MOTHERS; without the second the first is    *)
(* forgotten.                                                                *)
BothParents(k1, k2, x) ==
    /\ At({"2fam"}) /\ {k1, k2} \subseteq Persons
    /\ ShowTwo(Both(x), "tandem", Ref(x, k1), Ref(x, k2))
    /\ Unchanged
OneParent(k, x) == At({"2fam"}) /\ k \in Persons /\ Commit(Leak(x, Ref(x, k)), screen) /\ Unchanged

QuitTwo(x) == At(Two) /\ Commit(Both(x), Blank) /\ Unchanged

-----------------------------------------------------------------------------
(* browse_list gets the record of the current line, k, before each command,  *)
(* and releases none.                                                        *)

(* show_big_list reads the lines in view, and releases them: seen is one.    *)
SeenToo(x, seen) == IF seen \in stored THEN Call(x, Seen(x.c, seen)) ELSE Missing(x)
Line(k, seen) == SeenToo(Find(Now, k), seen)
Past(x, k) == Leak(x, Ref(x, k))

(* Moving, editing, marking; removing the line or adding records, those of a *)
(* named list for instance.                                                  *)
Added == {{m} : m \in stored} \cup lists
ListStay(k, x) ==
    /\ \E keys \in {screen.seq, screen.seq \ {k}} \cup {screen.seq \cup more : more \in Added} :
         Cardinality(keys) \in 1..MaxList /\ Commit(Past(x, k), [screen EXCEPT !.seq = keys])
    /\ Unchanged

ListSelect(k, x) == Show(x, ScreenOf(k), Ref(x, k)) /\ Unchanged

(* 't': the marked line and the current one. *)
ListTandemMutant(k, marked, x) ==
    /\ IF k \in Persons THEN ShowTwo(x, "tandem", Ref(x, marked), Ref(x, k))
       ELSE IF {k, marked} \subseteq Families THEN ShowTwo(x, "2fam", Ref(x, marked), Ref(x, k))
       ELSE Commit(Past(Past(x, k), marked), screen)
    /\ Unchanged
ListTandem(k, marked, x) ==
    /\ IF {k, marked} \subseteq Persons THEN ShowTwo(x, "tandem", Ref(x, marked), Ref(x, k))
       ELSE IF {k, marked} \subseteq Families THEN ShowTwo(x, "2fam", Ref(x, marked), Ref(x, k))
       ELSE Commit(Past(Past(x, k), marked), screen)
    /\ Unchanged

(* 'b': a new list, or one record, which is read as a person: the record of  *)
(* the line is forgotten first, for it can be the same one, read again.      *)
ListBrowse(m, x) ==
    /\ IF m \in Persons THEN Show(x, "indi", Ref(x, m)) /\ UNCHANGED strayed
       ELSE Commit(Call(x, Die(x.c, "assert")), screen) /\ strayed' = TRUE
    /\ UNCHANGED <<stored, lists, robbed>>

(* 'n': the list gets a name, which another one may have had. *)
NameTheList(k, x) ==
    /\ \E old \in {{}} \cup {{keys} : keys \in lists} : lists' = (lists \ old) \cup {screen.seq}
    /\ Cardinality(lists') <= MaxNamed
    /\ Commit(Past(x, k), screen)
    /\ UNCHANGED <<stored, robbed, strayed>>

ListNew(k, x) == ShowList(Past(x, k)) /\ Unchanged

ListQuit(k, x) == Commit(Past(x, k), Blank) /\ Unchanged

(* A named list of one line whose record is gone, where records are asked    *)
(* for, or one of no line, where a person is: prompt_for_browse alone looks. *)
AskInVain(x) ==
    /\ \/ At({"indi", "fam", "tandem", "list"}) /\ \E k \in Key \ stored : {k} \in lists
       \/ At({"menu", "indi", "fam", "list"}) /\ {} \in lists
    /\ Commit(Missing(x), screen) /\ Unchanged

-----------------------------------------------------------------------------

Init ==
    /\ cache = EmptyCaches(FreeOrder) /\ stored = Key /\ lists = {}
    /\ screen = Blank /\ leaked = {} /\ robbed = FALSE /\ strayed = FALSE

(* A bound: the commands stop when more than MaxLeaked records leak.  What   *)
(* the program does with a reference that it has lost, or with a record that *)
(* is no person on the screen of one, is left out.                           *)
Room == Cardinality(leaked) <= MaxLeaked /\ ~robbed /\ ~strayed

MenuCommand ==
    \/ OpenList \/ AskInVain(Now)
    \/ \E k \in stored :
         \/ \E x \in {Get(Now, k)} : Open(k, x)
         \/ \E x \in {Call(Now, KeyToCacheel(cache, k))} : DeleteRecord(k, x)

Alike(k) == {m \in stored : ScreenOf(m) = ScreenOf(k)}

OneGot(k, x) ==
    \/ Go(k, x) \/ GoToChild(k, x) \/ AuxHistory(k, x) \/ Beside(k, x) \/ RemoveSpouse(k, x)
    \/ RemoveFromFamily(k, x) \/ Stray(k, x)
    \/ \E m \in Alike(k) : \E y \in {Get(x, m)} : GoToTwo(k, m, y)

OneCommand(shown, x) ==
    \/ GiveUp(shown) \/ UseSave(shown) \/ Stay(x) \/ GoToList(x) \/ Quit(x) \/ AskInVain(x)
    \/ \E k \in stored : \E y \in {Get(x, k)} : OneGot(k, y)
    \/ \E k \in Key \ stored :
         \/ \E y \in {New(shown, k)} : NewFamily(k, y)
         \/ \E y \in {New(x, k)} : NewPerson(k, y) \/ NewOther(k, y) \/ EditToRefer(k, y)

TwoGot(k, x) ==
    \/ GoAbove(k, x) \/ BrowseNew(k, x) \/ OneParent(k, x)
    \/ \E m \in Alike(k) : \E y \in {Get(x, m)} : BothParents(k, m, y)

TwoCommand(x) ==
    \/ StayTwo(x) \/ Swap(x) \/ CopyTopToBottom(x) \/ GoToTop(x)
    \/ Merge(x) \/ BrowseNewList(x) \/ QuitTwo(x) \/ AskInVain(x)
    \/ \E k \in stored : \E y \in {Get(x, k)} : TwoGot(k, y)
    \/ \E k \in Key \ stored : \E y \in {New(x, k)} : AddFamily(k, y)

ListCommand(k, x) ==
    \/ ListStay(k, x) \/ ListSelect(k, x) \/ NameTheList(k, x) \/ ListNew(k, x) \/ ListQuit(k, x)
    \/ AskInVain(x)
    \/ \E m \in screen.seq \ {k} : \E y \in {Find(x, m)} : ListTandem(k, m, y)
    \/ \E m \in stored : \E y \in {Get(Past(x, k), m)} : ListBrowse(m, y)

Next ==
    /\ cache.dead = "alive" /\ Room
    /\ \/ At({"menu"}) /\ MenuCommand
       \/ \E seen \in stored :
            \/ At(One) /\ \E x \in {Shown(seen)} : \E y \in {Unsaved(x)} : OneCommand(x, y)
            \/ At(Two) /\ \E x \in {Shown(seen)} : TwoCommand(x)
       \/ At({"list"}) /\ \E k \in screen.seq, seen \in stored \cup screen.seq :
                              \E x \in {Line(k, seen)} : ListCommand(k, x)

Spec == Init /\ [][Next]_vars

-----------------------------------------------------------------------------

Alive == cache.dead = "alive"
Holders(r) == {x \in {"one", "two", "save"} : screen[x] = r /\ ~(x = "two" /\ screen.shared)}
Bit(b) == IF b THEN 1 ELSE 0

(* Each record object is counted exactly the references to it that its       *)
(* element, the screen and the forgotten ones make, through every chain of   *)
(* screens that hand records on: none is freed while a screen shows it, and  *)
(* none is kept but for what the code forgets.  Only editing the current     *)
(* record after another was added breaks this (EditToRefer).                 *)
HandlesExact ==
    Alive /\ ~robbed =>
        /\ ElementsPlaced(cache) /\ TableExact(cache) /\ RecordsLinked(cache)
        /\ \A e \in El : cache.lock[e] = 0
        /\ \A r \in Rec :
             cache.refs[r] = Cardinality({e \in El : cache.crec[e] = r}) + Cardinality(Holders(r))
                               + Bit(r \in leaked)

Fits(code, r) ==
    IF code \in {"indi", "tandem"} THEN KeyOf(r) \in Persons
    ELSE IF code \in {"fam", "2fam"} THEN KeyOf(r) \in Families ELSE KeyOf(r) \in Others

(* A screen shows records of its type that are in the database and alive,    *)
(* one or two as it asserts at its beginning, whatever chain of commands,    *)
(* merges and lists led to it, and no list has a person who was deleted: so  *)
(* no ASSERT fails and nothing is used that was freed, but where EditToRefer *)
(* or Stray went before, or where a list that has or had a name is used that *)
(* has the key of a deleted family, source, event or other record, or that   *)
(* has lost its last line.                                                   *)
Gone(keys) == keys \ stored
Useless(keys) == keys = {} \/ Gone(keys) # {}

ScreensFit ==
    /\ ~Alive => \/ strayed /\ cache.dead = "assert"
                 \/ cache.dead = "missing" /\ \E keys \in lists \cup {screen.seq} : Useless(keys)
    /\ \A keys \in lists : Gone(keys) \cap Persons = {}
    /\ Alive /\ ~strayed /\ ~robbed =>
         /\ Gone(screen.seq) \cap Persons = {}
         /\ screen.at \in One \cup Two <=> screen.one # NoRec
         /\ screen.at \in Two <=> screen.two # NoRec
         /\ screen.one # NoRec => Fits(screen.at, screen.one)
         /\ screen.two # NoRec => Fits(screen.at, screen.two)
         /\ \A r \in {screen.one, screen.two} \ {NoRec} : cache.refs[r] > 0 /\ KeyOf(r) \in stored
=============================================================================
