-------------------------------- MODULE Report --------------------------------
(***************************************************************************)
(* The interpreter of report programs (interp/interp.c) over the cache of  *)
(* records, and between two reports the commands that add and delete a     *)
(* record.                                                                 *)
(*                                                                         *)
(* A report is any nesting of the statements below: the body of a loop is  *)
(* whatever statements the model chooses, its items any records that the   *)
(* database has.  stack has one frame for each function interp_xxx that is *)
(* running; irc is what the last call of interpret returned to the top     *)
(* frame, or "run" while it executes the statements of the body, or "next" *)
(* when the function looks for the next item of its loop.                  *)
(***************************************************************************)
EXTENDS RecordCache, FiniteSets, Functions

CONSTANTS FreeOrder,  \* the free lists as create_cache leaves them
          Initial,    \* the keys in the database at first
          Edited,     \* the records that commands add and delete
          Used,       \* the kinds of statement that reports use
          Nested,     \* those of them that they use inside a loop too
          MaxDepth,   \* bounds the nesting of statements
          MaxLost,    \* bounds the references that a report lets go of
          MaxRpt      \* bounds the locks that a report holds

VARIABLES cache,      \* the caches and record objects
          stored,     \* the keys that the database has
          stack, irc,
          loose,      \* references of values that no variable holds any more
          leaked,     \* references that nothing will release
          jump        \* the jump that is under way, and the depth where it should end

vars == <<cache, stored, stack, irc, loose, leaked, jump>>

-----------------------------------------------------------------------------
(* What the functions interp_xxx differ in.                                  *)
(*   outer   type of the record that the loop is about, locked for all of it *)
(*   reads   the records that the function or its macro reads for an item    *)
(*   always  those that every item has                                       *)
(*   other   the type of an item that is not a person or a family            *)
(*   macro   the one that the macro of the loop takes a reference to         *)
(*   spare   the one that a value is made for which no variable gets         *)
(*   needs   an item without this one is passed over                         *)
(*   locals  the ones put into loop variables, locked for the body if locks  *)
(*   tree, node   walks a tree that it does not lock, with a node variable   *)
(*   leave   what the function returns when the body returned a jump         *)

None == "none"
Jumps == {"break", "continue", "return", "error"}
Roles == {"fam", "indi", "wife", "other"}   \* a husband has the role indi

Plain == [outer |-> None, reads |-> {}, always |-> {}, other |-> None, macro |-> None,
          spare |-> None, needs |-> None, locals |-> {}, locks |-> TRUE,
          tree |-> FALSE, node |-> FALSE, leave |-> [j \in Jumps |-> j]]
Over(role, type) ==
    [Plain EXCEPT !.reads = {role}, !.always = {role}, !.locals = {role}, !.other = type]

InterpChildren == [Over("indi", None) EXCEPT !.outer = "FAM", !.macro = "indi"]
InterpFamilySpouses == [Over("indi", None) EXCEPT !.outer = "FAM"]
InterpSpouses ==
    [Plain EXCEPT !.outer = "INDI", !.reads = {"fam", "indi"}, !.always = {"fam", "indi"},
                  !.locals = {"fam", "indi"}]
InterpFamilies ==
    [Plain EXCEPT !.outer = "INDI", !.reads = {"fam", "indi"}, !.always = {"fam"},
                  !.macro = "fam", !.locals = {"fam", "indi"}]
ParentFamilies ==
    [Plain EXCEPT !.outer = "INDI", !.reads = {"fam", "indi", "wife"}, !.always = {"fam"},
                  !.macro = "fam"]
InterpFathers ==
    [ParentFamilies EXCEPT !.locals = {"fam", "indi"}, !.spare = "indi", !.needs = "indi"]
InterpMothers ==
    [ParentFamilies EXCEPT !.locals = {"fam", "wife"}, !.spare = "wife", !.needs = "wife"]
InterpParents ==
    [ParentFamilies EXCEPT !.locals = {"fam"}, !.leave = [j \in Jumps |-> "okay"]]
InterpForNotes == [Plain EXCEPT !.tree = TRUE]
InterpForNodes == [Plain EXCEPT !.tree = TRUE, !.node = TRUE]
InterpTraverse == [InterpForNodes EXCEPT !.leave["break"] = "okay"]
InterpForIndi == Over("indi", None)
InterpForSour == Over("other", "SOUR")
InterpForEven == Over("other", "EVEN")
InterpForOthr == Over("other", "OTHR")
InterpForFam  == Over("fam", None)
InterpIndiSetLoop == [Over("indi", None) EXCEPT !.locks = FALSE]
InterpForList == Plain
InterpWhile == Plain
InterpIf == Plain
InterpCall == [Plain EXCEPT !.leave = [j \in Jumps |-> IF j = "return" THEN "okay" ELSE "error"]]

Shape ==
    [children |-> InterpChildren, familyspouses |-> InterpFamilySpouses,
     spouses |-> InterpSpouses, families |-> InterpFamilies, fathers |-> InterpFathers,
     mothers |-> InterpMothers, parents |-> InterpParents, fornotes |-> InterpForNotes,
     fornodes |-> InterpForNodes, traverse |-> InterpTraverse, forindi |-> InterpForIndi,
     forsour |-> InterpForSour, foreven |-> InterpForEven, forothr |-> InterpForOthr,
     forfam |-> InterpForFam, forindiset |-> InterpIndiSetLoop, forlist |-> InterpForList,
     while |-> InterpWhile, if |-> InterpIf, call |-> InterpCall, main |-> InterpCall]
Kind == DOMAIN Shape
Once == {"if", "call", "main"}          \* these run their body one time
Procs == {"call", "main"}

ASSUME ReportAssumption ==
    /\ Initial \subseteq Key /\ Edited \subseteq Key /\ Used \subseteq Kind \ {"main"} /\ Nested \subseteq Used
    /\ MaxDepth \in Nat /\ MaxLost \in Nat /\ MaxRpt \in Nat

(* create_cache puts each element once on the free list of its cache.        *)
ASSUME FreeOrderAssumption ==
    /\ FreeOrder \in [Type -> Seq(El)]
    /\ \A t \in Type :
          /\ \A i, j \in 1..Len(FreeOrder[t]) : FreeOrder[t][i] = FreeOrder[t][j] => i = j
          /\ Members(FreeOrder[t]) = {e \in El : Cache[e] = t}

(* It makes every cache with one element at least.                           *)
ASSUME RoomAssumption == \A k \in Key : \E e \in El : Cache[e] = TypeOf[k]

-----------------------------------------------------------------------------
(* Frames. *)

NoVars == [x \in Roles |-> NoRec]

Frame ==
    [kind : Kind,
     root : El \cup {NoEl},     \* element of the record that the loop is about
     alive : BOOLEAN,           \* its tree has not been freed since
     inner : SUBSET El,         \* elements locked while the body runs
     vars : [Roles -> Rec \cup {NoRec}], macro : Rec \cup {NoRec}]

NewFrame(kind, root) ==
    [kind |-> kind, root |-> root, alive |-> TRUE, inner |-> {}, vars |-> NoVars, macro |-> NoRec]

Depth == Len(stack)
Top == stack[Depth]
Sh == Shape[Top.kind]
Below == SubSeq(stack, 1, Depth - 1)
SetTop(f) == [stack EXCEPT ![Depth] = f]

Idle == stack = <<>> /\ cache.dead = "alive"
Running == stack # <<>> /\ cache.dead = "alive"
At(where) == Running /\ irc = where

Add(a, b) == a + b
Lost == FoldFunction(Add, 0, loose) + FoldFunction(Add, 0, leaked)
          + Cardinality({i \in 1..Depth : Shape[stack[i].kind].macro # None})

(* A step of the program leaves caches d and stack st; the trees it freed    *)
(* are gone for whoever walks them.  If it died nothing else matters.        *)
Commit(d, st, result) ==
    /\ d.dead # "memory"      \* MaxObject bounds the record objects
    /\ cache' = [d EXCEPT !.gone = {}]
    /\ stack' = IF d.dead # "alive" THEN stack
                ELSE [i \in 1..Len(st) |->
                        [st[i] EXCEPT !.alive = @ /\ st[i].root \notin d.gone]]
    /\ irc' = IF d.dead # "alive" THEN irc ELSE result

-----------------------------------------------------------------------------
(* Reading the records of an item. *)

RoleType(role, sh) ==
    CASE role = "fam" -> "FAM" [] role \in {"indi", "wife"} -> "INDI" [] OTHER -> sh.other

Choice(role, sh) ==
    {k \in stored : role \in sh.reads /\ TypeOf[k] = RoleType(role, sh)}
        \cup (IF role \in sh.always THEN {} ELSE {NoKey})

Load(c, k, ref) ==
    IF k = NoKey \/ c.dead # "alive" THEN c
    ELSE IF ref THEN KeyToRecord(c, k) ELSE KeyToCacheel(c, k)

ReadItem(c, it, sh) ==
    Load(Load(Load(Load(c, it.fam, sh.macro = "fam"), it.indi, sh.macro = "indi"),
              it.wife, FALSE), it.other, FALSE)

(* The value of a loop variable is made from the tree that was read, which   *)
(* reading another record of the item may have freed.                        *)
MakeValue(c, it, role, sh) ==
    LET k == it[role] IN
    IF role \notin sh.locals \/ k = NoKey \/ c.dead # "alive" THEN c
    ELSE IF c.table[k] = NoEl THEN Die(c, "dangling")
    ELSE IF sh.spare = role THEN AddRef(KeyToRecord(c, k), RecordOf(c, k))
    ELSE KeyToRecord(c, k)

MakeValues(c, it, sh) ==
    MakeValue(MakeValue(MakeValue(MakeValue(c, it, "fam", sh), it, "indi", sh),
                        it, "wife", sh), it, "other", sh)

ReleaseIf(c, r) == IF r = NoRec THEN c ELSE Release(c, r)
ReleaseVars(c, v) ==
    ReleaseIf(ReleaseIf(ReleaseIf(ReleaseIf(c, v.fam), v.indi), v.wife), v.other)

LockAll(c, S) == [c EXCEPT !.lock = [e \in El |-> IF e \in S THEN @[e] + 1 ELSE @[e]]]
UnlockAll(c, S) ==
    IF \E e \in S : c.lock[e] = 0 \/ c.key[e] = NoKey THEN Die(c, "assert")
    ELSE [c EXCEPT !.lock = [e \in El |-> IF e \in S THEN @[e] - 1 ELSE @[e]]]

LocalElements(c, it, sh) ==
    IF sh.locks THEN {c.table[it[x]] : x \in {y \in sh.locals : it[y] # NoKey}} ELSE {}
LocalRecords(c, it, sh) ==
    [x \in Roles |-> IF x \in sh.locals /\ it[x] # NoKey THEN RecordOf(c, it[x]) ELSE NoRec]

-----------------------------------------------------------------------------
(* Statements of the body of the top frame. *)

NoJump == [how |-> None, to |-> MaxDepth]

ResumeMutant(kind, x) == IF x \in {"okay", "break"} THEN "run" ELSE x
(* The outcome of interpret() for the caller of a function that returned x.  *)
Resume(kind, x) == IF x = "okay" \/ (x = "break" /\ kind # "if") THEN "run" ELSE x

Start ==          \* interp_program
    /\ Idle
    /\ Commit(cache, <<NewFrame("main", NoEl)>>, "run")
    /\ UNCHANGED <<stored, loose, leaked, jump>>

(* A function interp_xxx is called: it evaluates its argument, and locks the *)
(* record unless it walks a tree of nodes.                                   *)
Enter(kind) ==
    LET sh == Shape[kind] IN
    /\ At("run") /\ Depth < MaxDepth /\ (Depth > 1 => kind \in Nested)
    /\ sh.macro # None => Lost < MaxLost
    /\ IF sh.outer = None /\ ~sh.tree
       THEN Commit(cache, Append(stack, NewFrame(kind, NoEl)),
                   IF kind \in Once THEN "run" ELSE "next")
       ELSE \E k \in stored :
              LET d == KeyToCacheel(cache, k)
                  e == d.table[k]
              IN /\ sh.tree \/ TypeOf[k] = sh.outer
                 /\ Commit(IF sh.tree \/ d.dead # "alive" THEN d ELSE LockCache(d, e),
                           Append(stack, NewFrame(kind, e)), "next")
    /\ UNCHANGED <<stored, loose, leaked, jump>>

(* A built-in function reads a record. *)
Touch(k) ==
    /\ At("run")
    /\ Commit(KeyToCacheel(cache, k), stack, "run")
    /\ UNCHANGED <<stored, loose, leaked, jump>>

(* A record in a loop variable is used. *)
UseVar(r) ==
    /\ At("run")
    /\ Commit(Nztop(cache, r, stored), stack, "run")
    /\ UNCHANGED <<stored, loose, leaked, jump>>

(* lock() and unlock() of a report *)
LlrptLock(k) ==
    LET d == KeyToCacheel(cache, k) IN
    /\ At("run")
    /\ FoldFunction(Add, 0, cache.rpt) < MaxRpt
    /\ Commit(IF d.dead # "alive" THEN d ELSE LockRpt(d, d.table[k]), stack, "run")
    /\ UNCHANGED <<stored, loose, leaked, jump>>

LlrptUnlock(k) ==
    LET d == KeyToCacheel(cache, k) IN
    /\ At("run")
    /\ Commit(IF d.dead # "alive" THEN d ELSE UnlockRpt(d, d.table[k]), stack, "run")
    /\ UNCHANGED <<stored, loose, leaked, jump>>

(* interpret() comes to the end of the statements of the body. *)
EndOfBody ==
    /\ At("run")
    /\ irc' = "okay"
    /\ UNCHANGED <<cache, stored, stack, loose, leaked, jump>>

(* The depth of the loop, or of the procedure, that the statement is in. *)
InnermostOf(kinds) ==
    LET at == {i \in 1..Depth : stack[i].kind \in kinds}
    IN IF at = {} THEN 0 ELSE CHOOSE i \in at : \A j \in at : j <= i
Loop == IF InnermostOf(Kind \ Once) > InnermostOf(Procs) THEN InnermostOf(Kind \ Once) ELSE 0

(* Where the statements of the report should go on after each jump. *)
Target(how) ==
    CASE how = "break" -> IF Loop = 0 THEN 0 ELSE Loop - 1
      [] how = "continue" -> Loop
      [] how = "return" -> InnermostOf(Procs) - 1
      [] how = "error" -> 0

Jump(how) ==
    /\ At("run")
    /\ irc' = how
    /\ jump' = [how |-> how, to |-> Target(how)]
    /\ UNCHANGED <<cache, stored, stack, loose, leaked>>

-----------------------------------------------------------------------------
(* Going through the items of a loop. *)

WalkTree == Sh.tree /\ ~Top.alive   \* the walk goes on in a tree that was freed

(* Some item that the function does not pass over: its records are read, put *)
(* into the loop variables instead of the ones of the last item, and locked. *)
NextItem ==
    /\ At("next")
    /\ \E f \in Choice("fam", Sh), i \in Choice("indi", Sh),
          w \in Choice("wife", Sh), o \in Choice("other", Sh) :
         LET it == [fam |-> f, indi |-> i, wife |-> w, other |-> o]
             c == ReadItem(cache, it, Sh)
             macro == IF Sh.macro # None THEN RecordOf(c, it[Sh.macro]) ELSE NoRec
             made == MakeValues(c, it, Sh)
             new == LocalRecords(made, it, Sh)
             els == LocalElements(made, it, Sh)
             d == IF WalkTree THEN Die(cache, "dangling")
                  ELSE IF made.dead # "alive" THEN made
                  ELSE LockAll(ReleaseVars(made, Top.vars), els)
             f2 == [Top EXCEPT !.inner = els, !.vars = new, !.macro = macro]
         IN /\ Sh.needs # None => it[Sh.needs] # NoKey
            /\ Sh.spare # None => FoldFunction(Add, 0, loose) < MaxLost
            /\ Commit(d, SetTop(f2), "run")
            /\ loose' = IF d.dead = "alive" /\ Sh.spare # None
                        THEN [loose EXCEPT ![new[Sh.spare]] = @ + 1] ELSE loose
    /\ UNCHANGED <<stored, leaked, jump>>

(* An item without the parent that the loop is about: its records are read,  *)
(* the body does not run.                                                    *)
PassOver ==
    /\ At("next") /\ Sh.needs # None
    /\ \E f \in Choice("fam", Sh), i \in Choice("indi", Sh), w \in Choice("wife", Sh) :
         LET it == [fam |-> f, indi |-> i, wife |-> w, other |-> NoKey]
             c == ReadItem(cache, it, Sh)
         IN /\ it[Sh.needs] = NoKey
            /\ Commit(IF c.dead # "alive" THEN c ELSE Release(c, RecordOf(c, f)), stack, "next")
    /\ UNCHANGED <<stored, loose, leaked, jump>>

LeavingMutant(c, x) ==
    /\ Commit(ReleaseVars(c, Top.vars), Below, Resume(Top.kind, x))
    /\ jump' = IF irc' = "run" THEN NoJump ELSE jump
(* The function returns x: its variables go, its record is unlocked. *)
Leaving(c, x) ==
    LET d == ReleaseVars(c, Top.vars)
        e == IF Sh.outer = None \/ d.dead # "alive" THEN d ELSE UnlockAll(d, {Top.root})
    IN /\ Commit(e, Below, Resume(Top.kind, x))
       /\ jump' = IF irc' = "run" THEN NoJump ELSE jump

LoopEnd ==
    /\ At("next")
    /\ Leaving(IF WalkTree THEN Die(cache, "dangling") ELSE cache, "okay")
    /\ UNCHANGED <<stored, loose, leaked>>

(* The body of a loop was interpreted to its end, or to continue. *)
BodyDone ==
    /\ Running /\ irc \in {"okay", "continue"} /\ Top.kind \notin Once
    /\ Commit(ReleaseIf(UnlockAll(cache, Top.inner), Top.macro),
              SetTop([Top EXCEPT !.inner = {}, !.macro = NoRec]), "next")
    /\ jump' = NoJump
    /\ UNCHANGED <<stored, loose, leaked>>

(* The body returned a jump, and the function leaves its loop: the reference *)
(* of the macro is not released.                                             *)
LeaveLoop ==
    /\ Running /\ irc \in Jumps \ {"continue"} /\ Top.kind \notin Once
    /\ Leaving(IF Sh.node /\ ~Top.alive THEN Die(cache, "dangling")
               ELSE UnlockAll(cache, Top.inner), Sh.leave[irc])
    /\ leaked' = IF cache'.dead = "alive" /\ Top.macro # NoRec
                 THEN [leaked EXCEPT ![Top.macro] = @ + 1] ELSE leaked
    /\ UNCHANGED <<stored, loose>>

(* interp_if and interp_call return. *)
LeaveOnce ==
    /\ Running /\ irc \in Jumps \cup {"okay"} /\ Top.kind \in Once \ {"main"}
    /\ Leaving(cache, IF irc = "okay" THEN irc ELSE Sh.leave[irc])
    /\ UNCHANGED <<stored, loose, leaked>>

(* The report is over: finishinterp takes back its locks, pvalues_end the    *)
(* values that it let go of.                                                 *)
ReleaseLoose(c) ==
    LET rest == [r \in Rec |-> IF c.refs[r] >= loose[r] THEN c.refs[r] - loose[r] ELSE 0]
        ends == {r \in Rec : c.refs[r] > 0 /\ rest[r] = 0}
    IN [c EXCEPT !.refs = rest,
                 !.crec = [e \in El |-> IF @[e] \in ends THEN NoRec ELSE @[e]],
                 !.rcel = [r \in Rec |-> IF r \in ends THEN NoEl ELSE @[r]]]

FinishReport ==
    /\ Running /\ irc \in Jumps \cup {"okay"} /\ Top.kind = "main"
    /\ Commit(FreeAllRptLocks(ReleaseLoose(cache)), <<>>, "run")
    /\ loose' = [r \in Rec |-> 0]
    /\ jump' = NoJump
    /\ UNCHANGED <<stored, leaked>>

-----------------------------------------------------------------------------
(* Between reports. *)

Init ==
    /\ cache = EmptyCaches(FreeOrder) /\ stored = Initial
    /\ stack = <<>> /\ irc = "run"
    /\ loose = [r \in Rec |-> 0] /\ leaked = [r \in Rec |-> 0]
    /\ jump = NoJump

AddRecord(k) ==
    /\ Idle /\ k \notin stored
    /\ Commit(AddNew(cache, k), stack, irc)
    /\ stored' = stored \cup {k}
    /\ UNCHANGED <<loose, leaked, jump>>

(* The record is read to be shown before it is deleted. *)
DeleteRecord(k) ==
    LET c == KeyToCacheel(cache, k) IN
    /\ Idle /\ k \in stored
    /\ Commit(IF c.dead # "alive" THEN c ELSE RemoveFromCache(c, k), stack, irc)
    /\ stored' = stored \ {k}
    /\ UNCHANGED <<loose, leaked, jump>>

(* The program died, and is started again. *)
Restart ==
    /\ cache.dead # "alive"
    /\ cache' = EmptyCaches(FreeOrder)
    /\ stack' = <<>> /\ irc' = "run"
    /\ loose' = [r \in Rec |-> 0] /\ leaked' = [r \in Rec |-> 0]
    /\ jump' = NoJump
    /\ UNCHANGED stored

Statement ==
    \/ \E kind \in Used : Enter(kind)
    \/ \E k \in stored : Touch(k) \/ LlrptLock(k) \/ LlrptUnlock(k)
    \/ \E i \in 1..Depth, x \in Roles : stack[i].vars[x] # NoRec /\ UseVar(stack[i].vars[x])
    \/ EndOfBody
    \/ \E how \in Jumps : Jump(how)

Next ==
    \/ Start \/ Statement
    \/ NextItem \/ PassOver \/ LoopEnd \/ BodyDone \/ LeaveLoop \/ LeaveOnce \/ FinishReport
    \/ \E k \in Edited : AddRecord(k) \/ DeleteRecord(k)
    \/ Restart

Spec == Init /\ [][Next]_vars

-----------------------------------------------------------------------------
(* Properties. *)

(* The variables have the values that the C types and the functions of the   *)
(* interpreter allow.                                                        *)
TypeOK ==
    /\ cache \in CacheType /\ stored \subseteq Key
    /\ stack \in Seq(Frame) /\ irc \in Jumps \cup {"run", "next", "okay"}
    /\ loose \in [Rec -> Nat] /\ leaked \in [Rec -> Nat]
    /\ jump \in [how : Jumps \cup {None}, to : Nat]

Alive == cache.dead = "alive"

Holders(e) == {i \in 1..Depth : Shape[stack[i].kind].outer # None /\ stack[i].root = e}
Inner(e) == {i \in 1..Depth : e \in stack[i].inner}

(* A loop unlocks what it locked, whichever way it is left: the count of an  *)
(* element is what the running loops and the lock statements hold, never     *)
(* more (it could not be removed any more) nor less (it would be removed     *)
(* under a loop that walks its tree).  Between reports no element is locked, *)
(* so that no later command can fail on it, except events:                   *)
(* free_all_rprtlocks leaves out their cache.                                *)
LocksAccounted ==
    Alive => \A e \in El :
        /\ cache.lock[e] = Cardinality(Holders(e)) + Cardinality(Inner(e)) + cache.rpt[e]
        /\ Idle /\ cache.lock[e] > 0 => Cache[e] = "EVEN"

VarsOn(r) == {p \in (1..Depth) \X Roles : stack[p[1]].vars[p[2]] = r}

(* The count of references of a record object is exactly the references that *)
(* there are: of its element, of loop variables and macros, of values let go *)
(* and of the references that a jump out of a macro loses for good.  None is *)
(* freed while somebody points to it.                                        *)
RefsExact ==
    Alive => \A r \in Rec :
        cache.refs[r] = Cardinality({e \in El : cache.crec[e] = r})
                          + Cardinality(VarsOn(r))
                          + Cardinality({i \in 1..Depth : stack[i].macro = r})
                          + loose[r] + leaked[r]

(* Using a loop variable, however many records were read since it was   *)
(* set, finds the tree of its own record: an element that was given to       *)
(* another record in the meantime is told by its key.                        *)
UseFinds ==
    Alive => \A i \in 1..Depth, x \in Roles :
        stack[i].vars[x] # NoRec =>
            LET d == Nztop(cache, stack[i].vars[x], stored)
            IN d.dead = "alive" => d.key[d.rcel[stack[i].vars[x]]] = KeyOf(stack[i].vars[x])

(* The lists, the table, the elements and the record objects of every cache  *)
(* agree, whatever a report did and however it was left; and a use finds the *)
(* record that was meant.                                                    *)
CacheConsistent ==
    /\ TypeOK /\ UseFinds
    /\ Alive => ElementsPlaced(cache) /\ TableExact(cache) /\ RecordsLinked(cache)

(* What loops and macros hold is given back on every way out.                *)
HoldsExact == LocksAccounted /\ RefsExact

Lands == Running /\ irc \in Jumps /\ irc' \in {"run", "next"}

(* After break, continue, return or an error the report goes on with the     *)
(* loop or the procedure that the jump leaves, through any nesting of loops, *)
(* conditions and calls; only a loop over parents swallows all of them.      *)
JumpReaches ==
    [][Lands => Len(stack') = jump.to \/ Top.kind = "parents"]_vars

TreeWalk == \E i \in 1..Depth : Shape[stack[i].kind].tree /\ ~stack[i].alive
LockedOf(t) == {e \in El : Cache[e] = t /\ cache.lock[e] > 0}

(* What can end the program: between reports only an event that a report     *)
(* left locked; in a report a cache filled by its own locks, the unlocking   *)
(* of a record it has no lock on, the walk over a tree that was freed, or    *)
(* two parents that do not fit the cache of persons together.  Never a       *)
(* record object that lost its element, or an element its record.            *)
DiesOnlyOf ==
    /\ cache.dead \notin {"assert", "missing"}
    /\ stack = <<>> /\ ~Alive => cache.dead \in {"full", "locked"} /\ LockedOf("EVEN") # {}
    /\ cache.dead = "locked" => stack = <<>>
    /\ cache.dead = "dangling" =>
          TreeWalk \/ Cardinality({e \in El : Cache[e] = "INDI"} \ LockedOf("INDI")) < 2

(* The tree of a locked element stays where it is until it is unlocked, so   *)
(* that a loop may keep pointers into it while its body reads other records. *)
LockedStay ==
    [][ \A e \in El : cache.lock[e] > 0 /\ Alive =>
          \/ cache'.key[e] = cache.key[e]
          \/ cache.key[e] = NoKey ]_cache
=============================================================================
