----------------------------- MODULE DbOpen_proof -----------------------------
(***************************************************************************)
(* Who may have a database open at the same time, for any number of        *)
(* programs.  The word in the key file protects a database as long as      *)
(* every program that writes it had seen the value it overwrites, and      *)
(* nobody forced it.  The invariant relates the word to the programs that  *)
(* have the database open, and what each program saw to where it is.       *)
(***************************************************************************)
EXTENDS DbOpen, FiniteSetTheorems, TLAPS

(* What a program has seen of the word, by what it is about to do with it.   *)
SeenFits ==
    \A p \in Procs :
       /\ st[p] = "create" => seen[p] = NoFile
       /\ st[p] = "createkey" => seen[p] = EmptyFile
       /\ st[p] = "unlock" => seen[p] = Locked
       /\ st[p] = "lock" => seen[p] = 0
       /\ st[p] = "read" => seen[p] >= 0
       /\ st[p] = "unmark" => seen[p] > 0

ModeFits ==
    \A p \in Procs :
       /\ mode[p] # "none" => st[p] \in {"marked", "open", "refused", "unmark"}
       /\ st[p] = "unmark" => mode[p] = "reader"

Count == IF key > 0 THEN key ELSE 0

WriterMarked == \A p \in Writers : key = Writing /\ Writers = {p} /\ Readers = {}

Counted == Cardinality(Readers) <= Count

Guarded == ~raced /\ ~forced => WriterMarked /\ Counted

Inv == TypeOK /\ SeenFits /\ ModeFits /\ Guarded

-----------------------------------------------------------------------------
LEMMA ReadersFinite == IsFiniteSet(Readers) /\ Cardinality(Readers) \in Nat
<1>1. Readers \subseteq Procs
  BY DEF Readers
<1> QED  BY <1>1, ProcsAssumption, FS_Subset, FS_CardinalityType

LEMMA InitHolds == Init => Inv
<1> SUFFICES ASSUME Init PROVE Inv
  OBVIOUS
<1>1. TypeOK
  <2>1. 0 \in Locked..MaxCount
    BY MaxCountAssumption DEF Locked
  <2>2. key \in {NoFile} /\ master = FALSE /\ raced = FALSE /\ forced = FALSE /\ lost = FALSE
    BY DEF Init
  <2>3. /\ st \in [Procs -> {"out"}] /\ seen \in [Procs -> {0}]
        /\ writ \in [Procs -> {0}] /\ mode \in [Procs -> {"none"}]
    BY DEF Init
  <2>4. /\ st \in [Procs -> {"out", "create", "createkey", "createmaster", "unlock", "lock",
                          "force", "read", "marked", "open", "refused", "unmark"}]
        /\ mode \in [Procs -> {"none", "writer", "reader", "immutable"}]
    BY <2>3
  <2>5. seen \in [Procs -> (Locked..MaxCount) \cup {NoFile, EmptyFile}] /\ writ \in [Procs -> 0..2]
    BY <2>1, <2>3
  <2> QED  BY <2>2, <2>4, <2>5, Zenon DEF TypeOK
<1>2. SeenFits /\ ModeFits
  BY DEF Init, SeenFits, ModeFits
<1>3. Readers = {} /\ Writers = {}
  BY DEF Init, Readers, Writers
<1>4. Guarded
  BY <1>3, FS_EmptySet DEF Guarded, WriterMarked, Counted, Count, Init, NoFile
<1> QED  BY <1>1, <1>2, <1>4 DEF Inv

(* The types are kept by every step.                                         *)
LEMMA TypesKept == ASSUME Inv, [Next]_vars PROVE TypeOK'
<1> USE MaxCountAssumption DEF Inv, TypeOK, Locked, Writing, NoFile, EmptyFile, Go, Leave, WriteKey
<1>1. ASSUME NEW p \in Procs, Create(p) PROVE TypeOK'
  <2>1. CASE CreateStat(p)
    BY <2>1 DEF CreateStat
  <2>2. CASE CreateFiles(p)
    BY <2>2 DEF CreateFiles
  <2>3. CASE CreateKey(p)
    BY <2>3 DEF CreateKey
  <2>4. CASE CreateMaster(p)
    BY <2>4 DEF CreateMaster
  <2> QED  BY <1>1, <2>1, <2>2, <2>3, <2>4 DEF Create
<1>2. ASSUME NEW p \in Procs, Alter(p) PROVE TypeOK'
  <2>1. ASSUME NEW to \in {"unlock", "lock", "force"}, AlterRead(p, to) PROVE TypeOK'
    BY <2>1 DEF AlterRead
  <2>2. CASE AlterWrite(p)
    BY <2>2 DEF AlterWrite
  <2> QED  BY <1>2, <2>1, <2>2 DEF Alter
<1>3. ASSUME NEW p \in Procs, Open(p) PROVE TypeOK'
  <2>1. ASSUME NEW w \in 0..2, NEW immut \in BOOLEAN,
               OpenImmutable(p, w, immut) \/ OpenRead(p, w, immut)
        PROVE  TypeOK'
    BY <2>1 DEF OpenImmutable, OpenRead
  <2>2. CASE OpenMark(p)
    <3>1. st[p] = "read" /\ seen[p] >= 0 /\ seen[p] \in Int
      BY <2>2 DEF OpenMark, SeenFits
    <3>2. Mark(p) \in Locked..MaxCount
      BY <2>2, <3>1 DEF OpenMark, Mark
    <3> HIDE DEF SeenFits, ModeFits, Guarded
    <3>3. key' \in Locked..MaxCount /\ seen' = [seen EXCEPT ![p] = Mark(p)]
      BY <2>2, <3>2 DEF OpenMark
    <3>4. raced' \in BOOLEAN
      BY <2>2 DEF OpenMark
    <3>5. /\ st' \in [Procs -> {"out", "create", "createkey", "createmaster", "unlock", "lock",
                          "force", "read", "marked", "open", "refused", "unmark"}]
          /\ mode' \in [Procs -> {"none", "writer", "reader", "immutable"}]
      BY <2>2 DEF OpenMark
    <3> QED  BY <2>2, <3>2, <3>3, <3>4, <3>5 DEF OpenMark
  <2>3. CASE OpenFinish(p)
    BY <2>3 DEF OpenFinish
  <2>4. CASE OpenFail(p)
    <3>1. lost' \in BOOLEAN
      BY <2>4, Zenon DEF OpenFail
    <3> QED  BY <2>4, <3>1 DEF OpenFail
  <2> QED  BY <1>3, <2>1, <2>2, <2>3, <2>4 DEF Open
<1>4. ASSUME NEW p \in Procs, Close(p) PROVE TypeOK'
  <2>1. CASE CloseWriter(p)
    BY <2>1 DEF CloseWriter
  <2>2. CASE CloseImmutable(p)
    BY <2>2 DEF CloseImmutable
  <2>3. CASE CloseRead(p)
    BY <2>3 DEF CloseRead
  <2>4. CASE CloseReset(p)
    BY <2>4 DEF CloseReset
  <2>5. CASE CloseUnmark(p)
    <3>1. seen[p] - 1 \in Locked..MaxCount
      BY <2>5 DEF CloseUnmark, SeenFits
    <3> QED  BY <2>5, <3>1 DEF CloseUnmark
  <2> QED  BY <1>4, <2>1, <2>2, <2>3, <2>4, <2>5 DEF Close
<1>5. ASSUME NEW p \in Procs, Crash(p) PROVE TypeOK'
  BY <1>5 DEF Crash
<1>6. CASE UNCHANGED vars
  BY <1>6 DEF vars
<1> QED  BY <1>1, <1>2, <1>3, <1>4, <1>5, <1>6 DEF Next

(* So is what each program has seen and got.                                 *)
LEMMA PhasesKept == ASSUME Inv, [Next]_vars PROVE SeenFits' /\ ModeFits'
<1> USE DEF Inv, TypeOK, SeenFits, ModeFits, Go, Leave
<1> HIDE DEF Guarded
<1>1. ASSUME NEW p \in Procs, Create(p) PROVE SeenFits' /\ ModeFits'
  BY <1>1 DEF Create, CreateStat, CreateFiles, CreateKey, CreateMaster
<1>2. ASSUME NEW p \in Procs, Alter(p) PROVE SeenFits' /\ ModeFits'
  <2>1. ASSUME NEW to \in {"unlock", "lock", "force"}, AlterRead(p, to)
        PROVE  SeenFits' /\ ModeFits'
    BY <2>1 DEF AlterRead
  <2>2. CASE AlterWrite(p)
    BY <2>2 DEF AlterWrite
  <2> QED  BY <1>2, <2>1, <2>2 DEF Alter
<1>3. ASSUME NEW p \in Procs, Open(p) PROVE SeenFits' /\ ModeFits'
  <2>1. ASSUME NEW w \in 0..2, NEW immut \in BOOLEAN,
               OpenImmutable(p, w, immut) \/ OpenRead(p, w, immut)
        PROVE  SeenFits' /\ ModeFits'
    BY <2>1 DEF OpenImmutable, OpenRead, Locked, Writing
  <2>2. CASE OpenMark(p) \/ OpenFinish(p) \/ OpenFail(p)
    BY <2>2 DEF OpenMark, OpenFinish, OpenFail
  <2> QED  BY <1>3, <2>1, <2>2 DEF Open
<1>4. ASSUME NEW p \in Procs, Close(p) PROVE SeenFits' /\ ModeFits'
  BY <1>4 DEF Close, CloseWriter, CloseImmutable, CloseRead, CloseReset, CloseUnmark
<1>5. ASSUME NEW p \in Procs, Crash(p) PROVE SeenFits' /\ ModeFits'
  BY <1>5 DEF Crash
<1>6. CASE UNCHANGED vars
  BY <1>6 DEF vars
<1> QED  BY <1>1, <1>2, <1>3, <1>4, <1>5, <1>6 DEF Next

-----------------------------------------------------------------------------
(* Steps after which the same programs, or fewer, have the database open,    *)
(* and the word has not changed or was changed while nobody had it open.     *)
LEMMA FewerOpen ==
    ASSUME key \in Int, key' \in Int, Guarded, ~raced, ~forced,
           Readers' \subseteq Readers, Writers' \subseteq Writers,
           key' = key \/ (Readers' = {} /\ Writers' = {})
    PROVE  Guarded'
<1>1. WriterMarked /\ Counted
  BY DEF Guarded
<1>2. CASE key' = key
  <2>1. WriterMarked'
    BY <1>1, <1>2 DEF WriterMarked
  <2>2. Cardinality(Readers') <= Cardinality(Readers) /\ Cardinality(Readers') \in Nat
    BY ReadersFinite, FS_Subset, FS_CardinalityType
  <2>3. Count' = Count /\ Count \in Int /\ Cardinality(Readers) \in Nat
    BY <1>2, ReadersFinite DEF Count
  <2>4. Cardinality(Readers) <= Count
    BY <1>1 DEF Counted
  <2> DEFINE fewer == Cardinality(Readers')
             all == Cardinality(Readers)
  <2>5. fewer <= Count'
    <3> HIDE DEF fewer, all
    <3>1. fewer \in Nat /\ all \in Nat /\ fewer <= all /\ all <= Count
      BY <2>2, <2>3, <2>4 DEF fewer, all
    <3> QED  BY <2>3, <3>1
  <2> QED  BY <2>1, <2>5 DEF Guarded, Counted
<1>3. CASE Readers' = {} /\ Writers' = {}
  <2>1. WriterMarked'
    BY <1>3 DEF WriterMarked
  <2>2. Cardinality(Readers') = 0
    BY <1>3, FS_EmptySet
  <2> QED  BY <2>1, <2>2 DEF Guarded, Counted, Count
<1> QED  BY <1>2, <1>3

(* What the word says while it is right.                                     *)
LEMMA NobodyOpen ==
    ASSUME Inv, ~raced, ~forced
    PROVE  /\ key # Writing => Writers = {}
           /\ key <= 0 => Readers = {}
<1>1. WriterMarked /\ Counted
  BY DEF Inv, Guarded
<1>2. key # Writing => Writers = {}
  BY <1>1 DEF WriterMarked, Writers
<1>3. ASSUME key <= 0 PROVE Readers = {}
  <2>1. Cardinality(Readers) <= 0
    BY <1>1, <1>3 DEF Counted, Count, Inv, TypeOK, Locked, NoFile, EmptyFile
  <2>2. Cardinality(Readers) = 0
    BY <2>1, ReadersFinite
  <2> QED  BY <2>2, ReadersFinite, FS_EmptySet
<1> QED  BY <1>2, <1>3

(* A program that leaves has the database open no longer.                    *)
LEMMA LeaveCloses ==
    ASSUME TypeOK, NEW p \in Procs, mode' = [mode EXCEPT ![p] = "none"]
    PROVE  Readers' = Readers \ {p} /\ Writers' = Writers \ {p}
BY DEF TypeOK, Readers, Writers

(* An opening is counted, or marked when nobody had the database open.       *)
LEMMA OpenMarkKeeps ==
    ASSUME Inv, NEW p \in Procs, OpenMark(p), ~raced', ~forced'
    PROVE  Guarded'
<1>1. /\ st[p] = "read" /\ key' = Mark(p) /\ raced' = (raced \/ key # seen[p])
      /\ forced' = forced
      /\ mode' = [mode EXCEPT ![p] = IF Mark(p) = Writing THEN "writer" ELSE "reader"]
  BY DEF OpenMark, WriteKey
<1>2. ~raced /\ ~forced /\ key = seen[p]
  BY <1>1
<1>3. key >= 0 /\ key \in Int /\ mode[p] = "none"
  BY <1>1, <1>2 DEF Inv, SeenFits, ModeFits, TypeOK, Locked, NoFile, EmptyFile
<1>4. Writers = {} /\ (key = 0 => Readers = {})
  BY <1>2, <1>3, NobodyOpen DEF Writing
<1>5. CASE Mark(p) = Writing
  <2>1. key = 0
    BY <1>2, <1>3, <1>5 DEF Mark, Writing
  <2>2. Readers' = {} /\ Writers' = {p}
    BY <1>1, <1>4, <1>5, <2>1 DEF Readers, Writers, Inv, TypeOK
  <2>3. WriterMarked'
    BY <1>1, <1>5, <2>2 DEF WriterMarked
  <2>4. Cardinality(Readers') = 0 /\ key' = Writing
    BY <1>1, <1>5, <2>2, FS_EmptySet
  <2>5. Counted'
    BY <2>4 DEF Counted, Count, Writing
  <2> QED  BY <2>3, <2>5 DEF Guarded
<1>6. CASE Mark(p) # Writing
  <2>1. key' = key + 1
    BY <1>1, <1>2, <1>6 DEF Mark
  <2>2. Readers' = Readers \cup {p} /\ Writers' = {}
    BY <1>1, <1>4, <1>6 DEF Readers, Writers, Inv, TypeOK
  <2>3. WriterMarked'
    BY <2>2 DEF WriterMarked
  <2>4. Cardinality(Readers) <= key /\ Cardinality(Readers) \in Nat
    BY <1>2, <1>3, ReadersFinite DEF Inv, Guarded, Counted, Count
  <2>5. p \notin Readers
    BY <1>3 DEF Readers
  <2>6. Cardinality(Readers \cup {p}) = Cardinality(Readers) + 1
    BY <2>5, ReadersFinite, FS_AddElement
  <2>7. Cardinality(Readers') <= key'
    BY <1>3, <2>1, <2>2, <2>4, <2>6
  <2>8. Counted'
    BY <1>3, <2>1, <2>7 DEF Counted, Count
  <2> QED  BY <2>3, <2>8 DEF Guarded
<1> QED  BY <1>5, <1>6

(* A reader that closes counts itself out.                                   *)
LEMMA CloseUnmarkKeeps ==
    ASSUME Inv, NEW p \in Procs, CloseUnmark(p), ~raced', ~forced'
    PROVE  Guarded'
<1>1. /\ st[p] = "unmark" /\ key' = seen[p] - 1 /\ raced' = (raced \/ key # seen[p])
      /\ forced' = forced /\ mode' = [mode EXCEPT ![p] = "none"]
  BY DEF CloseUnmark, WriteKey, Leave
<1>2. ~raced /\ ~forced /\ key = seen[p]
  BY <1>1
<1>3. key > 0 /\ key \in Int /\ mode[p] = "reader"
  BY <1>1, <1>2 DEF Inv, SeenFits, ModeFits, TypeOK, Locked, NoFile, EmptyFile
<1>4. Writers = {}
  BY <1>2, <1>3, NobodyOpen DEF Writing
<1>5. Readers' = Readers \ {p} /\ Writers' = {}
  BY <1>1, <1>4, LeaveCloses DEF Inv
<1>6. p \in Readers
  BY <1>3 DEF Readers
<1>7. Cardinality(Readers \ {p}) = Cardinality(Readers) - 1
  BY <1>6, ReadersFinite, FS_RemoveElement
<1>8. Cardinality(Readers) <= key /\ Cardinality(Readers) \in Nat
  BY <1>2, <1>3, ReadersFinite DEF Inv, Guarded, Counted, Count
<1>9. key' = key - 1
  BY <1>1, <1>2
<1>10. Cardinality(Readers') <= key'
  BY <1>3, <1>5, <1>7, <1>8, <1>9
<1>11. Counted'
  <2>1. Count' = key'
    BY <1>3, <1>9 DEF Count
  <2> QED  BY <1>10, <2>1 DEF Counted
<1>12. WriterMarked'
  BY <1>5 DEF WriterMarked
<1> QED  BY <1>11, <1>12 DEF Guarded

LEMMA GuardedKept ==
    ASSUME Inv, [Next]_vars
    PROVE  Guarded'
<1> SUFFICES ASSUME ~raced', ~forced' PROVE Guarded'
  BY DEF Guarded
<1>1. key \in Int /\ key' \in Int
  BY TypesKept DEF Inv, TypeOK, Locked, NoFile, EmptyFile
<1>2. TypeOK /\ SeenFits /\ ModeFits /\ Guarded
  BY DEF Inv
<1>3. ASSUME ~raced, ~forced, mode' = mode, key' = key \/ (key # Writing /\ key <= 0)
      PROVE  Guarded'
  <2>1. Readers' = Readers /\ Writers' = Writers
    BY <1>3 DEF Readers, Writers
  <2>2. key' = key \/ (Readers' = {} /\ Writers' = {})
    BY <1>3, <2>1, NobodyOpen
  <2> QED  BY <1>1, <1>2, <1>3, <2>1, <2>2, FewerOpen
<1>4. ASSUME ~raced, ~forced, NEW p \in Procs, mode' = [mode EXCEPT ![p] = "none"],
             \/ key' = key
             \/ key # Writing /\ key <= 0
             \/ p \in Writers
      PROVE  Guarded'
  <2>1. Readers' = Readers \ {p} /\ Writers' = Writers \ {p}
    BY <1>2, <1>4, LeaveCloses
  <2>2. key' = key \/ (Readers' = {} /\ Writers' = {})
    BY <1>2, <1>4, <2>1, NobodyOpen DEF Guarded, WriterMarked
  <2> QED  BY <1>1, <1>2, <1>4, <2>1, <2>2, FewerOpen
<1>5. ASSUME NEW p \in Procs, Create(p) PROVE Guarded'
  <2>1. CASE CreateStat(p)
    BY <1>3, <2>1 DEF CreateStat
  <2>2. CASE CreateFiles(p) \/ CreateKey(p)
    <3>1. ~raced /\ key = seen[p] /\ ~forced /\ mode' = mode
      <4>1. /\ raced' = (raced \/ key # seen[p])
            /\ forced' = forced /\ mode' = mode
        BY <2>2 DEF CreateFiles, CreateKey, WriteKey
      <4> QED  BY <4>1
    <3>2. key # Writing /\ key <= 0
      <4>1. st[p] \in {"create", "createkey"}
        BY <2>2 DEF CreateFiles, CreateKey
      <4>2. key \in {NoFile, EmptyFile}
        BY <1>2, <3>1, <4>1 DEF SeenFits
      <4> QED  BY <4>2 DEF NoFile, EmptyFile, Writing
    <3> QED  BY <1>3, <3>1, <3>2
  <2>3. CASE CreateMaster(p)
    BY <1>4, <2>3 DEF CreateMaster, Leave
  <2> QED  BY <1>5, <2>1, <2>2, <2>3 DEF Create
<1>6. ASSUME NEW p \in Procs, Alter(p) PROVE Guarded'
  <2>1. ASSUME NEW to \in {"unlock", "lock", "force"}, AlterRead(p, to) PROVE Guarded'
    BY <1>3, <2>1 DEF AlterRead
  <2>2. CASE AlterWrite(p)
    <3>1. /\ ~raced /\ ~forced /\ key = seen[p] /\ (st[p] = "force" => key = 0)
          /\ st[p] \in {"unlock", "lock", "force"} /\ mode' = [mode EXCEPT ![p] = "none"]
      BY <2>2 DEF AlterWrite, WriteKey, Leave
    <3>2. key # Writing /\ key <= 0
      BY <1>2, <3>1 DEF SeenFits, Locked, Writing
    <3> QED  BY <1>4, <3>1, <3>2
  <2> QED  BY <1>6, <2>1, <2>2 DEF Alter
<1>7. ASSUME NEW p \in Procs, Open(p) PROVE Guarded'
  <2>1. ASSUME NEW w \in 0..2, NEW immut \in BOOLEAN, OpenImmutable(p, w, immut)
        PROVE  Guarded'
    <3>1. ~raced /\ ~forced /\ key' = key /\ mode' = [mode EXCEPT ![p] = "immutable"]
      BY <2>1 DEF OpenImmutable
    <3>2. Readers' \subseteq Readers /\ Writers' \subseteq Writers
      BY <1>2, <3>1 DEF TypeOK, Readers, Writers
    <3> QED  BY <1>1, <1>2, <3>1, <3>2, FewerOpen
  <2>2. ASSUME NEW w \in 0..2, NEW immut \in BOOLEAN, OpenRead(p, w, immut)
        PROVE  Guarded'
    BY <1>3, <2>2 DEF OpenRead
  <2>3. CASE OpenMark(p)
    BY <2>3, OpenMarkKeeps
  <2>4. CASE OpenFinish(p)
    BY <1>3, <2>4 DEF OpenFinish
  <2>5. CASE OpenFail(p)
    BY <1>4, <2>5 DEF OpenFail, Leave
  <2> QED  BY <1>7, <2>1, <2>2, <2>3, <2>4, <2>5 DEF Open
<1>8. ASSUME NEW p \in Procs, Close(p) PROVE Guarded'
  <2>1. CASE CloseWriter(p)
    <3>1. ~raced /\ ~forced /\ mode' = [mode EXCEPT ![p] = "none"] /\ p \in Writers
      BY <2>1 DEF CloseWriter, Leave, Writers
    <3> QED  BY <1>4, <3>1
  <2>2. CASE CloseImmutable(p)
    BY <1>4, <2>2 DEF CloseImmutable, Leave
  <2>3. CASE CloseRead(p)
    BY <1>3, <2>3 DEF CloseRead
  <2>4. CASE CloseReset(p)
    BY <1>4, <2>4 DEF CloseReset, Leave
  <2>5. CASE CloseUnmark(p)
    BY <2>5, CloseUnmarkKeeps
  <2> QED  BY <1>8, <2>1, <2>2, <2>3, <2>4, <2>5 DEF Close
<1>9. ASSUME NEW p \in Procs, Crash(p) PROVE Guarded'
  BY <1>4, <1>9 DEF Crash, Leave
<1>10. CASE UNCHANGED vars
  BY <1>3, <1>10 DEF vars
<1> QED  BY <1>5, <1>6, <1>7, <1>8, <1>9, <1>10 DEF Next

-----------------------------------------------------------------------------
(* The invariant: as long as nobody raced or forced, the word is -1 while a  *)
(* writer is in, and counts at least the readers.                            *)
THEOREM Invariance == Spec => []Inv
<1>1. Init => Inv
  BY InitHolds
<1>2. Inv /\ [Next]_vars => Inv'
  BY TypesKept, PhasesKept, GuardedKept DEF Inv
<1> QED  BY <1>1, <1>2, PTL DEF Spec

(* A program with write access is alone, whatever died and whichever opening *)
(* failed, unless two programs raced on the key file or one forced it.       *)
THEOREM WritersExclude == Spec => []Exclusion
<1>1. Inv => Exclusion
  BY DEF Inv, Guarded, WriterMarked, Exclusion
<1> QED  BY <1>1, Invariance, PTL

(* The word never counts fewer readers than there are.                       *)
THEOREM ReadersAreCounted == Spec => []NeverUndercounted
<1>1. Inv => NeverUndercounted
  BY DEF Inv, Guarded, Counted, Count, NeverUndercounted
<1> QED  BY <1>1, Invariance, PTL

(* While the database is locked nobody writes to it.                         *)
THEOREM LockedIsNotWritten == Spec => []LockExcludesWriters
<1>1. Inv => LockExcludesWriters
  <2> SUFFICES ASSUME Inv, ~raced, ~forced, key = Locked PROVE Writers = {}
    BY DEF LockExcludesWriters
  <2> QED  BY NobodyOpen DEF Locked, Writing
<1> QED  BY <1>1, Invariance, PTL

(* The word of the key file, the phase of every program and what it saw and  *)
(* holds are of their types, whatever the programs do and however they die.  *)
THEOREM TypeCorrect == Spec => []TypeOK
<1>1. Inv => TypeOK
  BY DEF Inv
<1> QED  BY <1>1, Invariance, PTL

(* Only -ln unlocks a database: no opening, closing, creation or crash       *)
(* changes the word from -2, unless a race or -f came before.                *)
THEOREM LockIsKept == Spec => LockRespected
<1>1. ASSUME Inv, [Next]_vars, key = Locked, key' # Locked, ~raced', ~forced'
      PROVE  \E p \in Procs : st[p] = "unlock"
  <2> USE <1>1
  <2>1. PICK p \in Procs : Create(p) \/ Alter(p) \/ Open(p) \/ Close(p) \/ Crash(p)
    BY DEF Next, vars
  <2>2. TypeOK /\ SeenFits /\ ModeFits
    BY DEF Inv
  <2>3. CASE Create(p)
    <3>1. CreateFiles(p) \/ CreateKey(p)
      BY <2>3 DEF Create, CreateStat, CreateMaster
    <3>2. st[p] \in {"create", "createkey"} /\ key = seen[p]
      BY <3>1 DEF CreateFiles, CreateKey, WriteKey
    <3>3. key \in {NoFile, EmptyFile}
      BY <2>2, <3>2 DEF SeenFits
    <3> QED  BY <3>3 DEF Locked, NoFile, EmptyFile
  <2>4. CASE Alter(p)
    <3>1. AlterWrite(p)
      BY <2>4 DEF Alter, AlterRead
    <3>2. st[p] # "lock"
      <4>1. key = seen[p]
        BY <3>1 DEF AlterWrite, WriteKey
      <4> QED  BY <2>2, <4>1 DEF SeenFits, Locked
    <3>3. st[p] # "force"
      <4>1. key = 0 \/ st[p] # "force"
        BY <3>1 DEF AlterWrite
      <4> QED  BY <4>1 DEF Locked
    <3> QED  BY <3>1, <3>2, <3>3 DEF AlterWrite
  <2>5. ~Open(p)
    <3>1. ~OpenMark(p)
      <4> SUFFICES ASSUME OpenMark(p) PROVE FALSE
        OBVIOUS
      <4>1. st[p] = "read" /\ key = seen[p]
        BY DEF OpenMark, WriteKey
      <4> QED  BY <2>2, <4>1 DEF SeenFits, Locked
    <3> QED  BY <3>1 DEF Open, OpenImmutable, OpenRead, OpenFinish, OpenFail
  <2>6. CASE Close(p)
    <3>1. CASE CloseWriter(p)
      <4>1. ~raced /\ ~forced /\ p \in Writers
        BY <3>1 DEF CloseWriter, Writers
      <4> QED  BY <4>1, NobodyOpen DEF Locked, Writing
    <3>2. CASE CloseUnmark(p)
      <4>1. st[p] = "unmark" /\ key = seen[p]
        BY <3>2 DEF CloseUnmark, WriteKey
      <4> QED  BY <2>2, <4>1 DEF SeenFits, Locked
    <3> QED  BY <2>6, <3>1, <3>2 DEF Close, CloseImmutable, CloseRead, CloseReset
  <2>7. ~Crash(p)
    BY DEF Crash
  <2> QED  BY <2>1, <2>3, <2>4, <2>5, <2>6, <2>7
<1>2. Inv /\ [Next]_vars =>
        [key = Locked /\ key' # Locked /\ ~raced' /\ ~forced' =>
           \E p \in Procs : st[p] = "unlock"]_vars
  BY <1>1
<1> QED  BY <1>2, Invariance, PTL DEF Spec, LockRespected
-----------------------------------------------------------------------------
(***************************************************************************)
(* The word is not only safe but exact while nobody died with its mark in  *)
(* the key file: Guarded bounds it from one side, and each mark that is    *)
(* taken back keeps it equal to what it counts.                            *)
(***************************************************************************)
NothingWrong == ~raced /\ ~forced /\ ~lost

(* Steps that change neither the word nor who is counted in it.              *)
LEMMA SameOpen ==
    ASSUME StatusExact, NothingWrong, key' = key, Readers' = Readers, Writers' = Writers
    PROVE  StatusExact'
BY DEF StatusExact, NothingWrong

(* Steps after which nobody has the database open and the word is 0, or says *)
(* that there is no database, or that it is locked.                          *)
LEMMA NobodyCounted ==
    ASSUME Readers' = {}, Writers' = {}, key' \in {0, Locked, EmptyFile}
    PROVE  StatusExact'
<1>1. Cardinality(Readers') = 0
  BY FS_EmptySet
<1> QED  BY <1>1 DEF StatusExact, Locked, EmptyFile, Writing

LEMMA OpenMarkExact ==
    ASSUME Inv, StatusExact, NothingWrong, NEW p \in Procs, OpenMark(p), ~raced'
    PROVE  StatusExact'
<1>1. /\ st[p] = "read" /\ key' = Mark(p) /\ key = seen[p]
      /\ mode' = [mode EXCEPT ![p] = IF Mark(p) = Writing THEN "writer" ELSE "reader"]
  BY DEF OpenMark, WriteKey
<1>2. key >= 0 /\ key \in Int /\ mode[p] = "none"
  BY <1>1 DEF Inv, SeenFits, ModeFits, TypeOK, Locked, NoFile, EmptyFile
<1>3. Writers = {}
  BY <1>2, NobodyOpen DEF Writing, NothingWrong
<1>4. key = Cardinality(Readers)
  BY <1>2, <1>3 DEF StatusExact, NothingWrong, Writing
<1>5. CASE Mark(p) = Writing
  <2>1. p \in Writers'
    BY <1>1, <1>5 DEF Writers, Inv, TypeOK
  <2> QED  BY <1>1, <1>5, <2>1 DEF StatusExact
<1>6. CASE Mark(p) # Writing
  <2>1. Readers' = Readers \cup {p} /\ Writers' = {} /\ p \notin Readers
    BY <1>1, <1>2, <1>3, <1>6 DEF Readers, Writers, Inv, TypeOK
  <2>2. Cardinality(Readers \cup {p}) = Cardinality(Readers) + 1
    BY <2>1, ReadersFinite, FS_AddElement
  <2>3. key' = key + 1
    BY <1>1, <1>6 DEF Mark
  <2> QED  BY <1>4, <2>1, <2>2, <2>3 DEF StatusExact
<1> QED  BY <1>5, <1>6

LEMMA CloseUnmarkExact ==
    ASSUME Inv, StatusExact, NothingWrong, NEW p \in Procs, CloseUnmark(p), ~raced'
    PROVE  StatusExact'
<1>1. /\ st[p] = "unmark" /\ key' = seen[p] - 1 /\ key = seen[p]
      /\ mode' = [mode EXCEPT ![p] = "none"]
  BY DEF CloseUnmark, WriteKey, Leave
<1>2. key > 0 /\ key \in Int /\ mode[p] = "reader"
  BY <1>1 DEF Inv, SeenFits, ModeFits, TypeOK, Locked, NoFile, EmptyFile
<1>3. Writers = {}
  BY <1>2, NobodyOpen DEF Writing, NothingWrong
<1>4. key = Cardinality(Readers)
  BY <1>2, <1>3 DEF StatusExact, NothingWrong, Writing
<1>5. Readers' = Readers \ {p} /\ Writers' = {}
  BY <1>1, <1>3, LeaveCloses DEF Inv
<1>6. p \in Readers
  BY <1>2 DEF Readers
<1>7. Cardinality(Readers \ {p}) = Cardinality(Readers) - 1
  BY <1>6, ReadersFinite, FS_RemoveElement
<1> QED  BY <1>1, <1>4, <1>5, <1>7 DEF StatusExact

LEMMA ExactKept ==
    ASSUME Inv, StatusExact, [Next]_vars
    PROVE  StatusExact'
<1> SUFFICES ASSUME ~raced', ~forced', ~lost' PROVE StatusExact'
  BY DEF StatusExact
<1>1. TypeOK /\ SeenFits /\ ModeFits /\ Guarded
  BY DEF Inv
<1>2. ASSUME NothingWrong, mode' = mode, key' = key PROVE StatusExact'
  BY <1>2, SameOpen DEF Readers, Writers
\* a program that was not counted leaves, or comes in without being counted
<1>3. ASSUME NothingWrong, key' = key, NEW p \in Procs, mode[p] \in {"none", "immutable"},
             \/ mode' = [mode EXCEPT ![p] = "none"]
             \/ mode' = [mode EXCEPT ![p] = "immutable"]
      PROVE  StatusExact'
  <2>1. Readers' = Readers /\ Writers' = Writers
    BY <1>1, <1>3 DEF TypeOK, Readers, Writers
  <2> QED  BY <1>3, <2>1, SameOpen
\* the word is written while nobody has the database open
<1>4. ASSUME NothingWrong, NEW p \in Procs, key # Writing, key <= 0,
             key' \in {0, Locked, EmptyFile},
             mode' = mode \/ mode' = [mode EXCEPT ![p] = "none"]
      PROVE  StatusExact'
  <2>1. Readers = {} /\ Writers = {}
    BY <1>4, NobodyOpen DEF NothingWrong
  <2>2. Readers' = {} /\ Writers' = {}
    BY <1>1, <1>4, <2>1, LeaveCloses DEF Readers, Writers
  <2> QED  BY <1>4, <2>2, NobodyCounted
<1>5. ASSUME NEW p \in Procs, Create(p) PROVE StatusExact'
  <2>1. CASE CreateStat(p)
    BY <1>2, <2>1 DEF CreateStat, NothingWrong
  <2>2. CASE CreateFiles(p) \/ CreateKey(p)
    <3>1. /\ raced' = (raced \/ key # seen[p]) /\ forced' = forced /\ lost' = lost /\ mode' = mode
          /\ st[p] \in {"create", "createkey"} /\ key' \in {0, EmptyFile}
      BY <2>2 DEF CreateFiles, CreateKey, WriteKey
    <3>2. NothingWrong /\ key = seen[p]
      BY <3>1 DEF NothingWrong
    <3>3. key \in {NoFile, EmptyFile}
      BY <1>1, <3>1, <3>2 DEF SeenFits
    <3>4. key # Writing /\ key <= 0
      BY <3>3 DEF NoFile, EmptyFile, Writing
    <3> QED  BY <1>4, <3>1, <3>2, <3>4
  <2>3. CASE CreateMaster(p)
    <3>1. mode[p] = "none"
      BY <1>1, <2>3 DEF CreateMaster, ModeFits, TypeOK
    <3> QED  BY <1>3, <2>3, <3>1 DEF CreateMaster, Leave, NothingWrong
  <2> QED  BY <1>5, <2>1, <2>2, <2>3 DEF Create
<1>6. ASSUME NEW p \in Procs, Alter(p) PROVE StatusExact'
  <2>1. ASSUME NEW to \in {"unlock", "lock", "force"}, AlterRead(p, to) PROVE StatusExact'
    BY <1>2, <2>1 DEF AlterRead, NothingWrong
  <2>2. CASE AlterWrite(p)
    <3>1. /\ ~raced /\ ~forced /\ ~lost /\ key = seen[p] /\ (st[p] = "force" => key = 0)
          /\ st[p] \in {"unlock", "lock", "force"} /\ mode' = [mode EXCEPT ![p] = "none"]
          /\ key' \in {0, Locked}
      BY <2>2 DEF AlterWrite, WriteKey, Leave
    <3>2. key # Writing /\ key <= 0
      BY <1>1, <3>1 DEF SeenFits, Locked, Writing
    <3> QED  BY <1>4, <3>1, <3>2 DEF NothingWrong
  <2> QED  BY <1>6, <2>1, <2>2 DEF Alter
<1>7. ASSUME NEW p \in Procs, Open(p) PROVE StatusExact'
  <2>1. ASSUME NEW w \in 0..2, NEW immut \in BOOLEAN, OpenImmutable(p, w, immut)
        PROVE  StatusExact'
    <3>1. mode[p] = "none"
      BY <1>1, <2>1 DEF OpenImmutable, ModeFits, TypeOK
    <3> QED  BY <1>3, <2>1, <3>1 DEF OpenImmutable, NothingWrong
  <2>2. ASSUME NEW w \in 0..2, NEW immut \in BOOLEAN, OpenRead(p, w, immut)
        PROVE  StatusExact'
    BY <1>2, <2>2 DEF OpenRead, NothingWrong
  <2>3. CASE OpenMark(p)
    <3>1. NothingWrong
      BY <2>3 DEF OpenMark, WriteKey, NothingWrong
    <3> QED  BY <2>3, <3>1, OpenMarkExact
  <2>4. CASE OpenFinish(p)
    BY <1>2, <2>4 DEF OpenFinish, NothingWrong
  <2>5. CASE OpenFail(p)
    BY <1>3, <2>5 DEF OpenFail, Leave, NothingWrong
  <2> QED  BY <1>7, <2>1, <2>2, <2>3, <2>4, <2>5 DEF Open
<1>8. ASSUME NEW p \in Procs, Close(p) PROVE StatusExact'
  <2>1. CASE CloseWriter(p)
    <3>1. /\ NothingWrong /\ key' = 0 /\ mode' = [mode EXCEPT ![p] = "none"] /\ p \in Writers
      BY <2>1 DEF CloseWriter, Leave, Writers, NothingWrong
    <3>2. Writers = {p} /\ Readers = {}
      BY <1>1, <3>1 DEF Guarded, WriterMarked, NothingWrong
    <3>3. Writers' = {} /\ Readers' = {}
      BY <1>1, <3>1, <3>2, LeaveCloses
    <3> QED  BY <3>1, <3>3, NobodyCounted
  <2>2. CASE CloseImmutable(p)
    BY <1>3, <2>2 DEF CloseImmutable, Leave, NothingWrong
  <2>3. CASE CloseRead(p)
    BY <1>2, <2>3 DEF CloseRead, NothingWrong
  <2>4. CASE CloseReset(p)
    <3>1. NothingWrong /\ key <= 0 /\ p \in Readers
      BY <2>4 DEF CloseReset, Readers, NothingWrong
    <3> QED  BY <3>1, NobodyOpen DEF NothingWrong
  <2>5. CASE CloseUnmark(p)
    <3>1. NothingWrong
      BY <2>5 DEF CloseUnmark, WriteKey, NothingWrong
    <3> QED  BY <2>5, <3>1, CloseUnmarkExact
  <2> QED  BY <1>8, <2>1, <2>2, <2>3, <2>4, <2>5 DEF Close
<1>9. ASSUME NEW p \in Procs, Crash(p) PROVE StatusExact'
  BY <1>9 DEF Crash
<1>10. CASE UNCHANGED vars
  BY <1>2, <1>10 DEF vars, NothingWrong
<1> QED  BY <1>5, <1>6, <1>7, <1>8, <1>9, <1>10 DEF Next

(* While no program raced, forced or died with its mark in the key file, the *)
(* word is -1 exactly when a program has write access, and otherwise the     *)
(* number of programs that read: every mark that was set is taken back.      *)
THEOREM WordIsExact == Spec => []StatusExact
<1>1. Init => StatusExact
  BY DEF Init, StatusExact, NoFile, Writing
<1>2. Inv /\ StatusExact /\ [Next]_vars => StatusExact'
  BY ExactKept
<1> QED  BY <1>1, <1>2, Invariance, PTL DEF Spec
=============================================================================
