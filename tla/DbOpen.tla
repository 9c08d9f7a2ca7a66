-------------------------------- MODULE DbOpen --------------------------------
(***************************************************************************)
(* Several LifeLines programs and one database: how a program creates,      *)
(* opens, locks, force-opens and closes it (btree/opnbtree.c,               *)
(* gedlib/dbcontext.c).  The only thing the programs share is the word      *)
(* k_ostat of the file "key": -2 locked (immutable access only), -1 open    *)
(* for writing, 0 closed, n > 0 open by n readers.  Every program reads the *)
(* file, decides, and writes it back; nothing keeps another program from    *)
(* doing the same in between, and a program can die anywhere.               *)
(***************************************************************************)
EXTENDS Integers, FiniteSets

CONSTANTS
    Procs,      \* the programs
    MaxCount    \* bounds k_ostat: a dead reader is never discounted

ASSUME ProcsAssumption == IsFiniteSet(Procs)
ASSUME MaxCountAssumption == MaxCount \in Nat \ {0}

VARIABLES
    key,        \* k_ostat of the key file, or NoFile, or EmptyFile
    master,     \* can the master index be read?
    st,         \* where each program is
    seen,       \* k_ostat as the program read or wrote it last (kfile1, b_kfile)
    writ,       \* write access: 0 not asked (-r), 1 if possible, 2 required (-w)
    mode,       \* the access a program got
    raced,      \* history: a program overwrote a k_ostat it had not seen
    forced,     \* history: -f overrode a k_ostat other than 0
    lost        \* history: a program died, or failed, with its mark in the key file

vars == << key, master, st, seen, writ, mode, raced, forced, lost >>

NoFile == -10
EmptyFile == -11
Locked == -2
Writing == -1

Init ==
    /\ key = NoFile
    /\ master = FALSE
    /\ st = [p \in Procs |-> "out"]
    /\ seen = [p \in Procs |-> 0]
    /\ writ = [p \in Procs |-> 0]
    /\ mode = [p \in Procs |-> "none"]
    /\ raced = FALSE /\ forced = FALSE /\ lost = FALSE

Go(p, s) == st' = [st EXCEPT ![p] = s]

\* back to the start, with nothing open
Leave(p) ==
    /\ Go(p, "out")
    /\ seen' = [seen EXCEPT ![p] = 0]
    /\ writ' = [writ EXCEPT ![p] = 0]
    /\ mode' = [mode EXCEPT ![p] = "none"]

\* fwrite of KEYFILE1, prepared from the value the program has seen
WriteKey(p, v) == key' = v /\ raced' = (raced \/ key # seen[p])

-----------------------------------------------------------------------------
(* bt_openbtree with cflag: no key file is found, and initbtree writes the  *)
(* key file, the master index and the first block, in this order.           *)

CreateStat(p) ==
    /\ st[p] = "out" /\ key = NoFile
    /\ Go(p, "create")
    /\ seen' = [seen EXCEPT ![p] = NoFile]
    /\ UNCHANGED << key, master, writ, mode, raced, forced, lost >>

CreateFiles(p) ==
    /\ st[p] = "create"
    /\ WriteKey(p, EmptyFile)
    /\ master' = FALSE
    /\ Go(p, "createkey")
    /\ seen' = [seen EXCEPT ![p] = EmptyFile]
    /\ UNCHANGED << writ, mode, forced, lost >>

CreateKey(p) ==
    /\ st[p] = "createkey"
    /\ WriteKey(p, 0)
    /\ Go(p, "createmaster")
    /\ seen' = [seen EXCEPT ![p] = 0]
    /\ UNCHANGED << master, writ, mode, forced, lost >>

\* bt_openbtree then goes on as for any database, with writ = 2
CreateMaster(p) ==
    /\ st[p] = "createmaster"
    /\ master' = TRUE
    /\ Leave(p)
    /\ UNCHANGED << key, raced, forced, lost >>

-----------------------------------------------------------------------------
(* alterdb, before the database is opened: unlock (-ln), lock (-ly) or      *)
(* force open (-f).                                                         *)

\* locks a database that others have open
AlterReadMutant(p, to) ==
    /\ st[p] = "out"
    /\ \/ to = "unlock" /\ key = Locked
       \/ to = "lock" /\ key >= Writing
       \/ to = "force" /\ key >= Writing
    /\ seen' = [seen EXCEPT ![p] = key]
    /\ Go(p, to)
    /\ UNCHANGED << key, master, writ, mode, raced, forced, lost >>

AlterRead(p, to) ==
    /\ st[p] = "out"
    /\ \/ to = "unlock" /\ key = Locked
       \/ to = "lock" /\ key = 0
       \/ to = "force" /\ key >= Writing
    /\ seen' = [seen EXCEPT ![p] = key]
    /\ Go(p, to)
    /\ UNCHANGED << key, master, writ, mode, raced, forced, lost >>

AlterWrite(p) ==
    /\ st[p] \in {"unlock", "lock", "force"}
    /\ WriteKey(p, IF st[p] = "lock" THEN Locked ELSE 0)
    /\ forced' = (forced \/ (st[p] = "force" /\ key # 0))
    /\ Leave(p)
    /\ UNCHANGED << master, lost >>

-----------------------------------------------------------------------------
(* bt_openbtree: read the key file; without -i, and unless it is locked and *)
(* write access is not required, refuse or mark the opening in the file.    *)

Immutable(w, immut) == immut \/ (w < 2 /\ key = Locked)

OpenImmutable(p, w, immut) ==
    /\ st[p] = "out" /\ key >= Locked
    /\ Immutable(w, immut)
    /\ Go(p, "marked")
    /\ seen' = [seen EXCEPT ![p] = key]
    /\ writ' = [writ EXCEPT ![p] = w]
    /\ mode' = [mode EXCEPT ![p] = "immutable"]
    /\ UNCHANGED << key, master, raced, forced, lost >>

\* lets a program in beside a writer
OpenReadMutant(p, w, immut) ==
    /\ st[p] = "out" /\ key >= Locked
    /\ ~Immutable(w, immut)
    /\ key # Locked
    /\ Go(p, "read")
    /\ seen' = [seen EXCEPT ![p] = key]
    /\ writ' = [writ EXCEPT ![p] = w]
    /\ UNCHANGED << key, master, mode, raced, forced, lost >>

\* lets a program that requires write access in on a locked database
OpenReadLockedMutant(p, w, immut) ==
    /\ st[p] = "out" /\ key >= Locked
    /\ ~Immutable(w, immut)
    /\ key # Writing
    /\ Go(p, "read")
    /\ seen' = [seen EXCEPT ![p] = key]
    /\ writ' = [writ EXCEPT ![p] = w]
    /\ UNCHANGED << key, master, mode, raced, forced, lost >>

OpenRead(p, w, immut) ==
    /\ st[p] = "out" /\ key >= Locked
    /\ ~Immutable(w, immut)
    /\ key # Writing    \* BTERR_WRITER
    /\ key # Locked     \* BTERR_LOCKED
    /\ Go(p, "read")
    /\ seen' = [seen EXCEPT ![p] = key]
    /\ writ' = [writ EXCEPT ![p] = w]
    /\ UNCHANGED << key, master, mode, raced, forced, lost >>

Mark(p) == IF writ[p] > 0 /\ seen[p] = 0 THEN Writing ELSE seen[p] + 1

OpenMark(p) ==
    /\ st[p] = "read"
    /\ Mark(p) <= MaxCount
    /\ WriteKey(p, Mark(p))
    /\ seen' = [seen EXCEPT ![p] = Mark(p)]
    /\ mode' = [mode EXCEPT ![p] = IF Mark(p) = Writing THEN "writer" ELSE "reader"]
    /\ Go(p, "marked")
    /\ UNCHANGED << master, writ, forced, lost >>

(* The master index is read; if that fails the mark stays in the key file.  *)
(* open_database_impl refuses a reader that requires write access; the      *)
(* database is then closed again.                                           *)
OpenFinish(p) ==
    /\ st[p] = "marked" /\ master
    /\ Go(p, IF writ[p] = 2 /\ mode[p] # "writer" THEN "refused" ELSE "open")
    /\ UNCHANGED << key, master, seen, writ, mode, raced, forced, lost >>

\* clears the key file when the opening fails
OpenFailMutant(p) ==
    /\ st[p] = "marked" /\ ~master
    /\ key' = IF mode[p] = "immutable" THEN key ELSE 0
    /\ Leave(p)
    /\ UNCHANGED << master, raced, forced, lost >>

OpenFail(p) ==
    /\ st[p] = "marked" /\ ~master
    /\ lost' = (lost \/ mode[p] # "immutable")
    /\ Leave(p)
    /\ UNCHANGED << key, master, raced, forced >>

-----------------------------------------------------------------------------
(* closebtree: a writer writes its copy with k_ostat 0; a reader reads the  *)
(* file again and counts itself out, unless the count was reset meanwhile.  *)

CloseWriter(p) ==
    /\ st[p] \in {"open", "refused"} /\ mode[p] = "writer"
    /\ key' = 0
    /\ Leave(p)
    /\ UNCHANGED << master, raced, forced, lost >>

CloseImmutable(p) ==
    /\ st[p] \in {"open", "refused"} /\ mode[p] = "immutable"
    /\ Leave(p)
    /\ UNCHANGED << key, master, raced, forced, lost >>

CloseRead(p) ==
    /\ st[p] \in {"open", "refused"} /\ mode[p] = "reader"
    /\ key > 0
    /\ seen' = [seen EXCEPT ![p] = key]
    /\ Go(p, "unmark")
    /\ UNCHANGED << key, master, writ, mode, raced, forced, lost >>

CloseReset(p) ==
    /\ st[p] \in {"open", "refused"} /\ mode[p] = "reader"
    /\ key <= 0
    /\ Leave(p)
    /\ UNCHANGED << key, master, raced, forced, lost >>

\* writes back the count it read
CloseUnmarkMutant(p) ==
    /\ st[p] = "unmark"
    /\ WriteKey(p, seen[p])
    /\ Leave(p)
    /\ UNCHANGED << master, forced, lost >>

CloseUnmark(p) ==
    /\ st[p] = "unmark"
    /\ WriteKey(p, seen[p] - 1)
    /\ Leave(p)
    /\ UNCHANGED << master, forced, lost >>

Crash(p) ==
    /\ st[p] # "out"
    /\ lost' = TRUE
    /\ Leave(p)
    /\ UNCHANGED << key, master, raced, forced >>

-----------------------------------------------------------------------------
Create(p) == CreateStat(p) \/ CreateFiles(p) \/ CreateKey(p) \/ CreateMaster(p)

Alter(p) == (\E to \in {"unlock", "lock", "force"} : AlterRead(p, to)) \/ AlterWrite(p)

\* -i makes the session read-only: w = 0
Open(p) ==
    \/ \E w \in 0..2, immut \in BOOLEAN :
          (immut => w = 0) /\ (OpenImmutable(p, w, immut) \/ OpenRead(p, w, immut))
    \/ OpenMark(p) \/ OpenFinish(p) \/ OpenFail(p)

Close(p) ==
    CloseWriter(p) \/ CloseImmutable(p) \/ CloseRead(p) \/ CloseReset(p) \/ CloseUnmark(p)

Next == \E p \in Procs : Create(p) \/ Alter(p) \/ Open(p) \/ Close(p) \/ Crash(p)

Spec == Init /\ [][Next]_vars

-----------------------------------------------------------------------------
TypeOK ==
    /\ key \in (Locked..MaxCount) \cup {NoFile, EmptyFile}
    /\ master \in BOOLEAN
    /\ st \in [Procs -> {"out", "create", "createkey", "createmaster", "unlock", "lock",
                          "force", "read", "marked", "open", "refused", "unmark"}]
    /\ seen \in [Procs -> (Locked..MaxCount) \cup {NoFile, EmptyFile}]
    /\ writ \in [Procs -> 0..2]
    /\ mode \in [Procs -> {"none", "writer", "reader", "immutable"}]
    /\ raced \in BOOLEAN /\ forced \in BOOLEAN /\ lost \in BOOLEAN

Readers == { p \in Procs : mode[p] = "reader" }
Writers == { p \in Procs : mode[p] = "writer" }

(* A program with write access is alone: no second writer and no counted       *)
(* reader.  Only -f, or two programs that read the key file before either has   *)
(* written it, can break this; a crash or a failed open cannot.                 *)
Exclusion ==
    ~raced /\ ~forced => \A p \in Writers : Writers = {p} /\ Readers = {}

(* The key file tells who has the database open, as long as no program died     *)
(* in between: the next opening is judged by this word alone.                   *)
StatusExact ==
    ~raced /\ ~forced /\ ~lost /\ key >= Writing =>
       IF Writers # {} THEN key = Writing ELSE key = Cardinality(Readers)

(* A crash or a failed open never leaves the database less protected: the count *)
(* in the key file is at least the number of programs that read it, and a       *)
(* writer that died keeps everybody out.                                        *)
NeverUndercounted ==
    ~raced /\ ~forced => Cardinality(Readers) <= (IF key > 0 THEN key ELSE 0)

(* A locked database stays locked until it is unlocked with -ln: no open, failed  *)
(* open, close or crash clears the lock, unless a race or -f came before.         *)
LockRespected ==
    [][ key = Locked /\ key' # Locked /\ ~raced' /\ ~forced' =>
          \E p \in Procs : st[p] = "unlock" ]_vars

(* Nobody writes to a locked database: the lock is only set while it is closed,   *)
(* and what it lets in is immutable.                                              *)
LockExcludesWriters == ~raced /\ ~forced /\ key = Locked => Writers = {}
=============================================================================
