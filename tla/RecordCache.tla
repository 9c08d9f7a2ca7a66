------------------------------ MODULE RecordCache ------------------------------
(***************************************************************************)
(* The cache of records (gedlib/keytonod.c) and the handles that the rest  *)
(* of the program has on them (gedlib/record.c).  There is one cache per   *)
(* type of record.  A cache owns a fixed number of elements; each is in    *)
(* the direct list, most recently used first, with the tree of one record, *)
(* or on the free list.  The state of all the caches is one value c, and   *)
(* every function of the code an operator from c to the c it leaves, so    *)
(* that the modules that use the cache can call several in one step.       *)
(*                                                                         *)
(* The tree and the key of an element are set and cleared together: key[e] *)
(* stands for both.  dead names the ASSERT or FATAL that ended the         *)
(* program, and gone (not in the code) the elements whose tree was freed   *)
(* in the current step of the program.                                     *)
(***************************************************************************)
EXTENDS Naturals, Sequences

CONSTANTS Key,       \* the keys of records
          TypeOf,    \* the type of each key
          El,        \* the cache elements, of all caches
          Cache,     \* the cache that each element belongs to
          MaxObject, \* bounds the record objects of one key alive at once
          NoKey, NoEl, NoRec

Type == {"INDI", "FAM", "SOUR", "EVEN", "OTHR"}    \* one cache for each

(* A record object keeps its key for life; the objects made for the same key *)
(* are told apart by a number.                                               *)
Rec == Key \X (1..MaxObject)
KeyOf(r) == r[1]

ASSUME CacheAssumption ==
    /\ TypeOf \in [Key -> Type] /\ Cache \in [El -> Type]
    /\ NoKey \notin Key /\ NoEl \notin El /\ NoRec \notin Rec
    /\ MaxObject \in Nat

Deaths == {"alive", "full", "locked", "unlocked", "missing", "assert", "dangling", "memory"}

CacheType ==
    [direct : [Type -> Seq(El)], free : [Type -> Seq(El)],
     table : [Key -> El \cup {NoEl}], key : [El -> Key \cup {NoKey}],
     lock : [El -> Nat], rpt : [El -> Nat], crec : [El -> Rec \cup {NoRec}],
     rcel : [Rec -> El \cup {NoEl}], refs : [Rec -> Nat],
     gone : SUBSET El, dead : Deaths]

(* Caches as create_cache leaves them: every element on the free list. *)
EmptyCaches(order) ==
    [direct |-> [t \in Type |-> <<>>], free |-> order,
     table |-> [k \in Key |-> NoEl], key |-> [e \in El |-> NoKey],
     lock |-> [e \in El |-> 0], rpt |-> [e \in El |-> 0], crec |-> [e \in El |-> NoRec],
     rcel |-> [r \in Rec |-> NoEl],
     refs |-> [r \in Rec |-> 0], gone |-> {}, dead |-> "alive"]

Die(c, how) == [c EXCEPT !.dead = how]
Members(s) == {s[i] : i \in 1..Len(s)}

-----------------------------------------------------------------------------
(* Record objects. *)

AddRef(c, r) == [c EXCEPT !.refs[r] = @ + 1]

(* The last reference to r goes: its element must not point to it any more. *)
FreeRec(c, r) ==
    [c EXCEPT !.refs[r] = 0, !.rcel[r] = NoEl,
              !.crec = [e \in El |-> IF e = c.rcel[r] /\ @[e] = r THEN NoRec ELSE @[e]]]

Release(c, r) == IF c.refs[r] > 1 THEN [c EXCEPT !.refs[r] = @ - 1] ELSE FreeRec(c, r)

(* is_record_loaded: the element of r still has a tree, and it is the tree of r. *)
IsLoaded(c, r) == c.rcel[r] # NoEl /\ c.key[c.rcel[r]] = KeyOf(r)

-----------------------------------------------------------------------------
(* The direct list. *)

Position(s, e) == CHOOSE i \in 1..Len(s) : s[i] = e

RemoveDirect(s, e) ==
    [i \in 1..(Len(s) - 1) |-> IF i < Position(s, e) THEN s[i] ELSE s[i + 1]]

FirstDirect(s, e) == [i \in 1..(Len(s) + 1) |-> IF i = 1 THEN e ELSE s[i - 1]]

DirectToFirstMutant(s, e) == IF s[1] = e THEN s ELSE FirstDirect(s, e)
DirectToFirst(s, e) == FirstDirect(RemoveDirect(s, e), e)

(* The elements that may be taken: not locked by anybody. *)
Unlocked(c, t) == {i \in 1..Len(c.direct[t]) : c.lock[c.direct[t][i]] = 0}

LeastRecent(c, t) == c.direct[t][CHOOSE i \in Unlocked(c, t) : \A j \in Unlocked(c, t) : j <= i]

-----------------------------------------------------------------------------
(* Taking a record out of its cache. *)

(* clear_cel: the tree is freed, the record loses its element and the        *)
(* reference that the element had on it, the key leaves the table.           *)
ClearRecord(c, e) ==
    IF c.crec[e] = NoRec THEN c
    ELSE [Release([c EXCEPT !.rcel[c.crec[e]] = NoEl], c.crec[e]) EXCEPT !.crec[e] = NoRec]

ClearCel(c, e) ==
    [ClearRecord(c, e) EXCEPT !.table[c.key[e]] = NoEl, !.key[e] = NoKey, !.gone = @ \cup {e}]

RemoveCelMutant(c, e) ==
    LET t == Cache[e] IN
    [ClearCel(c, e) EXCEPT !.direct[t] = RemoveDirect(@, e), !.free[t] = <<e>> \o @, !.lock[e] = 0]
(* remove_cel_from_cache.  The element keeps its counts of locks, which are  *)
(* 0, until it is used again.                                                *)
RemoveCel(c, e) ==
    LET t == Cache[e] IN
    IF c.lock[e] > 0 THEN Die(c, "locked")
    ELSE [ClearCel(c, e) EXCEPT !.direct[t] = RemoveDirect(@, e), !.free[t] = <<e>> \o @]

RemoveFromCache(c, k) == IF c.table[k] = NoEl THEN Die(c, "assert") ELSE RemoveCel(c, c.table[k])

-----------------------------------------------------------------------------
(* Putting a record into its cache. *)

MakeRoomMutant(c, t) ==
    IF c.free[t] # <<>> THEN c ELSE RemoveCel(c, c.direct[t][Len(c.direct[t])])
(* get_free_cacheel: with no free element the least recently used one that   *)
(* is not locked is removed.                                                 *)
MakeRoom(c, t) ==
    IF c.free[t] # <<>> THEN c
    ELSE IF Unlocked(c, t) = {} THEN Die(c, "full")
    ELSE RemoveCel(c, LeastRecent(c, t))

(* The free element is taken and reinitialized, put_node_in_cache enters it  *)
(* in the table and the direct list, and r becomes its record.               *)
Place(c, k, r) ==
    LET t == TypeOf[k]
        e == Head(c.free[t])
    IN [c EXCEPT !.free[t] = Tail(@), !.direct[t] = FirstDirect(@, e),
                 !.table[k] = e, !.key[e] = k, !.lock[e] = 0, !.rpt[e] = 0,
                 !.crec[e] = r, !.rcel[r] = e]

(* node_to_cache for record r, of which the element gets one reference. *)
NodeToCache(c, k, r) ==
    IF c.table[k] # NoEl THEN Die(c, "assert")
    ELSE LET d == MakeRoom(AddRef(c, r), TypeOf[k]) IN
         IF d.dead # "alive" THEN d ELSE Place(d, k, r)

(* alloc_new_record *)
NoMemory(c, k) == \A n \in 1..MaxObject : c.refs[<<k, n>>] > 0
Fresh(c, k) ==
    <<k, CHOOSE n \in 1..MaxObject : /\ c.refs[<<k, n>>] = 0
                                     /\ \A m \in 1..(n - 1) : c.refs[<<k, m>>] > 0>>

(* key_to_cacheel for a record that exists: found in the table it becomes    *)
(* the most recently used one, otherwise add_to_direct reads it.             *)
KeyToCacheel(c, k) ==
    IF c.table[k] # NoEl
    THEN IF c.crec[c.table[k]] = NoRec THEN Die(c, "assert")
         ELSE [c EXCEPT !.direct[TypeOf[k]] = DirectToFirst(@, c.table[k])]
    ELSE IF NoMemory(c, k) THEN Die(c, "memory")
    ELSE NodeToCache(c, k, Fresh(c, k))

RecordOf(c, k) == c.crec[c.table[k]]

(* key_to_record: the caller gets a reference to the record of the element. *)
KeyToRecord(c, k) ==
    LET d == KeyToCacheel(c, k) IN
    IF d.dead # "alive" THEN d ELSE AddRef(d, RecordOf(d, k))

(* nztop: a record that fell out of the cache is read again and from then on *)
(* points to the element of its key, which has a record object of its own.   *)
(* stored are the keys that the database has.                                *)
Nztop(c, r, stored) ==
    IF IsLoaded(c, r) THEN c
    ELSE IF KeyOf(r) \notin stored THEN Die(c, "missing")
    ELSE LET d == KeyToCacheel(c, KeyOf(r)) IN
         IF d.dead # "alive" THEN d ELSE [d EXCEPT !.rcel[r] = d.table[KeyOf(r)]]

(* add_new_indi_to_cache and fam_to_cache: a record just made, with a tree   *)
(* of its own, enters the cache; its maker's reference is released.          *)
AddNew(c, k) ==
    LET r == Fresh(c, k)
        d == NodeToCache(AddRef(c, r), k, r)
    IN IF NoMemory(c, k) THEN Die(c, "memory")
       ELSE IF d.dead # "alive" THEN d ELSE Release(d, r)

-----------------------------------------------------------------------------
(* Locks on elements, and those that a report takes. *)

LockCache(c, e) == [c EXCEPT !.lock[e] = @ + 1]
UnlockCache(c, e) ==
    IF c.lock[e] = 0 \/ c.key[e] = NoKey THEN Die(c, "assert") ELSE [c EXCEPT !.lock[e] = @ - 1]
LockRpt(c, e) == [c EXCEPT !.lock[e] = @ + 1, !.rpt[e] = @ + 1]
UnlockRpt(c, e) ==
    IF c.lock[e] = 0 \/ c.rpt[e] = 0 \/ c.key[e] = NoKey THEN Die(c, "unlocked")
    ELSE [c EXCEPT !.lock[e] = @ - 1, !.rpt[e] = @ - 1]

FreeRptLocksIn(c, caches) ==
    [c EXCEPT !.lock = [e \in El |-> IF Cache[e] \in caches THEN @[e] - c.rpt[e] ELSE @[e]],
              !.rpt = [e \in El |-> IF Cache[e] \in caches THEN 0 ELSE @[e]]]

(* free_all_rprtlocks *)
FreeAllRptLocks(c) == FreeRptLocksIn(c, {"INDI", "FAM", "SOUR", "OTHR"})

-----------------------------------------------------------------------------
(* What holds of the caches between any two calls. *)

(* Every element is in the direct list of its cache with the tree of one     *)
(* key, under which the table finds it, or on the free list without one.     *)
ElementsPlaced(c) ==
    \A t \in Type :
        /\ \A s \in {c.direct[t], c.free[t]} : \A i, j \in 1..Len(s) : s[i] = s[j] => i = j
        /\ Members(c.direct[t]) = {e \in El : Cache[e] = t /\ c.key[e] # NoKey}
        /\ Members(c.free[t]) = {e \in El : Cache[e] = t /\ c.key[e] = NoKey}

TableExact(c) ==
    /\ \A k \in Key : c.table[k] # NoEl => c.key[c.table[k]] = k
    /\ \A e \in El : c.key[e] # NoKey => c.table[c.key[e]] = e /\ TypeOf[c.key[e]] = Cache[e]

(* The record of an element is alive, has its key and points back to it;     *)
(* only an element in use has a record or locks.                             *)
RecordsLinked(c) ==
    \A e \in El :
        /\ c.crec[e] # NoRec =>
              /\ c.key[e] # NoKey
              /\ c.refs[c.crec[e]] > 0 /\ c.rcel[c.crec[e]] = e /\ KeyOf(c.crec[e]) = c.key[e]
        /\ c.key[e] # NoKey => c.crec[e] # NoRec
        /\ c.key[e] = NoKey => c.lock[e] = 0
        /\ c.rpt[e] <= c.lock[e]
=============================================================================
