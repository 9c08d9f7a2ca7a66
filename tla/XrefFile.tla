------------------------------- MODULE XrefFile -------------------------------
(***************************************************************************)
(* Record keys of one type in a LifeLines database: the delete set kept in *)
(* memory and in the file "xrefs" (gedlib/xreffile.c), the record texts    *)
(* kept in the block tree, and the program that takes a key to add a       *)
(* record, gives it back to delete one, or imports a GEDCOM file under new *)
(* keys or its own.  One process has the database open for writing (see    *)
(* DbOpen), so nothing interleaves with it; but it can die between any two *)
(* steps, and each step leaves the files as the next run will find them.   *)
(***************************************************************************)
EXTENDS DeleteSet, FiniteSets

CONSTANTS
    MaxKey,       \* keys are 1..MaxKey: bounds getxrefnum and the GEDCOM file
    MaxCrashes    \* how many times the process may die

ASSUME MaxKeyAssumption == MaxKey \in Nat \ {0}
ASSUME MaxCrashesAssumption == MaxCrashes \in Nat

VARIABLES
    up,           \* is the xrefs file open (xreffp)?
    set,          \* the delete set in memory; NewSet while the file is closed
    file,         \* the delete set in the xrefs file
    store,        \* what the tree holds under each key: no text, a record, "DELE"
    op,           \* the operation in progress
    crashes,      \* how many times the process has died
    hole          \* history: an import left numbers below recs[0] unaccounted for

vars == << up, set, file, store, op, crashes, hole >>

Keys == 1..MaxKey

Idle == [kind |-> "idle"]
Adding(k) == [kind |-> "adding", key |-> k]
Deleting(k) == [kind |-> "deleting", key |-> k]
\* keyed: records that have a new key but are not yet stored
Loading(keyed) == [kind |-> "loading", keyed |-> keyed]
\* todo: records of the GEDCOM file without a key, keyed: with a key but not yet
\* stored, gaps: numbers below its highest key that it does not use
Importing(todo, keyed, gaps) ==
    [kind |-> "import", todo |-> todo, keyed |-> keyed, gaps |-> gaps]

Ops == { Idle } \cup { Adding(k) : k \in Keys } \cup { Deleting(k) : k \in Keys }
         \cup { Loading(keyed) : keyed \in SUBSET Keys }
         \cup [kind : {"import"}, todo : SUBSET Keys, keyed : SUBSET Keys, gaps : SUBSET Keys]

(* The keys taken from the delete set for records not yet stored. *)
Taken(o) ==
    IF o.kind = "adding" THEN { o.key } ELSE IF o.kind = "loading" THEN o.keyed ELSE {}

Init ==
    /\ up = FALSE
    /\ set = NewSet
    /\ file = NewSet
    /\ store = [k \in Keys |-> "none"]
    /\ op = Idle
    /\ crashes = 0
    /\ hole = FALSE

(* writexrefs: every change of a set is written to the file and flushed. *)
WriteXrefs(s) == set' = s /\ file' = s

-----------------------------------------------------------------------------
(* Opening and closing the file. *)

OpenXref ==
    /\ ~up
    /\ up' = TRUE
    /\ set' = [file EXCEPT !.free = SortXref(@)]
    /\ UNCHANGED << file, store, op, crashes, hole >>

CloseXref ==
    /\ up /\ op = Idle
    /\ up' = FALSE
    /\ set' = NewSet
    /\ UNCHANGED << file, store, op, crashes, hole >>

Crash ==
    /\ up /\ crashes < MaxCrashes
    /\ up' = FALSE
    /\ set' = NewSet
    /\ op' = Idle
    /\ crashes' = crashes + 1
    /\ hole' = (hole \/ op.kind = "import")
    /\ UNCHANGED << file, store >>

-----------------------------------------------------------------------------
(* Adding a record: getxrefnum, and later store_record of its text. *)

TakeKey ==
    /\ up /\ op = Idle
    /\ GetKey(set) <= MaxKey
    /\ WriteXrefs(GetSet(set))
    /\ op' = Adding(GetKey(set))
    /\ UNCHANGED << up, store, crashes, hole >>

StoreNew ==
    /\ up /\ op.kind = "adding"
    /\ store' = [store EXCEPT ![op.key] = "record"]
    /\ op' = Idle
    /\ UNCHANGED << up, set, file, crashes, hole >>

-----------------------------------------------------------------------------
(* del_in_dbase(key): addxref, then store_record of the text "DELE".  The  *)
(* caller has read the record it deletes.                                  *)

FreeKey(k) ==
    /\ up /\ op = Idle
    /\ store[k] = "record"
    /\ \E s \in AddedSets(set, k) : WriteXrefs(s)
    /\ op' = Deleting(k)
    /\ UNCHANGED << up, store, crashes, hole >>

StoreDele ==
    /\ up /\ op.kind = "deleting"
    /\ store' = [store EXCEPT ![op.key] = "DELE"]
    /\ op' = Idle
    /\ UNCHANGED << up, set, file, crashes, hole >>

(* "Tried to add already-deleted record": the process ends (FATAL2). *)
FreeKeyTwice(k) ==
    /\ up /\ op = Idle
    /\ store[k] = "record"
    /\ AlreadyFree(set, k)
    /\ up' = FALSE
    /\ set' = NewSet
    /\ UNCHANGED << file, store, op, crashes, hole >>

-----------------------------------------------------------------------------
(* import_from_gedcom_file under new keys, into a database with records or  *)
(* when the user does not keep the keys of the file: translate_key takes a  *)
(* key for a record the first time it is met, which for the target of a     *)
(* pointer may be long before the record is read and stored.                *)

LoadBegin ==
    /\ up /\ op = Idle
    /\ op' = Loading({})
    /\ UNCHANGED << up, set, file, store, crashes, hole >>

LoadKey ==
    /\ up /\ op.kind = "loading"
    /\ GetKey(set) <= MaxKey
    /\ WriteXrefs(GetSet(set))
    /\ op' = Loading(op.keyed \cup { GetKey(set) })
    /\ UNCHANGED << up, store, crashes, hole >>

LoadStore(k) ==
    /\ up /\ op.kind = "loading" /\ k \in op.keyed
    /\ store' = [store EXCEPT ![k] = "record"]
    /\ op' = Loading(op.keyed \ { k })
    /\ UNCHANGED << up, set, file, crashes, hole >>

\* the validated file defines every record that it points to
LoadEnd ==
    /\ up /\ op = Loading({})
    /\ op' = Idle
    /\ UNCHANGED << up, set, file, store, crashes, hole >>

-----------------------------------------------------------------------------
(* import_from_gedcom_file, when the database holds no records and the user *)
(* keeps the keys of the file: each key is translated by newxref the first  *)
(* time it is met, in a record or in a pointer to it; each record is stored; *)
(* then addmissingkeys frees the unused numbers in ascending order.         *)

HighestOf(S) == CHOOSE m \in S : \A k \in S : k <= m
LowestOf(S) == CHOOSE m \in S : \A k \in S : m <= k

ImportBegin(S) ==
    /\ up /\ op = Idle
    /\ NumSet(set) <= 0
    /\ op' = Importing(S, {}, 1..HighestOf(S) \ S)
    /\ hole' = (hole \/ set.next > HighestOf(S) + 1)
    /\ UNCHANGED << up, set, file, store, crashes >>

ImportKey(k) ==
    /\ up /\ op.kind = "import" /\ k \in op.todo
    /\ WriteXrefs(KeepKey(set, k))
    /\ op' = [op EXCEPT !.todo = @ \ {k}, !.keyed = @ \cup {k}]
    /\ UNCHANGED << up, store, crashes, hole >>

ImportStore(k) ==
    /\ up /\ op.kind = "import" /\ k \in op.keyed
    /\ store' = [store EXCEPT ![k] = "record"]
    /\ op' = [op EXCEPT !.keyed = @ \ {k}]
    /\ UNCHANGED << up, set, file, crashes, hole >>

AddMissingKey ==
    /\ up /\ op.kind = "import" /\ op.todo = {} /\ op.keyed = {} /\ op.gaps # {}
    /\ \E s \in AddedSets(set, LowestOf(op.gaps)) : WriteXrefs(s)
    /\ op' = [op EXCEPT !.gaps = @ \ {LowestOf(op.gaps)}]
    /\ UNCHANGED << up, store, crashes, hole >>

ImportEnd ==
    /\ up /\ op.kind = "import" /\ op.todo = {} /\ op.keyed = {} /\ op.gaps = {}
    /\ op' = Idle
    /\ UNCHANGED << up, set, file, store, crashes, hole >>

-----------------------------------------------------------------------------
Next ==
    \/ OpenXref \/ CloseXref \/ Crash
    \/ TakeKey \/ StoreNew
    \/ \E k \in Keys : FreeKey(k) \/ FreeKeyTwice(k)
    \/ StoreDele
    \/ LoadBegin \/ LoadKey \/ LoadEnd
    \/ \E k \in Keys : LoadStore(k)
    \/ \E S \in (SUBSET Keys) \ {{}} : ImportBegin(S)
    \/ \E k \in Keys : ImportKey(k) \/ ImportStore(k)
    \/ AddMissingKey \/ ImportEnd

Spec == Init /\ [][Next]_vars

-----------------------------------------------------------------------------
Live == { k \in Keys : store[k] = "record" }

InFlight ==
    CASE op.kind = "idle" -> {}
      [] op.kind \in {"adding", "deleting"} -> { op.key }
      [] op.kind = "loading" -> op.keyed
      [] op.kind = "import" -> op.todo \cup op.keyed \cup op.gaps

TypeOK ==
    /\ up \in BOOLEAN
    /\ set \in DeleteSets(MaxKey) /\ file \in DeleteSets(MaxKey)
    /\ store \in [Keys -> {"none", "record", "DELE"}]
    /\ op \in Ops
    /\ crashes \in 0..MaxCrashes
    /\ hole \in BOOLEAN

(* The free list is sorted from high to low and holds no key twice, in      *)
(* memory and in the file, whatever was deleted, imported or cut short by a *)
(* crash: otherwise find_slot and xref_isvalid_impl search it wrongly and   *)
(* getxrefnum hands a key out twice.                                        *)
FreeListSorted == StrictlyDown(set.free) /\ StrictlyDown(file.free)

(* No live record but the one being deleted is free or at or above recs[0],   *)
(* and the keys of the records being added are neither live nor free.         *)
Sound ==
    /\ FreeKeys(file) \subseteq 1..(file.next - 1)
    /\ \A k \in Live : op # Deleting(k) => k < file.next /\ k \notin FreeKeys(file)
    /\ \A k \in Taken(op) : k \notin Live /\ k \notin FreeKeys(file) /\ k < file.next

(* Every number below recs[0] belongs to a live record, to the free list or to *)
(* the operation in progress.                                                  *)
Covered == 1..(file.next - 1) \subseteq Live \cup FreeKeys(file) \cup InFlight

(* While no operation has been cut short the delete set says of every key      *)
(* whether a record has it (the layout that the comments of xreffile.c, lines  *)
(* 45-65, describe); an import into a database that had numbers above those of *)
(* the file leaves numbers that nobody has.                                    *)
Accounted == crashes = 0 => Sound /\ (~hole => Covered)

(* num_set counts the live records, as the import and the main screen        *)
(* believe, while no crash or import has left a hole.                        *)
NumSetExact ==
    op = Idle /\ crashes = 0 /\ ~hole => NumSet(file) = Cardinality(Live)

Lost == 1..(file.next - 1) \ (Live \cup FreeKeys(file) \cup InFlight)

(* A number that neither a record has nor the free list is lost by a crash,    *)
(* and it is one that the operation cut short had taken for a record that it   *)
(* had not stored yet: one number when a record is added, but as many as there *)
(* are records met and not yet read when a file is imported under new keys.    *)
(* No deletion loses a number, nor an import under the keys of the file that   *)
(* comes to its end in a database that had no higher numbers.                  *)
CrashLosesOnlyTaken ==
    [][ ~hole' => Lost' \ Lost \subseteq (IF crashes' # crashes THEN Taken(op) ELSE {}) ]_vars

(* getxrefnum never hands out the key of a record that exists, to the adding of *)
(* a record or to an import, so storing a new record never overwrites another   *)
(* one, if no deletion was cut short.                                           *)
KeyHandedOutIsUnused ==
    [][ crashes = 0 => (Taken(op') \ Taken(op)) \cap Live = {} ]_vars
=============================================================================
