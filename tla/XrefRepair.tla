------------------------------ MODULE XrefRepair ------------------------------
(***************************************************************************)
(* dbverify with -D and -M (tools/dbverify.c): a tool, run while nobody     *)
(* else has the database open, that compares the records it finds in the    *)
(* tree with the delete set of their type, and repairs the delete set.      *)
(* check_set walks the live keys in ascending order beside the keys that    *)
(* the delete set takes for valid; check_typed_missing_data_records then    *)
(* visits the valid keys again and frees those whose text is "DELE".        *)
(* The program of XrefFile runs before and after it, so the damage that is  *)
(* repaired is the damage its crashes leave.                                *)
(***************************************************************************)
EXTENDS XrefFile

VARIABLE verify    \* where dbverify is

rvars == << vars, verify >>

NotRunning == [phase |-> "off"]

Died == [phase |-> "died"]

\* phase "set": i is xref_next's key, rest the records not yet compared;
\* sound: before it began no live record was free or above recs[0], no number on
\* the free list was above it, and none was listed twice (as an earlier repair can
\* leave it, see DropSlot); writable: the tree was opened for writing
Checking(i, rest, sound, writable) ==
    [phase |-> "set", i |-> i, rest |-> rest, sound |-> sound, writable |-> writable]

Missing(i, sound, writable) ==
    [phase |-> "missing", i |-> i, sound |-> sound, writable |-> writable]

Ascending(S) ==
    CHOOSE q \in [1..Cardinality(S) -> S] :
        \A a, b \in 1..Cardinality(S) : a < b => q[a] < q[b]

(***************************************************************************)
(* find_slot as it is written: a binary search that returns the place of a *)
(* listed key or the place it belongs to.                                  *)
(***************************************************************************)
\* steps over the middle when the key is above it
FindSlotMutant(k, free) ==
    LET f[p \in (1..(Len(free) + 1)) \X (0..Len(free))] ==
          LET lo == p[1]
              hi == p[2]
              md == (lo + hi) \div 2
          IN  IF lo > hi THEN lo
              ELSE IF k > free[md] THEN f[<<md + 1, hi>>]
              ELSE IF k < free[md] THEN f[<<lo, md - 1>>]
              ELSE md
    IN  f[<<1, Len(free)>>]

FindSlot(k, free) ==
    LET f[p \in (1..(Len(free) + 1)) \X (0..Len(free))] ==
          LET lo == p[1]
              hi == p[2]
              md == (lo + hi) \div 2
          IN  IF lo > hi THEN lo
              ELSE IF k > free[md] THEN f[<<lo, md - 1>>]
              ELSE IF k < free[md] THEN f[<<md + 1, hi>>]
              ELSE md
    IN  f[<<1, Len(free)>>]

-----------------------------------------------------------------------------
(* This program is not running, and dbverify opens the database: init_lifelines_postdb   *)
(* reads the xrefs file, check_nodes collects the keys of the live records. *)
(* It asks for write access and, while others read the database, does not   *)
(* get it; the xrefs file is then opened for writing all the same.          *)
VerifyBegin(writable) ==
    /\ verify = NotRunning /\ ~up
    /\ up' = TRUE
    /\ set' = [file EXCEPT !.free = SortXref(@)]
    /\ verify' = Checking(NextValid(set', 0), Ascending(Live),
                          /\ \A k \in Live : k < file.next /\ k \notin FreeKeys(file)
                          /\ \A k \in FreeKeys(file) : k < file.next
                          /\ StrictlyDown(file.free),
                          writable)
    /\ UNCHANGED << file, store, op, crashes, hole >>

(* A valid key below the next record: "Missing undeleted record", repaired   *)
(* by mark_deleted_record_as_deleted (addxref_if_missing).                   *)
\* takes a record that is in synch for a missing one
MarkDeletedEqualMutant ==
    /\ verify.phase = "set" /\ verify.rest # << >>
    /\ verify.i <= Head(verify.rest) /\ verify.i # 0
    /\ \E s \in AddedSets(set, verify.i) :
         /\ WriteXrefs(s)
         /\ verify' = [verify EXCEPT !.i = NextValid(s, @)]
    /\ UNCHANGED << up, store, op, crashes, hole >>

\* reports, without repairing
MarkDeletedReportMutant ==
    /\ verify.phase = "set" /\ verify.rest # << >>
    /\ verify.i < Head(verify.rest) /\ verify.i # 0
    /\ verify' = [verify EXCEPT !.i = NextValid(set, @)]
    /\ UNCHANGED vars

MarkDeleted ==
    /\ verify.phase = "set" /\ verify.rest # << >>
    /\ verify.i < Head(verify.rest) /\ verify.i # 0
    /\ \E s \in AddedSets(set, verify.i) :
         /\ WriteXrefs(s)
         /\ verify' = [verify EXCEPT !.i = NextValid(s, @)]
    /\ UNCHANGED << up, store, op, crashes, hole >>

(* xref_next found no further key and returned 0, which is below the next    *)
(* record: the key 0 reaches add_xref_to_set_impl, "Corrupt DELETESET".      *)
MarkKeyZero ==
    /\ verify.phase = "set" /\ verify.rest # << >>
    /\ verify.i = 0
    /\ up' = FALSE /\ set' = NewSet
    /\ verify' = Died
    /\ UNCHANGED << file, store, op, crashes, hole >>

InSynch ==
    /\ verify.phase = "set" /\ verify.rest # << >>
    /\ verify.i = Head(verify.rest)
    /\ verify' = [verify EXCEPT !.i = NextValid(set, @), !.rest = Tail(@)]
    /\ UNCHANGED vars

(* A record below the next valid key: "Delete set contains valid record",    *)
(* repaired by mark_live_record_as_live (delete_xref_if_present).            *)
MarkLive ==
    /\ verify.phase = "set" /\ verify.rest # << >>
    /\ verify.i > Head(verify.rest)
    /\ \E s \in DeletedSets(set, Head(verify.rest)) : WriteXrefs(s)
    /\ verify' = [verify EXCEPT !.rest = Tail(@)]
    /\ UNCHANGED << up, store, op, crashes, hole >>

CheckMissing ==
    /\ verify.phase = "set" /\ verify.rest = << >>
    /\ verify' = Missing(NextValid(set, 0), verify.sound, verify.writable)
    /\ UNCHANGED vars

(* is_record_missing_data_entry: the tree has the key, but no record can be  *)
(* read; then delete_record_missing_data_entry, which is del_in_dbase.       *)
FreeMissing ==
    /\ verify.phase = "missing" /\ verify.i # 0
    /\ store[verify.i] = "DELE" /\ verify.writable
    /\ \E s \in AddedSets(set, verify.i) :
         /\ WriteXrefs(s)
         /\ verify' = [verify EXCEPT !.i = NextValid(s, @)]
    /\ UNCHANGED << up, store, op, crashes, hole >>

(* Without write access the delete set is changed before bt_addrecord stops   *)
(* the program.                                                               *)
FreeMissingReader ==
    /\ verify.phase = "missing" /\ verify.i # 0
    /\ store[verify.i] = "DELE" /\ ~verify.writable
    /\ \E s \in AddedSets(set, verify.i) : file' = s
    /\ up' = FALSE /\ set' = NewSet
    /\ verify' = Died
    /\ UNCHANGED << store, op, crashes, hole >>

SkipPresent ==
    /\ verify.phase = "missing" /\ verify.i # 0
    /\ store[verify.i] # "DELE"
    /\ verify' = [verify EXCEPT !.i = NextValid(set, @)]
    /\ UNCHANGED vars

VerifyEnd ==
    /\ verify.phase = "missing" /\ verify.i = 0
    /\ up' = FALSE /\ set' = NewSet
    /\ verify' = NotRunning
    /\ UNCHANGED << file, store, op, crashes, hole >>

VerifyStep ==
    \/ MarkDeleted \/ MarkKeyZero \/ InSynch \/ MarkLive
    \/ CheckMissing \/ FreeMissing \/ FreeMissingReader \/ SkipPresent \/ VerifyEnd

RepairInit == Init /\ verify = NotRunning

\* the program runs only while dbverify does not
RepairNext ==
    \/ verify \in { NotRunning, Died } /\ Next /\ verify' = NotRunning
    \/ \E writable \in BOOLEAN : VerifyBegin(writable)
    \/ VerifyStep

RepairSpec == RepairInit /\ [][RepairNext]_rvars /\ WF_rvars(VerifyStep)

-----------------------------------------------------------------------------
(* The binary search finds the slot on every list the database can hold.      *)
FindSlotFinds == \A k \in Keys : FindSlot(k, file.free) \in Slots(k, file.free)

(* A repair never frees the key of a record that exists, nor puts one above    *)
(* recs[0]: keys become available only when nothing is stored under them.      *)
RepairFreesOnlyMissing ==
    [][ verify.phase \in {"set", "missing"} =>
          \A k \in Live :
             /\ k \in FreeKeys(file') => k \in FreeKeys(file)
             /\ k >= file'.next => k >= file.next ]_rvars

(* If the delete set was sound to begin with, then after the repair every key   *)
(* below recs[0] is a live record or free, except keys above the last record    *)
(* that were never stored (check_set stops at the last record it found).  With  *)
(* a key listed twice instead of another, NoValids takes every key for free and *)
(* the repair finds nothing to do.                                              *)
RepairAccounts ==
    [][ verify.phase = "missing" /\ verify' = NotRunning /\ verify.sound =>
          \A k \in 1..(file.next - 1) :
             k \in Live \cup FreeKeys(file) \/ (store[k] = "none" /\ \A r \in Live : r < k)
      ]_rvars

(* dbverify with -D comes to an end, by completing or by dying.                 *)
VerifyTerminates == verify.phase \in {"set", "missing"} ~> verify.phase \in {"off", "died"}

(* intrface.c, mark_live_record_as_live: "Fix a record which exists but is      *)
(* erroneously on the free list".                                               *)
MarkedLiveIsNotFree ==
    [][ MarkLive => Head(verify.rest) \notin FreeKeys(file') ]_rvars
=============================================================================
