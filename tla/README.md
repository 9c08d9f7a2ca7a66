# LifeLines in TLA+

LifeLines is a genealogy program in C: a curses application (`llines`), a report
interpreter and a few tools over a database of GEDCOM records.  The database is a
directory of files that the program manages itself: a block tree of record files, a
list of free record keys, and one word that says who has the database open.  There is
no transaction log and no lock but that word.  This directory models the parts on
which the safety of somebody's records depends, checks them with TLC on small
instances, and proves the central facts with TLAPS for every instance.

## 1. Inventory

| Component | State | Operations | Hard behaviour | What makes it correct | Here |
|---|---|---|---|---|---|
| **Key allocation** `gedlib/xreffile.c`, `intrface.c` | per record type a delete set: `recs[0]` (next unused number) and the free numbers, from high to low; the same in the file `xrefs` | `getxref`, `addxref`, `newxref`, `delete_xref_if_present`, `xref_isvalid`, `xref_next`, `num_indis`... | the delete set and the record are written in separate steps; a crash falls between; the free list is searched by bisection and must stay sorted | no key has two records; every number below `recs[0]` is in use or free; the count of records is right | `DeleteSet`, `XrefFile` |
| **Repair of the delete sets** `tools/dbverify.c` | two cursors: the live records, the valid keys | `-D`, `-M` | the walk changes the set it walks; it starts from what crashes left | frees no live record, accounts for every number, ends | `XrefRepair` |
| **Opening and closing** `btree/opnbtree.c`, `gedlib/dbcontext.c` | `k_ostat` in the file `key`; access of each program | open for reading or writing, immutable, create, lock, unlock, force, close | programs interleave between reading and writing the word, and die | a writer is alone; a lock is kept; the word never counts too few | `DbOpen` |
| **Block tree** `btree/` | index and block files, master and next file key in `key`; a cache of 20 nodes | `bt_addrecord`, `bt_getrecord`, traversals | splits that go up to a new master, one file at a time; lazily kept parents; a crash in the middle | a key-value store; balanced; a traversal is exact; a crash stays local | `BTree`, `KVStore` |
| **Record cache** `gedlib/keytonod.c`, `record.c` | a direct list, a free list and a hash table per type of record; locks, record objects, reference counts | load, evict, lock, unlock, add, remove | eviction while records are locked or held; removal of a record in use | a record in use is never evicted; lists, locks and counts agree | `RecordCache`, `Report` |
| **Report interpreter** `interp/` | the stack of functions, symbol tables, values with reference counts | statements, loops, calls, the four ways out of a loop | each loop locks, unlocks and releases by hand on every way out | nothing stays locked or held; a jump goes where it should | `Report`, `ReportSets` |
| **Lineage** `gedlib/remove.c`, `liflines/add.c`, `delete.c`, `edit*.c` | HUSB/WIFE/CHIL in families, FAMS/FAMC in persons | add and remove child, spouse, family, person; edit | each link is two lines in two records, stored one after the other; keys pass through a ring of 32 buffers (`rmvat`) | links are symmetric between operations | `Lineage`, `LineageDb` |
| **Merge and swap** `liflines/merge.c`, `swap.c` | the lineage of two persons or families | merge, swap, reorder | moves all links of one record to another | nobody is lost, no link to a deleted record | `Lineage`, `LineageDb`, `RecordIndex` |
| **Name, REFN and soundex indexes** `gedlib/names.c`, `refns.c` | index records in the block tree | add, remove, look up | kept beside the records, in separate writes | an entry for each line of a record and no other | `RecordIndex` |
| **Repair of links and indexes** `tools/dbverify.c` | the records under scan | `-F -i -f`, `-G` | starts from what a crash left, changes what it scans | all links agree afterwards; no ghost entry is left | `LineageDb`, `RecordIndex` |
| **Import** `liflines/import.c`, `valgdcom.c` | a table of old and new keys | import with new or with the original keys | numbers are taken in the order of the file, the new ones ahead of the records that are pointed to, and gaps are returned at the end; records are stored before or after they are indexed | the delete set is exact afterwards; a crash loses only numbers that were taken | `XrefFile`, `RecordIndex` |
| **Sequences** `gedlib/indiseq.c` | arrays of keys with a value, flags for their order | union, intersection, difference, relatives, sorts | the flags say what the array is; a loop walks an array that its body may move | the flags are true; equal to the set operations | `QuickSort`, `IndiSeq`, `ReportSets`, `Relatives` |
| **Export** `gedlib/gengedc.c` | a set of persons | which families go with them | | a closed file | `Relatives` |
| **stdlib containers** `stdlib/` | lists, tables, red-black tree | insert, delete | rebalancing | red-black invariants | planned |
| **Node trees, dates, places, character sets, display** | trees of lines, text | parsing, formatting | text | | not modelled |
| **Histories** `liflines/browse.c` | two circular buffers of keys, kept in the database from one program to the next | record, back, forward, list, clear, save, load | a full and an empty buffer have equal indices; records in it are deleted; another program has another size | a tape of visited records, none lost or swapped | `History`, `Trail` |
| **Browse screens** `liflines/browse.c`, `tandem.c`, `lbrowse.c`, `gedlib/brwslist.c` | the record or two that a screen holds, `save`, the list, the lists with a name | some sixty commands | each screen passes references on, forgets or releases them by hand; a list keeps keys while records are deleted | no record is freed while a screen shows it; a screen gets records of its type; a line of a list leads to a record | `Browse` |
| **Painting and menus** `liflines/screen.c`, `ui/` | curses windows | input, output | | | not modelled |

How they interact: the screens, the importer and the interpreter call `add`, `remove`,
`merge`, which take keys from the delete sets, change node trees held by the record
cache, and store them as text through `store_record`, that is `bt_addrecord`.  All
calls are synchronous in one process; several processes share a database only through
the word `k_ostat`, which allows one writer or any number of readers.  So concurrency
matters in `DbOpen` only; everywhere else the hard things are the order in which
files are written, what a crash leaves, and long sequences of legal calls.

The complete list of hazards, each at its line, with the properties that cover it, is in
`PROJECT.json`.

## 2. Plan

Done, in this order: `DeleteSet`, `XrefFile`, `XrefRepair` (keys), `DbOpen`, `KVStore`,
`BTree`, and the proofs `XrefRepair_proof` (of both modules of keys), `DbOpen_proof`,
`BTree_proof`;
then `RecordCache` and `Report` over it; `NodeLists`, `Lineage` and `LineageDb`;
`RecordIndex`; `QuickSort`, `IndiSeq`, `ReportSets` and `Relatives`; `Trail` and `History`;
`Browse`, which composes the screens with `RecordCache`; then the proofs `History_proof`,
`RecordCache_proof`, `Report_proof`, `RecordIndex_proof` and `Browse_proof`.

Next:

1. The red-black tree (`stdlib/rbtree.c`); values and symbol tables of the report
   interpreter (`interp/pvalue.c`, `symtab.c`).
2. Proofs: `LineageSound`, on the lemmas about `NodeLists` of `RecordIndex_proof`.

## 3. Modules

### DeleteSet
The operators of one delete set: `GetKey`/`GetSet` (getxrefnum), `AddedSets` (addxref),
`KeepKey` (newxref with original keys), `DeletedSets` (delete_xref_if_present), `NumSet`,
`IsValid`, `NextValid`, `SortXref`.  A set is `[next, free]`: `recs[0]`, and `recs[1..]`
as a sequence.  `find_slot` is represented twice: here by what it must return
(`IsSlot`), in `XrefRepair` by its bisection, which `FindSlotFinds` compares; the theorem
`FindSlotAlwaysFinds` says that the two agree on every list.
`delete_xref_if_present` is translated with its loop bound.

### XrefFile
One type of record: the set in memory (`set`) and in the file (`file`), the text of each
record (`store`), and what the program is doing (`op`).  Adding a record is `TakeKey`,
later `StoreNew`; deleting is `FreeKey`, then `StoreDele`. An import under new keys is
`LoadBegin`, then `LoadKey` and `LoadStore` in any order, so that it may hold any number of
keys whose records are not yet stored, then `LoadEnd`; one with the keys of the
file is `ImportBegin`, `ImportKey` and `ImportStore` in any order of records and pointers,
then `AddMissingKey` from low to high, `ImportEnd`. `Crash` may happen between any two.
A change of the set and its writing to `xrefs` (rewritten and flushed at once) is one
step: a file half written is not modelled, nor are the five types that share the file.

### XrefRepair
`dbverify -D -M` over the database that `XrefFile` left, any number of times, between
sessions.  One action for every branch of `check_set` and
`check_typed_missing_data_records`.

### DbOpen
Any number of programs and the word `k_ostat`.  Reading the word (`AlterRead`,
`OpenRead`, `CloseRead`) and writing it (`AlterWrite`, `OpenMark`, `CloseUnmark`) are
separate steps, and a program dies between any two.  `raced`, `forced` and `lost` are
history variables that say whether a program overwrote a word it had not seen, whether
`-f` was used on a database in use, and whether a mark was left behind.  They make the
guarantees conditional on precisely what breaks them.

### BTree and KVStore
`KVStore` is what the rest of the program takes the tree for: a function from keys to
records.  `BTree` has the files (`files`), the words in memory and in the file
(`kmem`, `keyfile`), and `op`, the `bt_addrecord` in progress: one action per file
written, from the descent (`Descend`, which writes an index whose parent is out of
date), over the rewriting or splitting of the block and the two renames, to `addkey`,
index splits and a new master.  A crash can come between any two, or truncate the index
that is being rewritten.  The refinement mapping is `store <- Promised`: while an
operation is under way, what was stored before it; otherwise what the tree holds.

The cache of 20 nodes is left out, since every change is written through it, and the
file `key` alone lags behind: it is written through a buffer nobody flushes, so
`keyfile` is the value before the last write, until the tree is closed.
Nothing in the tree is recovered after a crash, so the model stops there.

### RecordCache and Report
`RecordCache` has the caches as one value `c`, and each function of `keytonod.c` and
`record.c` as an operator from the `c` before to the `c` after it, so that a caller can
make several calls in one step: taking an element (`get_free_cacheel`), reading into it,
locking, unlocking, the record objects that point to elements and the elements that point
back, adding and removing.  An `ASSERT` or `FATAL` that ends the program sets `dead`.

`Report` composes it with the interpreter.  Each statement of the report language has a
shape: what the function `interp_xxx` locks, reads, puts into loop variables,
and what it returns when its body was left by a jump.  `stack` has a frame for each such
function that is running; `irc` is what the last `interpret` returned.  What a report
does is unknown, so the model lets it nest, call, jump and end in all ways.
`AddRecord` and `DeleteRecord` are the commands between two reports that change the
cache.  `DiesOnlyOf` lists the ways in which the code does die, so each is a statement
about the code:

- a cache all of whose elements are locked ends the program when a further record is
  read (`full`): deep enough a nesting of loops does it;
- a lock that a report leaves on an event is never released (`free_all_rprtlocks` walks
  the sources twice instead), and deleting that event later ends the program (`locked`);
- `unlock()` of a record that is not locked fails an assertion (`unlocked`);
- a walk of a tree that is not locked continues in a tree that was evicted, and the values
  of two parents are made after both are read, the second of which can have evicted the
  first from a cache in which everything else is locked (`dangling`).

### NodeLists, Lineage and LineageDb
`NodeLists` has the operations on lists of lines of equal tag.  `Lineage` has each command
as an operator on a command under way: the trees in memory, the writes so far in their
order, the calls of `rmvat` (a key is dead after `RingSize` further calls), and the
assertion that ended it.  `LineageDb` gives the writes to the disk one at a time (all
at once where the bounds keep the command from being cut short); the program can die
between any two, and dbverify can then be run, or other commands first (`Verify`).
A line is its value. Where `union_nodes` compares the lines below it too, any lines of
equal value may differ there (`UnionNodes` is the set of all unions this can give); if
both merged records had a family or a spouse under lines that differ, both are kept, one
link is left, and the check after the merge ends the program, which `DiesOnlyOf` lists.
`damage` notes which links a command that was cut short has touched, and those that an
edit tore because the check for isomorphic trees let it (`TornLines`): all other links
must still agree (`LinksMatch`).

### RecordIndex
A record is its NAME and REFN lines, the index a set of pairs.  A command is a list of
writes, in the order of the code, and the program can die between two of them.
`loose` is the set of entries that a dying command has left open, by which `IndexExact`
says what holds of all others; `GhostsGone` is about the repair.

### QuickSort, IndiSeq, ReportSets and Relatives
`QuickSort` is the code's partition by partition, as recursive functions. `IndiSeq` has a
set as its array (`els`, with key, value and the key it is sorted by), its flags, and
operators for each function of `indiseq.c` that a report reaches.  `ReportSets` is a
report that does these things in any order to a variable, and inside a loop over it:
`moved` says that an `append_indiseq` has moved the array while a loop walks it, `loop`
where the loop stands.  `Relatives` computes parents, children, spouses, siblings,
ancestors, descendants, and the families that `gen_gedcom` adds, from the lines of
`Lineage`, and states what they should be as closures of relations; `MCLineage` compares
the two in every state of the database (`KinSetsExact`), so on every
pedigree, loops of descent included, that the commands can make.

### History and Trail
`Trail` is what a history should be: the entries up to the present one (`past`), and a
tape of cells beyond it (`rest`) that going back adds to, going forward reads, and
recording overwrites.  `History` is `struct hist` with its two indices; one action
for each command that touches it (`Top` is the top of the loop of each screen, which
records what it shows), quitting, crashing and starting again with other options, and
the deletion of records that the buffer names.  The mapping is `past <- Past`,
`rest <- Rest`: the cells from `start`, and those from `past_end` around to it.  The
two histories do not touch each other, so the model follows either (`which`).

### Browse
`screen` says which screen the user is on and the record objects that its function holds
in its variables (`one`, `two`, `save`), `leaked` of which objects a reference was
forgotten.  A command is one action: the display of the records (which may read them
again, and evict others), what the command gets with `key_to_record`, the references
it drops, and the screen that it leaves behind, in that order; the operators take the
caches of `RecordCache` from one to the next.  To whom a command leads is any
record of the type it can lead to.  One action stands for all commands that do the same
with the references: `Go` for the relatives, neighbours in the file, notes, sources and
histories, `Stay` for everything that shows the record again.

`lists` are the lists that `name_the_list` has copied, each the set of its keys. They can be
shown again, added to the list on the screen, and asked from. `RemoveFromLists` is what a
deletion does to them: only persons are taken off (`delete_indiseq`), so a line may be
of a record that is gone. `Find` and `SeenToo` then end the program with "missing", as the
`ASSERT(rec)` of `key_to_record` does, for the current line, the marked one or any in view;
`AskInVain` does for a named list of one line whose record is gone or of none.

## 4. Runs

| Run | Bounds | Shows |
|---|---|---|
| `xref` | 4 keys, 2 crashes | `FreeListSorted`, `Accounted`, `CrashLosesOnlyTaken`, `KeyHandedOutIsUnused` |
| `xref_repair` | 5 keys, 2 crashes | `FindSlotFinds`, `RepairFreesOnlyMissing`, `RepairAccounts`, `VerifyTerminates` |
| `db_open` | 3 programs (symmetric), word up to 3 | `Exclusion`, `StatusExact`, `NeverUndercounted`, `LockExcludesWriters`, `LockRespected` |
| `btree` | 5 keys, 1 record and "DELE", `NORECS` = `NOENTS` = 3 | `FreshFile`, `TreeSound`, `TraverseExact`, `DamageConfined`, `ImplementsKVStore`, `StoreEnds` |
| `report` | 3 persons in a cache of 2, 1 family and 1 event in caches of 1; nesting 3 | `CacheConsistent`, `HoldsExact`, `DiesOnlyOf`, `LockedStay`, `JumpReaches` |
| `lineage` | 3 persons, 2 families, 4 links (2 when cut short, then 1 command and the repair) | `LineageSound`, `DiesOnlyOf`, `KinSetsExact`, `KinKept`, `RepairMends` |
| `index` | 2 persons, 2 families, 1 source, 2 names, 1 REFN, 3 lines | `IndexExact`, `PersonRefnsUnique`, `GhostsGone` |
| `indiseq` | 3 persons, two of one name, 2 values, sets of 3, arrays of 2 | `FlagsTrue`, `SetOpsExact`, `LoopComplete` |
| `history` | 3 records, 2 of persons; buffers of 3, 2, 1 and 0, bounce suppression 0, 1, 2 | `ShownIsListed`, `ImplementsTrail` |
| `browse` | 3 persons in a cache of 2, 2 families, 1 source; lists of 2; 1 leaked object, 1 deleted key | `HandlesExact`, `ScreensFit` |
| `browse_lists` | 2 persons, 1 family, 1 source; 2 lists with names; 1 leaked object, 2 deleted keys | `ScreensFit` |
| `xref_repair_shift` | 4 keys, 1 crash | violated: `MarkedLiveIsNotFree` |

Why the bounds suffice.

- *Keys.* Three records give a free number below, between and above live ones, and a
  free list of two to bisect; the fourth gives an import with a gap in the middle and a
  number above the file. Two crashes are needed to have both a leaked number and a
  record on the free list. `MaxKey` bounds only the numbers handed out. The repair has
  five: a list of three below a live record is the shortest that its wrong shift doubles an
  entry in, and the fifth record is needed to delete what is above the list afterwards
  (`NoValids` then takes every key for free; with fewer keys `RepairAccounts` would hold
  without the condition that no number is listed twice).
- *Programs.* Two can race, the third holds the database meanwhile. `MaxCount` = 3 lets
  a dead reader's mark add to two live ones.
- *Tree.* The code computes `NORECS` and `NOENTS` from the size of a file header; 3 is
  the smallest value for which the code's halves are not empty. With it two keys fill
  a block and three children split an index, so five keys in any order give splits of the
  first, middle and last block, an index split whose middle separator moves up, two
  new masters, and indexes whose noted parent is out of date. Every key can be stored,
  replaced and deleted at any moment. `TraverseExact` compares every pair of bounds.
- *Reports.* Caches of one and two elements are the smallest in which a record is evicted
  because of another and a cache is full of locked records; with three persons one is
  always out.  `MaxDepth` = 3 is a loop in a loop in the body of the program, so every
  statement is run inside every other kind that `Nested` names. `MaxObject` = 2 record
  objects for one key are a removed one still held and its successor.  `MaxLost` and
  `MaxRpt` bound what a report piles up by repeating itself.
- *Lineage.* Three persons make a couple with a child, a chain of three generations, or two
  marriages of one person; two families are needed to merge, to have two sets of
  parents, and to move a child. A family names a person who is gone only after two
  commands, one cut short that leaves the person without his line and one that removes him.
  `MaxLater` = 1 allows one command after one that was cut short, and the repair after that.
  `RingSize` is 8 rather than 32, since the longest loops are as much shorter.
- *Indexes.* Three lines allow two persons of one name and one REFN for two records, or
  one record with a line twice.
- *Sets.* `Room` = 2 stands for the 20 elements after which the array moves, so that
  three persons make it move. The operands of a set operation are the variable and a
  set freshly made or a copy, which is every combination of flags the code can meet.
- *Histories.* A buffer of three wraps around, is full with a record before and after the
  one where it stands, and can have lost one entry or two to deletions; the options change
  at every start, so that each saved history is loaded into a larger and a smaller buffer.
  Nothing is counted, so the state space is finite without a bound.
- *Screens.* The third person evicts one that a screen may still hold; two families are
  enough for a screen of two; persons and families are symmetric.  `MaxObject` = 2 objects
  of one key are one that fell out of the cache while it is held and its successor.
  Commands go on until more than `MaxLeaked` objects have forgotten references, since what
  is leaked only makes an object live longer.  Lists have two records, which is what tandem
  browsing from a list takes.  `browse_lists` has the lists with names (`MaxNamed`): a list of
  two can lose a line or both, or keep those of records that are gone, while it is on
  the screen under its name or without, and can be added to another one. Nothing falls out
  of the caches there, which is what `browse` is for.

`db_open`, `btree`, `lineage`, `index` and both runs of `Browse` are checked without deadlock
detection: after a crash of the tree nothing happens any more, a key file that a dying
program left empty (`CreateFiles`) lets nobody in, and the commands after one that was cut
short are bounded by `MaxLater`, and the screens end where the program dies of an `ASSERT`
or the bounds on leaks are reached.

Fairness: `VerifyTerminates` assumes that dbverify goes on while it can (weak fairness
of `VerifyStep`), `StoreEnds` the same of `bt_addrecord` (weak fairness of `Step`). Both
are loops of one thread that waits for nobody. Nothing is assumed of the user, who may
never do anything, nor of crashes.

Every property has a mutant in `PROJECT.json`: a definition changed the way a bug would
change it (a dropped guard, a bound off by one, a missing write), under which TLC
finds the property violated. The mutants stand beside the definitions they change.

## 5. Where code and documents disagree

Shown by a run:

- `xref_repair_shift`: `delete_xref_if_present` moves the tail of the list one entry too
  short; repairing a live record on the free list can drop another entry and keep it. The
  entry that is doubled also makes a short list look full (`NoValids`), so that `check_set`
  leaves holes.

Met while modelling, and part of the models without a run of their own:

- `iso_nodes` (equaliso.c:155) finds each line of one list in the other but not the
  reverse; an edit that doubles one link line in place of another is accepted, although
  messages.c:402 says "You cannot edit the CHIL lines in a family record."
- The file `key` is written through a buffer nobody flushes (utils.c:170): a record whose
  storing was over is lost when the program dies after a new master was made, because the
  file still names the old master (btrec.c:324: "make changes permanent in database").
- `interp_parents` (interp.c:1281) returns `INTOKAY` whatever its body returned: a return,
  break or error in a loop over parents only leaves the loop (the manual,
  ll-reportmanual.xml:861, says that return leaves the procedure).
- Going forward in a history after a new visit or a clear reaches the stale entries that
  are still in the buffer; a smaller `HistorySize` than that of the program that saved keeps
  the oldest entries instead of the latest.
- Choosing from a history whose records were all deleted fails the `ASSERT` of
  `get_indiseq_ival` (indiseq.c:2151, from ask.c:460).
- After adding a source, event or other record, the answer "edit current" releases the
  reference that the screen has of its own record (browse.c:652, 1207 and the tops of the
  loops): `HandlesExact` excepts what follows (`robbed`).
- `ask_for_indi` takes records that are no persons from named lists and histories; the
  next screen asserts, or shows it as a person (`strayed`).
- dbverify leaves a family without members when all it names are gone, though every
  command removes a family with its last member (`FamiliesHaveMembers` excepts it).
- Merging two records with a line for one family or spouse and different lines below it ends
  the program after all is written (`KeptBoth` in `DiesOnlyOf`): `union_nodes` (merge.c:170)
  keeps both lines, while what is unlinked in the other records goes by the values.
- "Remove stale elements from lists", says brwslist.c:218 of `remove_from_browse_lists`, but
  only the deletion of a person calls it (remove.c:113), and `delete_indiseq` returns at once
  for any other key (indiseq.c:507). A family, source, event or other record that is deleted
  stays on the lists with names; when such a list is shown, the program dies of
  `ASSERT(rec)` (keytonod.c:727). A list that has lost its last line is still found, and
  asked for a person from it the program dies too (`AskInVain`). `ScreensFit` excepts both.
- Screens of two records and of lists never release any; `browse_aux` keeps its record when
  it is left through a history; `goto_indi_child` and `goto_fam_child` take one
  reference too many; `pick_remove_spouse_from_family` forgets the one it makes, and
  CMD_REMOVEASSPOUSE and CMD_REMOVEASCHILD that of the family that was chosen (`leaked`).
- Without write access dbverify disables three fixes and forgets `-D` and `-M`
  (dbverify.c:1529); the xrefs file is then changed while others read the database.
- `check_set` (dbverify.c:1066) does not notice that `xref_next` returned 0; with a record
  above `recs[0]`, as a deletion cut short leaves, dbverify dies in the repair (`MarkKeyZero`).
- Two programs that read the key file before either has written it both get write access;
  `Exclusion` therefore excepts the states after such a race (`raced`).
- `copy_indiseq` copies the flags KEYSORT and UNIQUED, but the copies of the elements have
  the sort key 0; set operations on the result of `choosesubset` that trust the flags go
  wrong (the manual, ll-reportmanual.xml:4901-4905, promises sets).  `choosesubset` also
  uses its argument after deleting the value that held it (more.c:503-505).
- `addtoset` drops a second entry of a person on the next operation, though the manual
  (4894) says that each may have a value of its own.
- Adding a 21st person to the set that is looped over moves the array and frees the one
  the loop walks (indiseq.c:426-433, indiseq.h:221-222); deleting the last element in the
  body makes the loop read behind the end. The model ends such a loop: `LoopComplete` is
  about the loops that the body leaves intact.
- Values of a set from `getindiset` do not survive a copy, and `ancestorset` and
  `descendantset` of it have no generation values (manual, 4937). `valuesort` of a set with
  such values dereferences a null pointer; `rename_indiseq` leaves NAMESORT set.
- `siblingset` and `gengedcom` use only the first FAMC of a person; `gengedcom` looks for
  "CHILD" lines where the tag is "CHIL"; the `continue` of `descendent_indiseq` skips the
  release of a record.

## 6. Proofs

TLAPS checks these for every value of the constants that the `ASSUME`s allow (any number
of keys, crashes, records, any size of node).

**Keys** (`XrefRepair_proof`, which begins with lemmas about each operator of `DeleteSet`). The
properties are not inductive: that the numbers are accounted for depends on where an
operation stands. `IInv` adds that memory and file agree while the file is open
(`Mirror`), that a key being deleted is already free (`DeletingFreed`), and how far an
import has come: the keys met, stored and left over partition the numbers up to the
highest of the file, and once all are met the leftover ones are not yet free
(`ImportSound`, `ImportCovers`). There is one lemma per action. From `Invariance` follow

- `TypeCorrect`, `FreeListStaysSorted` (unconditionally, whatever crashes),
- `DeleteSetAccounts`, `HandedOutIsUnused` (until a crash),
- `NumSetCounts`, which also counts: a strictly falling sequence has as many members as
  its length, and the live and the free numbers partition `1..recs[0]-1`.

`CrashCostsOnlyTaken` (a number is lost only by a crash, and only one that was taken for a
record not stored yet) needs an invariant of its own, since `IInv` says little of a database
after a crash: `LeakInv` adds that a key is free before its record is overwritten, and that
an import which left no hole accounts for every number, whether or not the program died
before. How many numbers a crash loses has no bound but the length of the import.

Assumed: `MaxKey` is a positive and `MaxCrashes` a natural number.

**Repair** (the second half of `XrefRepair_proof`). `IInv` does not survive dbverify: `check_set` can list a
key twice (section 5). What survives, over sessions, crashes and repairs, is `Base`: memory
and file agree and the list does not rise. `RInv` adds where the two cursors of the walk
stand: live records still to be compared are in order, those passed lie below the valid key
(`Comparing`), and while missing records are collected everything passed has no text
(`Collecting`). If the delete set was sound when dbverify began, it still is
(`SoundNow`). The proof attempt showed that soundness must include that no number is listed
twice; without it `NoValids` takes a short list for a full one, and holes are left.
`RepairFreesNoRecord` holds without condition, `RepairLeavesNoHole` from a sound
set. `FindSlotAlwaysFinds`: the bisection is a recursive function of its interval, so induction
is replaced by the shortest interval on which it would go wrong, whose half goes wrong too.

**Opening** (`DbOpen_proof`). `Exclusion` is not inductive: that an opening program does
not meet another depends on the word it read and has not yet overwritten. `Inv` adds what
each program has seen, by the phase it is in (`SeenFits`), which phases have the database
open (`ModeFits`), and, while nobody has raced or forced, that the word is -1 with a writer
in (`WriterMarked`) and at least the number of readers otherwise (`Counted`). A step that
writes the word without a race writes over the value its program saw, so each of `Mark`,
counting out, locking and creating can be followed by cases on that value. From it:
`WritersExclude`, `ReadersAreCounted`, `LockedIsNotWritten` and `LockIsKept`, and, inductive
together with `Inv`, `WordIsExact`: until somebody races, forces or dies with a mark in it, the
word of a database that is not locked is exactly the number of readers, or -1. Assumed: the programs are finitely many, `MaxCount` is positive.

**The block tree** (`BTree_proof`). First the file keys: `FreshFile` alone is not
inductive. `nextfkey` enumerates the pairs of directory and file in shells of equal
maximum; `Before` is that order, `NextFkeyForward` shows that each step goes strictly
forward, and the invariant `FileInv` is that every file, and the file key that a split
has taken but not yet written, come before the next one. `NewFilesAreFresh` follows: no
split, over any number of sessions, overwrites a node. (A crash ends the run of the
model; what a stale file key does after a database has been forced open is not covered.)

Then the tree itself. A tree (`Tree`) is a set of files with, for each, a span, the
numbers that the searches lead to it, and a height: each child of an index lies one
below it and has the part of the span that `ChildAt` sends there, and the spans at one
height are disjoint. No depth or shape is given, so nothing is recursive but reading,
and for that the heights suffice: `Leaf`, `Traverse` and `Depths` are what `CHOOSE` makes of an
equation, `SomeDescends` (`SomeTraverses`) shows that it has a solution wherever links go down,
and `ReadsTheSpan` that the search for k ends in the block whose span has k, even in
files of which only the nodes that k goes through are those of the tree.

In the middle of `bt_addrecord` the files are no tree. `TreeInv` therefore speaks of the
tree F that they would be if what the operation holds were written (one node of F may
have a key too many), and of the files G that a process that does not die leaves; it says
stage by stage in which files the two differ (`OnDisk`), that the indexes the descent came
through are a path of F and have noted the right parents (`Trail`), and that the blocks of F
already hold the record (`Stores`). The parents are the point: those of other indexes are
wrong after a split, and only because `Descend` corrects each index it passes does
`addkey` go up the same path (`KeyGoesUp`). There is one lemma per action. From
`TreeIsKept` follow

- `TreeStaysSound`: one link to each node, all blocks equally deep, room for one key where
  one is added, and the separator belongs in the index that `addkey` is given;
- `DamageStaysConfined`: after a crash a key outside the span of the node that was being
  changed meets no file in which G and F differ;
- `TreeIsAStore`: `Spec => KV!Spec`. `Promised` changes in the step that ends an
  operation, under its key only;
- `TraversalsAreExact`: the loop of `traverse_index` passes by no child that a key within
  the bounds leads to (`VisitsAll`), and since spans are in the order of the children, what
  it gets from them joins to one ascending list (`FlattenIs`).

Assumed: keys are finitely many positive numbers; a block has room for two keys and an index
overflows with two at the least (`NORECS >= 3`, `NOENTS >= 3`); "DELE" is not a record.

**Histories** (`History_proof`). For buffers of any size: the indices stay in range
(`TypeCorrect`), the record on the screen is in the list of visited ones
(`ListedWhileShown`; its `IInv` adds that entries are keys and that a screen shows a record the
database has), and `HistoryIsTrail`: the buffer implements the tape of `Trail`. The lemmas say
what each function of `struct hist` does to `Past` and `Rest`, the two arcs of the circle, as
sequences; going back passes over deleted records to the nearest one left, the least of a set
of distances (`WFMin`).

**Caches and reports** (`RecordCache_proof`, `Report_proof`). `RecordCache_proof` has two lemmas
for each function of `keytonod.c` and `record.c`: what it does to consistent caches
(`Consistent`) whose references are counted (`Counted` by any function `out` of the holders),
and how it can end the program. `Report_proof` instantiates `out` and the locks with what the
frames of the stack, the values let go of and the leaks hold (`Good`): a frame holds locks
of its body and a macro only while the body runs, and the frame of `main` holds nothing.
That is inductive for any nesting and any of the statements; of a statement the proof only
uses that its shape is `Sound`. From `Inv` follow

- `CachesAgree`: lists, table, elements and record objects agree, and a loop variable leads
  to the tree of its own record;
- `HoldsAccounted`: locks and references are exactly those of the running loops, on every
  way out, and between reports nothing but events is locked;
- `LockedTreesStay`: no step moves a locked element.

`JumpsReach` adds `JumpInv`: while a jump is under way its goal is what the frames that are
left on the stack would name (`TargetOf`). `DiesOnlyAsSaid` adds `DiesInv`: caches and loop
variables name only records that the database has, so a read never meets a missing record;
and of the records of one item only the first of two persons can be out of its cache when
values are made, for which the second must have taken the only element not locked
(`NewestStays`, `ReadItemDies`).

Assumed: types of keys, elements and record objects (`CacheAssumption`), statements used are
statements (`ReportAssumption`), `create_cache` puts each element once on the free list of
its cache (`FreeOrderAssumption`) and gives every cache one element at least
(`RoomAssumption`, keytonod.c:546).

**Indexes** (`RecordIndex_proof`). `IndexExact` speaks of the moments between commands; in the
middle of one, index and records disagree. `Inv` therefore says it of how things *will* be:
of each value and key, the writes that are left either decide nothing, or add the entry
(store the line), or take it away, and what they come to agrees (`StillFaithful`). A command
can be cut short at any write, after which `loose` leaves open only the entries it was to
change; so `Inv` also says that an entry which no write that is left touches is right at this
moment, and stays a line of the record whatever text is stored (`StillUntouched`). Each write
keeps both, for the writes that are left say less afterwards (`Gains`, `Leaves`); what remains
is to show that each command begins with writes that are `Planned`, one lemma for each.

For editing this needs what `classify_nodes` computes: a value is added or still in place
exactly if it is in the new text, provided that each value of the index is that of a line.
The lists are recursive functions; a solution exists because one up to a place can be
extended, and what it is follows from the smallest place at which it is not so, as in the
repair. From `Inv` follow

- `IndexAgrees`: `IndexExact`, for any texts, commands and deaths;
- `RefnsStayUnique`: while nothing was imported or cut short, at most one new text of a person
  is on its way, with REFNs that no other person has (`FreshPuts`), so what the check read
  in the index is still so when the record is stored;
- `GhostsAreGone`: while `-G` runs, there are as many ghosts as removals left
  (`GhostsLeft`), whichever it takes next, so none is left at the end.

Assumed: names and REFNs are different values, a person is no family, the keys are finitely
many, and the mark of a record that is not there is no text (`RecordIndexAssumption`).

**Screens** (`Browse_proof`, on the lemmas of `RecordCache_proof`). A screen of two, its
display and a command have never more than four handles at once, some of them none, and
`out` of `Counted` is their number together with the forgotten ones (`Out`). `Holds` says
this of what a step works on, and each function gets one lemma: `GetIs` adds a handle (asked
twice for one record, both are on the same object, which is what `goto_indi_child` relies
on), `DropIs` takes one off, `LeakIs` moves it to the forgotten ones, `DisplayIs` leaves them
while elements are locked and others read. The inductive `Inv` says that the screen has as
many handles as it shows records, but one for both after `CopyTopToBottom` (`Counts`), and
that what it shows fits it (`Formed`): only a screen of persons shares, only the screens
of a person and of a family have something in `save`. There is one lemma per command.
`IInv` adds `Tidy`: no list, on the screen or with a name, has a person who was deleted. It
needs no look at the handles, for a step leaves the lists and the database as they are, adds
a record, deletes one (`RemoveFromLists`), or names the list on the screen (`ListsChange`).
A step that finds no record behind a line only ends the program (`LostEnds`).
From it

- `HandlesAreExact`, without condition on the sizes of caches and lists;
- `ScreensStayFit`, if two records always find room (`Roomy`): the display of a record
  keeps its element locked while it reads another, so in a cache of one element, which the
  option -c allows, the program dies of want of one (llexec.c:154, keytonod.c:546). It says
  that persons never go stale on a list, and of a list that has the key of another deleted
  record, or no line left, that the program may die of it, as it does (section 5).

Assumed: `CacheAssumption`, and `FreeOrderAssumption` as for the reports.

**Only model-checked.** The liveness properties `VerifyTerminates` and `StoreEnds`, and
what recursive operators compute: sorting, set operations and relatives (`QuickSort`,
`IndiSeq`, `Relatives` have `RECURSIVE` operators, which `ReportSets` and the runs of
`Lineage` reach). Within reach but not yet proved: `LineageSound` and `DiesOnlyOf` of
`LineageDb`.

## 7. Not modelled

A partly written `xrefs` file or record file (the model's writes are whole, except that
rewriting an index first truncates it); failing calls of the operating system, after
which the program ends as in a crash; the shared file of the five delete sets, which do
not influence each other; paths, messages and the format of `KEYFILE2`; those checks of
dbverify that only report.

What a program does after it has used freed memory or freed it twice (such as after
remove.c:291): the models stop there with `doom` or `dead`, or leave the case out.

In the lineage: persons of unknown sex, link lines changed while a merged record is
edited. In the indexes: the soundex code and the sharing of an index record by several
names, REFNs of a family whose key is used again, links written as <refn>. In the
reports: the values of expressions, output, the parser. In the sets: locales, lists of
records other than persons, names that change while a set holds them, loops whose
variable is assigned another set. On the screens: the line on which a list stands, menus,
what happens after a screen has lost its reference or has got a record of another type
(`robbed`, `strayed`), and what deleting does to relatives, which is in `LineageDb`.

And the components that section 1 marks as planned or not modelled.
