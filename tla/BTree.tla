--------------------------------- MODULE BTree ---------------------------------
(***************************************************************************)
(* The block tree that holds the records of a LifeLines database (btree/). *)
(* Every node is a file of its own, named by a file key: index nodes hold  *)
(* separators and file keys of their children, blocks hold keys and        *)
(* records.  The file "key" names the master index and the next unused     *)
(* file key.  bt_addrecord goes down from the master to a block, rewrites  *)
(* it, splits it when it is full, and adds the new block to the parent     *)
(* (addkey), which may split in turn, up to a new master.  Each action     *)
(* below writes one file; the process may die between any two of them.     *)
(*                                                                         *)
(* The cache of 20 nodes is left out: it is written through (putindex), so *)
(* a node read through it is the node in the file.  Only "key" is written  *)
(* through a stdio buffer that nothing flushes: rewind flushes the write   *)
(* before, so the file lags one write behind the memory.                   *)
(***************************************************************************)
EXTENDS Integers, FiniteSets, SequencesExt

CONSTANTS
    Keys,       \* record keys, as numbers in the order of cmpkeys
    Records,    \* record texts other than "DELE"
    NORECS,     \* a block has fewer keys than this
    NOENTS      \* an index has at most NOENTS - 2 separators at rest

ASSUME KeysAssumption == Keys \subseteq Nat \ {0} /\ IsFiniteSet(Keys)
ASSUME RecordsAssumption == "DELE" \notin Records
ASSUME SizesAssumption == NORECS \in Nat /\ NORECS >= 3 /\ NOENTS \in Nat /\ NOENTS >= 3

VARIABLES
    up,         \* is the tree open?
    crashed,    \* did the process die with the tree open?
    kmem,       \* b_kfile: the file keys of the master and of the next file
    keyfile,    \* the same words in the file "key"
    files,      \* the node files, by file key
    op          \* bt_addrecord in progress

vars == << up, crashed, kmem, keyfile, files, op >>

-----------------------------------------------------------------------------
(* Nodes and file keys. *)

None == "none"
DELE == "DELE"

Index(parent, keys, kids) ==
    [type |-> "index", parent |-> parent, keys |-> keys, kids |-> kids]

Block(keys, recs) == [type |-> "block", keys |-> keys, recs |-> recs]

\* a file that is missing, or truncated and not yet written
Bad == [type |-> "bad"]

\* file key <<hi, lo>> is the file hi/lo; 0, the file aa/aa, is also "no parent"
NoParent == << 0, 0 >>

(* nextfkey: the file keys in shells of growing max(hi, lo). *)
\* one case too many counts hi up
NextFkeyMutant(f) ==
    IF f[1] = f[2] THEN << 0, f[2] >>
    ELSE IF f[1] > f[2] THEN << f[1], f[2] + 1 >>
    ELSE << f[1] + 1, f[2] >>

NextFkey(f) ==
    IF f[1] = f[2] THEN << 0, f[2] >>
    ELSE IF f[1] > f[2] THEN << f[1], f[2] + 1 >>
    ELSE IF f[1] < f[2] - 1 THEN << f[1] + 1, f[2] >>
    ELSE << f[1] + 2, 0 >>

\* the files with one more
WithFile(f, node) ==
    [ g \in (DOMAIN files) \cup {f} |-> IF g = f THEN node ELSE files[g] ]

\* the child to follow for key k: before the first separator above it
ChildAt(ix, k) ==
    LET above == { i \in 1..Len(ix.keys) : k < ix.keys[i] }
    IN  IF above = {} THEN Len(ix.keys) + 1
        ELSE CHOOSE i \in above : \A j \in above : i <= j

HasKey(b, k) == Contains(b.keys, k)

\* what the binary searches of btrec.c return on a sorted block
SlotOf(b, k) == Cardinality({ i \in 1..Len(b.keys) : b.keys[i] < k }) + 1

-----------------------------------------------------------------------------
(* Reading: bt_getrecord, and traverse_db_rec_rkeys with bounds lo and hi   *)
(* (0: none).                                                               *)

\* an index that is created and not yet filled leads nowhere
Leaf(root, k) ==
    LET down[f \in DOMAIN files] ==
          IF files[f].type = "index" /\ files[f].kids # << >>
          THEN down[files[f].kids[ChildAt(files[f], k)]] ELSE files[f]
    IN  down[root]

Lookup(root, k) ==
    LET b == Leaf(root, k)
    IN  IF b.type = "block" /\ HasKey(b, k) /\ b.recs[SlotOf(b, k)] # DELE
        THEN b.recs[SlotOf(b, k)] ELSE None

TraverseBlock(b, lo, hi) ==
    FlattenSeq([ i \in 1..Len(b.keys) |->
        IF lo < b.keys[i] /\ (hi # 0 => b.keys[i] <= hi) THEN << b.keys[i] >> ELSE << >> ])

\* the children that traverse_index visits
\* stops at a child that begins with hi
VisitedMutant(ix, lo, hi) ==
    LET from == IF lo = 0 THEN 1 ELSE ChildAt(ix, lo)
    IN  { i \in from..Len(ix.kids) :
            \A j \in from..i : j = 1 \/ hi = 0 \/ ix.keys[j - 1] < hi }

Visited(ix, lo, hi) ==
    LET from == IF lo = 0 THEN 1 ELSE ChildAt(ix, lo)
    IN  { i \in from..Len(ix.kids) :
            \A j \in from..i : j = 1 \/ hi = 0 \/ ix.keys[j - 1] <= hi }

Traverse(lo, hi) ==
    LET down[f \in DOMAIN files] ==
          IF files[f].type = "block" THEN TraverseBlock(files[f], lo, hi)
          ELSE FlattenSeq([ i \in 1..Len(files[f].kids) |->
                   IF i \in Visited(files[f], lo, hi) THEN down[files[f].kids[i]] ELSE << >> ])
    IN  down[kmem.mkey]

-----------------------------------------------------------------------------
(* The operation in progress: at: the next step; node: the file it is at,   *)
(* path: the indexes above (on the way up: the index itself and those       *)
(* above), each with the keys that are led through it, span: those of node; *)
(* left, right: what is to be written to node and to the new file extra;    *)
(* sep: the first key of right; before: what was stored when it began.      *)

Idle ==
    [at |-> "idle", key |-> 0, rec |-> None, before |-> << >>, path |-> << >>,
     node |-> NoParent, span |-> {}, left |-> Bad, right |-> Bad, extra |-> NoParent, sep |-> 0]

Contents(root) == [ k \in Keys |-> Lookup(root, k) ]

Init ==
    /\ up = TRUE /\ crashed = FALSE
    /\ kmem = [mkey |-> << 0, 0 >>, fkey |-> << 1, 1 >>]
    /\ keyfile = kmem
    /\ files = [ f \in { << 0, 0 >>, << 1, 0 >> } |->
                   IF f = << 0, 0 >> THEN Index(NoParent, << >>, << << 1, 0 >> >>)
                   ELSE Block(<< >>, << >>) ]
    /\ op = Idle

(* rewind, which flushes the write before, and fwrite of b_kfile. *)
WriteKeyFile(k) == kmem' = k /\ keyfile' = kmem

TakeFile == WriteKeyFile([kmem EXCEPT !.fkey = NextFkey(@)])

-----------------------------------------------------------------------------
(* bt_addrecord. *)

Store(k, r) ==
    /\ up /\ op = Idle
    /\ op' = [Idle EXCEPT !.at = "descend", !.key = k, !.rec = r,
                !.before = Contents(kmem.mkey), !.node = kmem.mkey, !.span = Keys]
    /\ UNCHANGED << up, crashed, kmem, keyfile, files >>

LastNode(path) == IF path = << >> THEN NoParent ELSE Last(path).node

(* Go down one index, and note in it, if need be, from where it was reached. *)
\* does not maintain the parent
DescendNoParentMutant ==
    /\ up /\ op.at = "descend" /\ files[op.node].type = "index"
    /\ LET ix == files[op.node]
           c == ChildAt(ix, op.key)
       IN  op' = [op EXCEPT !.node = ix.kids[c], !.span = { k \in @ : ChildAt(ix, k) = c },
                            !.path = Append(@, [node |-> op.node, span |-> op.span])]
    /\ UNCHANGED << up, crashed, kmem, keyfile, files >>

\* looks at the same index again
DescendStayMutant ==
    /\ up /\ op.at = "descend" /\ files[op.node].type = "index"
    /\ files' = [files EXCEPT ![op.node].parent = LastNode(op.path)]
    /\ UNCHANGED << up, crashed, kmem, keyfile, op >>

Descend ==
    /\ up /\ op.at = "descend" /\ files[op.node].type = "index"
    /\ LET ix == files[op.node]
           c == ChildAt(ix, op.key)
       IN  op' = [op EXCEPT !.node = ix.kids[c], !.span = { k \in @ : ChildAt(ix, k) = c },
                            !.path = Append(@, [node |-> op.node, span |-> op.span])]
    /\ files' = [files EXCEPT ![op.node].parent = LastNode(op.path)]
    /\ UNCHANGED << up, crashed, kmem, keyfile >>

\* the block with the record in it, replaced or new
Updated(b, k, r) ==
    LET i == SlotOf(b, k)
    IN  IF HasKey(b, k) THEN Block(b.keys, ReplaceAt(b.recs, i, r))
        ELSE Block(InsertAt(b.keys, i, k), InsertAt(b.recs, i, r))

MustSplit(b, k) == ~HasKey(b, k) /\ Len(b.keys) = NORECS - 1

RewriteBlock ==
    /\ up /\ op.at = "descend" /\ files[op.node].type = "block"
    /\ ~MustSplit(files[op.node], op.key)
    /\ op' = [op EXCEPT !.at = "unlink", !.left = Updated(files[op.node], op.key, op.rec)]
    /\ UNCHANGED << up, crashed, kmem, keyfile, files >>

\* the first n/2 entries stay, with n the number before the new one
LeftBlock(b) == LET h == (Len(b.keys) - 1) \div 2
                IN  Block(SubSeq(b.keys, 1, h), SubSeq(b.recs, 1, h))

\* drops the entry in the middle
RightBlockMutant(b) == LET h == (Len(b.keys) - 1) \div 2
                       IN  Block(SubSeq(b.keys, h + 2, Len(b.keys)), SubSeq(b.recs, h + 2, Len(b.keys)))

RightBlock(b) == LET h == (Len(b.keys) - 1) \div 2
                 IN  Block(SubSeq(b.keys, h + 1, Len(b.keys)), SubSeq(b.recs, h + 1, Len(b.keys)))

SplitBlock ==
    /\ up /\ op.at = "descend" /\ files[op.node].type = "block"
    /\ MustSplit(files[op.node], op.key)
    /\ LET b == Updated(files[op.node], op.key, op.rec)
       IN  op' = [op EXCEPT !.at = "unlink", !.left = LeftBlock(b), !.right = RightBlock(b),
                            !.extra = kmem.fkey, !.sep = RightBlock(b).keys[1]]
    /\ TakeFile
    /\ UNCHANGED << up, crashed, files >>

(* movefiles of the block: unlink, rename; and of the extra block.           *)
Unlink ==
    /\ up /\ op.at = "unlink"
    /\ files' = [files EXCEPT ![op.node] = Bad]
    /\ op' = [op EXCEPT !.at = "rename"]
    /\ UNCHANGED << up, crashed, kmem, keyfile >>

Rename ==
    /\ up /\ op.at = "rename"
    /\ files' = [files EXCEPT ![op.node] = op.left]
    /\ op' = IF op.right = Bad THEN Idle ELSE [op EXCEPT !.at = "renameextra"]
    /\ UNCHANGED << up, crashed, kmem, keyfile >>

RenameExtra ==
    /\ up /\ op.at = "renameextra"
    /\ files' = WithFile(op.extra, op.right)
    /\ op' = [op EXCEPT !.at = "addkey", !.node = LastNode(op.path), !.span = Last(op.path).span]
    /\ UNCHANGED << up, crashed, kmem, keyfile >>

-----------------------------------------------------------------------------
(* addkey(node, sep, extra). *)

WithKey(ix) ==
    LET i == ChildAt(ix, op.sep)
    IN  Index(ix.parent, InsertAt(ix.keys, i, op.sep), InsertAt(ix.kids, i + 1, op.extra))

Overfull(ix) == Len(ix.keys) >= NOENTS - 1

AddKey ==
    /\ up /\ op.at = "addkey"
    /\ ~Overfull(WithKey(files[op.node]))
    /\ files' = [files EXCEPT ![op.node] = WithKey(@)]
    /\ op' = Idle
    /\ UNCHANGED << up, crashed, kmem, keyfile >>

Half == NOENTS \div 2 - 1

LeftIndex(ix) == Index(ix.parent, SubSeq(ix.keys, 1, Half), SubSeq(ix.kids, 1, Half + 1))

RightIndex(ix) ==
    Index(NoParent, SubSeq(ix.keys, Half + 2, Len(ix.keys)), SubSeq(ix.kids, Half + 2, Len(ix.kids)))

\* crtindex: take a file key and write an empty index
CreateIndex == TakeFile /\ files' = WithFile(kmem.fkey, Index(NoParent, << >>, << >>))

SplitIndex ==
    /\ up /\ op.at = "addkey"
    /\ Overfull(WithKey(files[op.node]))
    /\ CreateIndex
    /\ LET ix == WithKey(files[op.node])
       IN  op' = [op EXCEPT !.at = "putindex", !.left = LeftIndex(ix), !.right = RightIndex(ix),
                            !.extra = kmem.fkey, !.sep = ix.keys[Half + 1]]
    /\ UNCHANGED << up, crashed >>

PutIndex ==
    /\ up /\ op.at = "putindex"
    /\ files' = [files EXCEPT ![op.node] = op.left]
    /\ op' = [op EXCEPT !.at = "putnewdex"]
    /\ UNCHANGED << up, crashed, kmem, keyfile >>

PutNewdex ==
    /\ up /\ op.at = "putnewdex"
    /\ files' = [files EXCEPT ![op.extra] = op.right]
    /\ op' = IF op.node = kmem.mkey THEN [op EXCEPT !.at = "crtmaster"]
             ELSE LET above == Front(op.path)
                  IN  [op EXCEPT !.at = "addkey", !.node = op.left.parent, !.path = above,
                                 !.span = IF above = << >> THEN {} ELSE Last(above).span]
    /\ UNCHANGED << up, crashed, kmem, keyfile >>

\* the new master's content: the old one and the index split off it
\* links the new half twice
MasterOverMutant(old, new) == Index(NoParent, << op.sep >>, << new, new >>)

MasterOver(old, new) == Index(NoParent, << op.sep >>, << old, new >>)

CreateMaster ==
    /\ up /\ op.at = "crtmaster"
    /\ CreateIndex
    /\ op' = [op EXCEPT !.at = "newmaster", !.left = MasterOver(op.node, op.extra), !.node = kmem.fkey]
    /\ UNCHANGED << up, crashed >>

NewMaster ==
    /\ up /\ op.at = "newmaster"
    /\ WriteKeyFile([kmem EXCEPT !.mkey = op.node])
    /\ op' = [op EXCEPT !.at = "writemaster"]
    /\ UNCHANGED << up, crashed, files >>

WriteMaster ==
    /\ up /\ op.at = "writemaster"
    /\ files' = [files EXCEPT ![op.node] = op.left]
    /\ op' = Idle
    /\ UNCHANGED << up, crashed, kmem, keyfile >>

-----------------------------------------------------------------------------
(* closebtree writes b_kfile and closes the file; bt_openbtree reads it.     *)

Close ==
    /\ up /\ op = Idle
    /\ up' = FALSE
    /\ keyfile' = kmem
    /\ UNCHANGED << crashed, kmem, files, op >>

Open ==
    /\ ~up /\ ~crashed
    /\ up' = TRUE
    /\ kmem' = keyfile
    /\ UNCHANGED << crashed, keyfile, files, op >>

(* The index file that writeindex (fopen "w", fwrite) writes next.           *)
WritingNext ==
    \/ op.at = "descend" /\ files[op.node].type = "index"
         /\ files[op.node].parent # LastNode(op.path)
    \/ op.at = "addkey" /\ ~Overfull(WithKey(files[op.node]))
    \/ op.at \in { "putindex", "writemaster" }

(* The process dies, between two steps or with an index file truncated.  What *)
(* it was doing (op) and what it held (kmem) are kept for the properties; the *)
(* next run finds keyfile and files.                                          *)
Crash ==
    /\ up
    /\ up' = FALSE /\ crashed' = TRUE
    /\ \/ files' = files
       \/ WritingNext /\ files' = [files EXCEPT ![op.node] = Bad]
    /\ UNCHANGED << kmem, keyfile, op >>

-----------------------------------------------------------------------------
Step ==
    \/ Descend \/ RewriteBlock \/ SplitBlock \/ Unlink \/ Rename \/ RenameExtra
    \/ AddKey \/ SplitIndex \/ PutIndex \/ PutNewdex
    \/ CreateMaster \/ NewMaster \/ WriteMaster

Next ==
    \/ \E k \in Keys, r \in Records \cup {DELE} : Store(k, r)
    \/ Step \/ Close \/ Open \/ Crash

Spec == Init /\ [][Next]_vars /\ WF_vars(Step)

-----------------------------------------------------------------------------
Fkeys == Nat \X Nat

IsNode(nd) ==
    \/ nd = Bad
    \/ /\ nd.type = "block"
       /\ nd.keys \in Seq(Keys) /\ nd.recs \in Seq(Records \cup {DELE})
       /\ Len(nd.keys) = Len(nd.recs)
    \/ /\ nd.type = "index"
       /\ nd.parent \in Fkeys /\ nd.keys \in Seq(Keys) /\ nd.kids \in Seq(Fkeys)
       /\ Len(nd.kids) = (IF nd.kids = << >> THEN 0 ELSE Len(nd.keys) + 1)

TypeOK ==
    /\ up \in BOOLEAN /\ crashed \in BOOLEAN
    /\ kmem \in [mkey : Fkeys, fkey : Fkeys] /\ keyfile \in [mkey : Fkeys, fkey : Fkeys]
    /\ DOMAIN files \subseteq Fkeys /\ \A f \in DOMAIN files : IsNode(files[f])
    /\ op.node \in Fkeys /\ op.extra \in Fkeys /\ IsNode(op.left) /\ IsNode(op.right)

(* crtblock and crtindex never take the file of a node that exists.           *)
FreshFile == kmem.fkey \notin DOMAIN files

(* Between operations every node but the master is the child of exactly one    *)
(* index, and all blocks are at the same depth: no split loses a node, links   *)
(* it twice or unbalances the tree.                                            *)
Links(f) ==
    { link \in (DOMAIN files) \X (1..NOENTS) :
        LET ix == files[link[1]]
        IN  ix.type = "index" /\ link[2] <= Len(ix.kids) /\ ix.kids[link[2]] = f }

Depths ==
    LET down[f \in DOMAIN files] ==
          IF files[f].type = "index" THEN UNION { { d + 1 : d \in down[g] } : g \in Range(files[f].kids) }
          ELSE { 0 }
    IN  down[kmem.mkey]

Balanced ==
    /\ TypeOK
    /\ op = Idle =>
       /\ Links(kmem.mkey) = {}
       /\ \A f \in DOMAIN files \ {kmem.mkey} : Cardinality(Links(f)) = 1
       /\ Cardinality(Depths) = 1

(* No operation ends the program: the checks "Corrupt block", "Index found      *)
(* overfull" and "addkey called with entry already present" never fail, and the *)
(* precondition of addkey.c holds: "This key belongs in this index block".  The *)
(* parents that lead a split upwards are maintained lazily, on the way down, and*)
(* an index split leaves those of the children it moved wrong; still every      *)
(* addkey is given the index that the descent came through.                     *)
NoFatal ==
    /\ op.at = "descend" /\ files[op.node].type = "block" => Len(files[op.node].keys) < NORECS
    /\ op.at = "addkey" => /\ op.path # << >> /\ op.node = Last(op.path).node
                           /\ op.sep \in op.span
    /\ op.at = "addkey" /\ up => /\ Len(files[op.node].keys) < NOENTS - 1
                                 /\ ~Contains(files[op.node].keys, op.sep)

(* The shape of the tree and what the code asserts of it, through every split. *)
TreeSound == Balanced /\ NoFatal

(* A traversal visits each key above lo and up to hi, once, in ascending order.  *)
StoredKeys == UNION { Range(files[f].keys) : f \in { g \in DOMAIN files : files[g].type = "block" } }

TraverseExact ==
    op = Idle => \A lo, hi \in Keys \cup {0} :
       LET t == Traverse(lo, hi)
       IN  /\ \A i, j \in 1..Len(t) : i < j => t[i] < t[j]
           /\ Range(t) = { k \in StoredKeys : lo < k /\ (hi # 0 => k <= hi) }

(* What has been stored when an operation is over or under way.                  *)
Promised == IF op = Idle THEN Contents(kmem.mkey) ELSE op.before

(* A process that dies while it adds a record damages at most the part of the    *)
(* tree below the node it was changing, unless the master was split since "key"  *)
(* was last flushed: every other record can be read as before.                   *)
DamageConfined ==
    crashed /\ keyfile.mkey = kmem.mkey =>
       \A k \in Keys \ op.span : Lookup(keyfile.mkey, k) = Promised[k]

(* The tree is a key-value store.                                                *)
KV == INSTANCE KVStore WITH store <- Promised

ImplementsKVStore == KV!Spec

(* Every bt_addrecord ends, however far the split goes up.                       *)
StoreEnds == op # Idle ~> op = Idle \/ crashed
=============================================================================
