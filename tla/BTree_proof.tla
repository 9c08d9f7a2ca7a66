----------------------------- MODULE BTree_proof -----------------------------
(***************************************************************************)
(* The block tree, for every set of keys and records and every size of     *)
(* block and index.                                                        *)
(*                                                                         *)
(* First the file keys.  nextfkey enumerates them shell by shell, a shell  *)
(* being the keys with the same max(hi, lo); Before is the order in which  *)
(* it does.  The invariant FileInv is that every file, and the file key    *)
(* held by the operation in progress, come before the next file key: a new *)
(* block or index never takes the file of a node that exists.              *)
(*                                                                         *)
(* Then the tree.  The invariant TreeInv says that there is a tree F, with *)
(* a span of numbers and a height for each node, that the files would be   *)
(* if what the operation in progress holds were written; that what the     *)
(* operation is to store is in its blocks already; and that the descent is *)
(* a path of F whose indexes have noted the right parents.  From a tree    *)
(* follow the shape (one link to each node, all blocks equally deep) and,  *)
(* since the spans of the nodes at one height are disjoint, that a search  *)
(* reads the block that has the key, also in files that are not yet F.     *)
(***************************************************************************)
EXTENDS BTree, SequenceTheorems, FiniteSetTheorems, WellFoundedInduction, TLAPS

Shell(f) == IF f[1] >= f[2] THEN f[1] ELSE f[2]

Place(f) == IF f[1] >= f[2] THEN f[2] ELSE f[2] + 1 + f[1]

Before(f, g) ==
    \/ Shell(f) < Shell(g)
    \/ Shell(f) = Shell(g) /\ Place(f) < Place(g)

(* nextfkey goes strictly forward in this order, and never back to aa/aa.    *)
LEMMA NextFkeyForward ==
    ASSUME NEW f \in Fkeys, f # NoParent
    PROVE  /\ NextFkey(f) \in Fkeys
           /\ NextFkey(f) # NoParent
           /\ Before(f, NextFkey(f))
<1> DEFINE hi == f[1]
           lo == f[2]
<1>1. hi \in Nat /\ lo \in Nat /\ f = << hi, lo >>
  BY DEF Fkeys
<1>2. hi # 0 \/ lo # 0
  BY <1>1 DEF NoParent
<1>3. CASE hi = lo
  <2>1. NextFkey(f) = << 0, lo >>
    BY <1>3 DEF NextFkey
  <2> QED  BY <1>1, <1>2, <1>3, <2>1 DEF Fkeys, NoParent, Before, Shell, Place
<1>4. CASE hi > lo
  <2>1. NextFkey(f) = << hi, lo + 1 >>
    BY <1>1, <1>4 DEF NextFkey
  <2> QED  BY <1>1, <1>4, <2>1 DEF Fkeys, NoParent, Before, Shell, Place
<1>5. CASE hi < lo - 1
  <2>1. NextFkey(f) = << hi + 1, lo >>
    BY <1>1, <1>5 DEF NextFkey
  <2> QED  BY <1>1, <1>5, <2>1 DEF Fkeys, NoParent, Before, Shell, Place
<1>6. CASE hi = lo - 1
  <2>1. NextFkey(f) = << hi + 2, 0 >>
    BY <1>1, <1>6 DEF NextFkey
  <2> QED  BY <1>1, <1>6, <2>1 DEF Fkeys, NoParent, Before, Shell, Place
<1> QED  BY <1>1, <1>3, <1>4, <1>5, <1>6

LEMMA BeforeIsTransitive ==
    ASSUME NEW f, NEW g, NEW h,
           Shell(f) \in Int, Shell(g) \in Int, Shell(h) \in Int,
           Place(f) \in Int, Place(g) \in Int, Place(h) \in Int,
           Before(f, g), Before(g, h)
    PROVE  Before(f, h)
BY DEF Before

LEMMA OrderTypes ==
    ASSUME NEW f \in Fkeys
    PROVE  Shell(f) \in Int /\ Place(f) \in Int /\ ~Before(f, f)
<1>1. f[1] \in Nat /\ f[2] \in Nat
  BY DEF Fkeys
<1> QED  BY <1>1 DEF Shell, Place, Before

-----------------------------------------------------------------------------
KeyWords == kmem = [mkey |-> kmem.mkey, fkey |-> kmem.fkey]

NextFile == kmem.fkey \in Fkeys /\ kmem.fkey # NoParent

FilesBefore ==
    /\ DOMAIN files \subseteq Fkeys
    /\ \A f \in DOMAIN files : Before(f, kmem.fkey)

ExtraBefore ==
    /\ DOMAIN op = DOMAIN Idle
    /\ op.extra \in Fkeys /\ Before(op.extra, kmem.fkey)

Flushed == ~up /\ ~crashed => keyfile = kmem

FileInv == KeyWords /\ NextFile /\ FilesBefore /\ ExtraBefore /\ Flushed

LEMMA FileInvInit == Init => FileInv
<1> SUFFICES ASSUME Init PROVE FileInv
  OBVIOUS
<1>1. kmem = [mkey |-> << 0, 0 >>, fkey |-> << 1, 1 >>] /\ up = TRUE /\ op = Idle
  BY DEF Init
<1>2. KeyWords /\ NextFile /\ Flushed
  BY <1>1 DEF KeyWords, NextFile, Flushed, Fkeys, NoParent
<1>3. DOMAIN files = { << 0, 0 >>, << 1, 0 >> }
  BY DEF Init
<1>4. FilesBefore
  BY <1>1, <1>3 DEF FilesBefore, Fkeys, Before, Shell, Place
<1>5. ExtraBefore
  BY <1>1 DEF ExtraBefore, Idle, NoParent, Fkeys, Before, Shell, Place
<1> QED  BY <1>2, <1>4, <1>5 DEF FileInv

(* Only crtblock and crtindex change the next file key, and go forward.        *)
LEMMA TakeFileForward ==
    ASSUME KeyWords, NextFile, TakeFile
    PROVE  /\ KeyWords' /\ NextFile'
           /\ kmem'.fkey = NextFkey(kmem.fkey)
           /\ Before(kmem.fkey, kmem'.fkey)
           /\ \A f \in Fkeys : Before(f, kmem.fkey) => Before(f, kmem'.fkey)
<1>1. kmem' = [kmem EXCEPT !.fkey = NextFkey(@)]
  BY DEF TakeFile, WriteKeyFile
<1>2. kmem'.fkey = NextFkey(kmem.fkey) /\ KeyWords'
  BY <1>1 DEF KeyWords
<1>3. NextFile' /\ Before(kmem.fkey, kmem'.fkey)
  BY <1>2, NextFkeyForward DEF NextFile
<1>4. ASSUME NEW f \in Fkeys, Before(f, kmem.fkey)
      PROVE  Before(f, kmem'.fkey)
  <2>1. kmem.fkey \in Fkeys /\ kmem'.fkey \in Fkeys
    BY <1>3 DEF NextFile
  <2> QED  BY <1>3, <1>4, <2>1, OrderTypes, BeforeIsTransitive
<1> QED  BY <1>2, <1>3, <1>4

(* A step that neither takes a file key nor adds a file, nor changes extra.    *)
LEMMA QuietStep ==
    ASSUME FileInv,
           kmem' = [kmem EXCEPT !.mkey = kmem'.mkey],
           DOMAIN files' = DOMAIN files,
           DOMAIN op' = DOMAIN Idle, op'.extra \in { op.extra, NoParent },
           Flushed'
    PROVE  FileInv'
<1>1. kmem'.fkey = kmem.fkey /\ KeyWords'
  BY DEF FileInv, KeyWords
<1>2. NextFile' /\ FilesBefore'
  BY <1>1 DEF FileInv, NextFile, FilesBefore
<1>3. Before(NoParent, kmem.fkey) /\ NoParent \in Fkeys
  <2>1. kmem.fkey[1] \in Nat /\ kmem.fkey[2] \in Nat
        /\ kmem.fkey = << kmem.fkey[1], kmem.fkey[2] >> /\ kmem.fkey # << 0, 0 >>
    BY DEF FileInv, NextFile, Fkeys, NoParent
  <2>2. kmem.fkey[1] # 0 \/ kmem.fkey[2] # 0
    BY <2>1
  <2> QED  BY <2>1, <2>2 DEF NoParent, Before, Shell, Place, Fkeys
<1>4. ExtraBefore'
  BY <1>1, <1>3 DEF FileInv, ExtraBefore
<1> QED  BY <1>1, <1>2, <1>4 DEF FileInv

(* The operation at rest holds no file key.                                     *)
LEMMA IdleHoldsNone == Idle.extra = NoParent
BY DEF Idle

(* The actions that rewrite a node, or only move on.                            *)
LEMMA QuietActions ==
    ASSUME FileInv,
           \/ \E k \in Keys, r \in Records \cup {DELE} : Store(k, r)
           \/ Descend \/ RewriteBlock \/ Unlink \/ Rename
           \/ AddKey \/ PutIndex \/ PutNewdex \/ WriteMaster \/ NewMaster
           \/ Close \/ Open \/ Crash \/ UNCHANGED vars
    PROVE  FileInv'
<1> USE DEF FileInv, KeyWords, ExtraBefore, Flushed
<1>1. CASE \E k \in Keys, r \in Records \cup {DELE} : Store(k, r)
  <2>1. PICK k \in Keys, r \in Records \cup {DELE} : Store(k, r)
    BY <1>1
  <2> DEFINE c == Contents(kmem.mkey)
  <2>2. op' = [Idle EXCEPT !.at = "descend", !.key = k, !.rec = r,
                 !.before = c, !.node = kmem.mkey, !.span = Keys]
    BY <2>1 DEF Store
  <2> HIDE DEF c
  <2>3. DOMAIN op' = DOMAIN Idle
    BY <2>2
  <2>4. op'.extra = NoParent
    BY <2>2 DEF Idle
  <2>5. up' = up /\ crashed' = crashed /\ kmem' = kmem /\ keyfile' = keyfile /\ files' = files
    BY <2>1 DEF Store
  <2> QED  BY <2>3, <2>4, <2>5, QuietStep
<1>2. CASE Descend
  BY <1>2, QuietStep DEF Descend
<1>3. CASE RewriteBlock
  BY <1>3, QuietStep DEF RewriteBlock
<1>4. CASE Unlink
  BY <1>4, QuietStep DEF Unlink
<1>5. CASE Rename
  BY <1>5, QuietStep, IdleHoldsNone DEF Rename
<1>6. CASE AddKey
  BY <1>6, QuietStep, IdleHoldsNone DEF AddKey
<1>7. CASE PutIndex
  BY <1>7, QuietStep DEF PutIndex
<1>8. CASE PutNewdex
  BY <1>8, QuietStep DEF PutNewdex
<1>9. CASE WriteMaster
  BY <1>9, QuietStep, IdleHoldsNone DEF WriteMaster
<1>10. CASE NewMaster
  BY <1>10, QuietStep DEF NewMaster, WriteKeyFile
<1>11. CASE Close
  BY <1>11, QuietStep DEF Close
<1>12. CASE Open
  BY <1>12, QuietStep DEF Open
<1>13. CASE Crash
  BY <1>13, QuietStep DEF Crash
<1>14. CASE UNCHANGED vars
  BY <1>14, QuietStep DEF vars
<1> QED  BY <1>1, <1>2, <1>3, <1>4, <1>5, <1>6, <1>7, <1>8, <1>9, <1>10, <1>11, <1>12, <1>13, <1>14

(* A block split takes the next file key for the new block.                     *)
LEMMA SplitBlockStep == FileInv /\ SplitBlock => FileInv'
<1> SUFFICES ASSUME FileInv, SplitBlock PROVE FileInv'
  OBVIOUS
<1>1. /\ KeyWords' /\ NextFile'
      /\ Before(kmem.fkey, kmem'.fkey)
      /\ \A f \in Fkeys : Before(f, kmem.fkey) => Before(f, kmem'.fkey)
  BY TakeFileForward DEF FileInv, SplitBlock
<1>2. FilesBefore'
  BY <1>1 DEF FileInv, FilesBefore, SplitBlock
<1>3. op'.extra = kmem.fkey /\ DOMAIN op' = DOMAIN op
  <2> DEFINE b == Updated(files[op.node], op.key, op.rec)
             l == LeftBlock(b)
             r == RightBlock(b)
             s == r.keys[1]
  <2>1. op' = [op EXCEPT !.at = "unlink", !.left = l, !.right = r, !.extra = kmem.fkey, !.sep = s]
    BY DEF SplitBlock
  <2> HIDE DEF b, l, r, s
  <2>2. "extra" \in DOMAIN op
    BY DEF FileInv, ExtraBefore, Idle
  <2> QED  BY <2>1, <2>2
<1>4. ExtraBefore'
  BY <1>1, <1>3 DEF FileInv, ExtraBefore, NextFile
<1>5. Flushed'
  BY DEF SplitBlock, Flushed
<1> QED  BY <1>1, <1>2, <1>4, <1>5 DEF FileInv

(* The new block is renamed to the file key that the split took.                *)
LEMMA RenameExtraStep == FileInv /\ RenameExtra => FileInv'
<1> SUFFICES ASSUME FileInv, RenameExtra PROVE FileInv'
  OBVIOUS
<1>1. kmem' = kmem /\ up' = up /\ crashed' = crashed /\ keyfile' = keyfile
  BY DEF RenameExtra
<1>2. DOMAIN files' = (DOMAIN files) \cup {op.extra}
  BY DEF RenameExtra, WithFile
<1>3. KeyWords' /\ NextFile' /\ Flushed'
  BY <1>1 DEF FileInv, KeyWords, NextFile, Flushed
<1>4. FilesBefore'
  BY <1>1, <1>2 DEF FileInv, FilesBefore, ExtraBefore
<1>5. op'.extra = op.extra /\ DOMAIN op' = DOMAIN op
  BY DEF RenameExtra, FileInv, ExtraBefore
<1>6. ExtraBefore'
  BY <1>1, <1>5 DEF FileInv, ExtraBefore
<1> QED  BY <1>3, <1>4, <1>6 DEF FileInv

(* crtindex takes the next file key and writes that file at once.               *)
LEMMA CreateIndexStep ==
    ASSUME FileInv, CreateIndex, up, up' = up,
           DOMAIN op' = DOMAIN op, op'.extra \in { op.extra, kmem.fkey }
    PROVE  FileInv'
<1>1. /\ KeyWords' /\ NextFile'
      /\ Before(kmem.fkey, kmem'.fkey)
      /\ \A f \in Fkeys : Before(f, kmem.fkey) => Before(f, kmem'.fkey)
  BY TakeFileForward DEF FileInv, CreateIndex
<1>2. DOMAIN files' = (DOMAIN files) \cup {kmem.fkey}
  BY DEF CreateIndex, WithFile
<1>3. kmem.fkey \in Fkeys
  BY DEF FileInv, NextFile
<1>4. FilesBefore'
  BY <1>1, <1>2, <1>3 DEF FileInv, FilesBefore
<1>5. ExtraBefore'
  BY <1>1, <1>3 DEF FileInv, ExtraBefore
<1> QED  BY <1>1, <1>4, <1>5 DEF FileInv, Flushed

LEMMA SplitIndexStep == FileInv /\ SplitIndex => FileInv'
<1> SUFFICES ASSUME FileInv, SplitIndex PROVE FileInv'
  OBVIOUS
<1> DEFINE ix == WithKey(files[op.node])
           l == LeftIndex(ix)
           r == RightIndex(ix)
           s == ix.keys[Half + 1]
<1>1. op' = [op EXCEPT !.at = "putindex", !.left = l, !.right = r, !.extra = kmem.fkey, !.sep = s]
  BY DEF SplitIndex
<1> HIDE DEF ix, l, r, s
<1>2. "extra" \in DOMAIN op
  BY DEF FileInv, ExtraBefore, Idle
<1>3. DOMAIN op' = DOMAIN op /\ op'.extra = kmem.fkey
  BY <1>1, <1>2
<1> QED  BY <1>3, CreateIndexStep DEF SplitIndex

LEMMA CreateMasterStep == FileInv /\ CreateMaster => FileInv'
<1> SUFFICES ASSUME FileInv, CreateMaster PROVE FileInv'
  OBVIOUS
<1> DEFINE m == MasterOver(op.node, op.extra)
<1>1. op' = [op EXCEPT !.at = "newmaster", !.left = m, !.node = kmem.fkey]
  BY DEF CreateMaster
<1> HIDE DEF m
<1>2. DOMAIN op' = DOMAIN op /\ op'.extra = op.extra
  BY <1>1
<1> QED  BY <1>2, CreateIndexStep DEF CreateMaster

(* FileInv is inductive.                                                        *)
LEMMA FileInvNext == FileInv /\ [Next]_vars => FileInv'
BY QuietActions, SplitBlockStep, RenameExtraStep, SplitIndexStep, CreateMasterStep DEF Next, Step

-----------------------------------------------------------------------------
(* Every file of the tree, and the file key that a split under way has taken,   *)
(* come before the next file key in the order of nextfkey.                      *)
THEOREM FilesAreBefore == Spec => []FileInv
<1>1. Init => FileInv
  BY FileInvInit
<1>2. FileInv /\ [Next]_vars => FileInv'
  BY FileInvNext
<1> QED  BY <1>1, <1>2, PTL DEF Spec

(* crtblock and crtindex never take the file of a node that exists, over any    *)
(* number of splits and of sessions of the program, until a process dies.       *)
THEOREM NewFilesAreFresh == Spec => []FreshFile
<1>1. FileInv => FreshFile
  <2> SUFFICES ASSUME FileInv PROVE kmem.fkey \notin DOMAIN files
    BY DEF FreshFile
  <2>1. kmem.fkey \in Fkeys
    BY DEF FileInv, NextFile
  <2>2. ~Before(kmem.fkey, kmem.fkey)
    BY <2>1, OrderTypes
  <2> QED  BY <2>2 DEF FileInv, FilesBefore
<1> QED  BY <1>1, FilesAreBefore, PTL

-----------------------------------------------------------------------------
(* Sequences, and the place of a key in an ascending one.                       *)

(* A set of numbers that is not empty has a smallest one.                       *)
LEMMA SmallestExists ==
    ASSUME NEW S \in SUBSET Nat, S # {}
    PROVE  \E m \in S : \A k \in S : m <= k
<1>1. PICK m \in S : \A k \in S : ~(<<k, m>> \in OpToRel(<, Nat))
  BY NatLessThanWellFounded, WFMin
<1>2. \A k \in S : m <= k
  <2> SUFFICES ASSUME NEW k \in S, k < m
               PROVE  FALSE
    OBVIOUS
  <2>1. <<k, m>> \in Nat \X Nat /\ <<k, m>>[1] < <<k, m>>[2]
    OBVIOUS
  <2>2. <<k, m>> \in OpToRel(<, Nat)
    BY <2>1 DEF OpToRel
  <2> QED  BY <1>1, <2>2
<1> QED  BY <1>2

(* InsertAt puts e in the i-th place and moves the rest up by one.            *)
LEMMA InsertAtIs ==
    ASSUME NEW S, NEW q \in Seq(S), NEW e \in S, NEW i \in 1..(Len(q) + 1)
    PROVE  /\ InsertAt(q, i, e) \in Seq(S)
           /\ Len(InsertAt(q, i, e)) = Len(q) + 1
           /\ \A j \in 1..(Len(q) + 1) :
                InsertAt(q, i, e)[j] = IF j < i THEN q[j] ELSE IF j = i THEN e ELSE q[j - 1]
<1> DEFINE a == SubSeq(q, 1, i - 1)
           b == SubSeq(q, i, Len(q))
           n == Len(q)
<1>1. n \in Nat /\ \A j \in 1..n : q[j] \in S
  OBVIOUS
<1>2. a \in Seq(S) /\ Len(a) = i - 1 /\ \A j \in 1..(i - 1) : a[j] = q[j]
  <2>1. \A j \in 1..(i - 1) : q[j] \in S
    BY <1>1
  <2>2. /\ a \in Seq(S) /\ Len(a) = IF 1 <= i - 1 THEN (i - 1) - 1 + 1 ELSE 0
        /\ \A j \in 1..((i - 1) - 1 + 1) : a[j] = q[1 + j - 1]
    BY <2>1, SubSeqProperties
  <2> HIDE DEF a
  <2> QED  BY <2>2
<1>3. b \in Seq(S) /\ Len(b) = n - i + 1 /\ \A j \in 1..(n - i + 1) : b[j] = q[i + j - 1]
  <2>1. \A j \in i..n : q[j] \in S
    BY <1>1
  <2>2. /\ b \in Seq(S) /\ Len(b) = IF i <= n THEN n - i + 1 ELSE 0
        /\ \A j \in 1..(n - i + 1) : b[j] = q[i + j - 1]
    BY <1>1, <2>1, SubSeqProperties
  <2> HIDE DEF b
  <2> QED  BY <1>1, <2>2
<1> HIDE DEF a, b
<1>4. <<e>> \in Seq(S) /\ Len(<<e>>) = 1 /\ <<e>>[1] = e
  OBVIOUS
<1>5. /\ a \o <<e>> \in Seq(S) /\ Len(a \o <<e>>) = i
      /\ \A j \in 1..i : (a \o <<e>>)[j] = IF j <= i - 1 THEN a[j] ELSE <<e>>[j - (i - 1)]
  BY <1>2, <1>4, ConcatProperties
<1> DEFINE c == a \o <<e>>
<1>6. \A j \in 1..i : c[j] = IF j < i THEN q[j] ELSE e
  <2> TAKE j \in 1..i
  <2>1. CASE j < i
    <3>1. j <= i - 1 /\ j \in 1..(i - 1)
      BY <2>1
    <3> QED  BY <1>2, <1>5, <2>1, <3>1
  <2>2. CASE j = i
    <3>1. ~(j <= i - 1) /\ j - (i - 1) = 1
      BY <2>2
    <3> QED  BY <1>4, <1>5, <2>2, <3>1
  <2>3. j < i \/ j = i
    BY <1>1
  <2> HIDE DEF c
  <2> QED  BY <1>1, <2>1, <2>2, <2>3
<1>7. c \in Seq(S) /\ Len(c) = i
  BY <1>5
<1> HIDE DEF c
<1>8. /\ c \o b \in Seq(S) /\ Len(c \o b) = i + (n - i + 1)
      /\ \A j \in 1..(i + (n - i + 1)) : (c \o b)[j] = IF j <= i THEN c[j] ELSE b[j - i]
  BY <1>3, <1>7, ConcatProperties
<1>9. InsertAt(q, i, e) = c \o b
  BY DEF InsertAt, a, b, c
<1>10. i + (n - i + 1) = n + 1
  BY <1>1
<1>11. ASSUME NEW j \in 1..(n + 1)
       PROVE  (c \o b)[j] = IF j < i THEN q[j] ELSE IF j = i THEN e ELSE q[j - 1]
  <2>1. (c \o b)[j] = IF j <= i THEN c[j] ELSE b[j - i]
    BY <1>8, <1>10
  <2>2. CASE j <= i
    <3>1. j \in 1..i
      BY <2>2
    <3> QED  BY <1>6, <2>1, <2>2, <3>1
  <2>3. CASE ~(j <= i)
    <3>1. j - i \in 1..(n - i + 1) /\ i + (j - i) - 1 = j - 1 /\ ~(j < i) /\ j # i
      BY <1>1, <2>3
    <3>2. b[j - i] = q[i + (j - i) - 1]
      BY <1>3, <3>1
    <3> QED  BY <2>1, <2>3, <3>1, <3>2
  <2> QED  BY <2>2, <2>3
<1> QED  BY <1>8, <1>9, <1>10, <1>11

(* SubSeq of a part that is there.                                            *)
LEMMA SubSeqIs ==
    ASSUME NEW S, NEW q \in Seq(S), NEW a \in 1..(Len(q) + 1), NEW b \in 0..Len(q), a <= b + 1
    PROVE  /\ SubSeq(q, a, b) \in Seq(S)
           /\ Len(SubSeq(q, a, b)) = b - a + 1
           /\ \A j \in 1..(b - a + 1) : SubSeq(q, a, b)[j] = q[a + j - 1]
<1>1. \A j \in a..b : q[j] \in S
  OBVIOUS
<1>2. /\ SubSeq(q, a, b) \in Seq(S)
      /\ Len(SubSeq(q, a, b)) = IF a <= b THEN b - a + 1 ELSE 0
      /\ \A j \in 1..(b - a + 1) : SubSeq(q, a, b)[j] = q[a + j - 1]
  BY <1>1, SubSeqProperties
<1>3. (IF a <= b THEN b - a + 1 ELSE 0) = b - a + 1
  OBVIOUS
<1> QED  BY <1>2, <1>3

(* What the binary searches of btrec.c and addkey.c need of the keys of a     *)
(* node.                                                                      *)
Ascending(q) == \A i, j \in 1..Len(q) : i < j => q[i] < q[j]

(* The record keys are numbers other than 0.                                  *)
LEMMA KeysAreNumbers == Keys \subseteq Nat \ {0}
  BY KeysAssumption

(* What puts k in the i-th place of the children of an index, or before the     *)
(* i-th key.                                                                    *)
Parts(q, n, i) ==
    /\ i \in 1..(Len(q) + 1)
    /\ \A j \in 1..Len(q) : (j < i => q[j] <= n) /\ (j >= i => n < q[j])

(* An ascending sequence is parted by each number.                            *)
LEMMA PartsExists ==
    ASSUME NEW q \in Seq(Nat), Ascending(q), NEW n \in Nat
    PROVE  \E i \in 1..(Len(q) + 1) : Parts(q, n, i)
<1> DEFINE T == { i \in 1..(Len(q) + 1) : i = Len(q) + 1 \/ n < q[i] }
<1>1. T \in SUBSET Nat /\ Len(q) + 1 \in T /\ Len(q) \in Nat /\ \A j \in 1..Len(q) : q[j] \in Nat
  OBVIOUS
<1>2. PICK i \in T : \A k \in T : i <= k
  <2> HIDE DEF T
  <2> QED  BY <1>1, SmallestExists
<1>3. i \in 1..(Len(q) + 1) /\ (i = Len(q) + 1 \/ n < q[i])
  BY <1>2
<1>4. ASSUME NEW j \in 1..Len(q)
      PROVE  (j < i => q[j] <= n) /\ (j >= i => n < q[j])
  <2>1. CASE j < i
    <3>1. j \notin T /\ j \in 1..(Len(q) + 1)
      BY <1>1, <1>2, <2>1
    <3>2. ~(n < q[j]) /\ ~(j >= i)
      BY <1>1, <1>3, <2>1, <3>1
    <3> QED  BY <1>1, <3>2
  <2>2. CASE j = i
    BY <1>1, <1>3, <2>2
  <2>3. CASE j > i
    <3>1. n < q[i] /\ i \in 1..Len(q)
      BY <1>1, <1>3, <2>3
    <3>2. q[i] < q[j]
      BY <1>1, <2>3, <3>1 DEF Ascending
    <3> QED  BY <1>1, <2>3, <3>1, <3>2
  <2> QED  BY <1>1, <1>3, <2>1, <2>2, <2>3
<1> QED  BY <1>3, <1>4 DEF Parts

(* ChildAt returns the place that parts the keys.                             *)
LEMMA ChildAtIs ==
    ASSUME NEW ix, ix.keys \in Seq(Nat), NEW n \in Nat, NEW i, Parts(ix.keys, n, i)
    PROVE  ChildAt(ix, n) = i
<1> DEFINE q == ix.keys
           above == { j \in 1..Len(q) : n < q[j] }
<1>1. Len(q) \in Nat /\ i \in 1..(Len(q) + 1) /\ \A j \in 1..Len(q) : q[j] \in Nat
  BY DEF Parts
<1>2. \A j \in 1..Len(q) : j \in above <=> j >= i
  BY <1>1 DEF Parts
<1>3. ChildAt(ix, n) = IF above = {} THEN Len(q) + 1 ELSE CHOOSE j \in above : \A k \in above : j <= k
  BY DEF ChildAt
<1>4. above \subseteq 1..Len(q)
  OBVIOUS
<1> HIDE DEF above, q
<1>5. CASE i = Len(q) + 1
  <2>1. above = {}
    BY <1>1, <1>2, <1>4, <1>5
  <2> QED  BY <1>3, <1>5, <2>1
<1>6. CASE i # Len(q) + 1
  <2>1. i \in above /\ \A k \in above : i <= k
    BY <1>1, <1>2, <1>4, <1>6
  <2>2. \A j \in above : (\A k \in above : j <= k) => j = i
    BY <1>1, <1>4, <2>1
  <2>3. (CHOOSE j \in above : \A k \in above : j <= k) = i
    BY <2>1, <2>2
  <2> QED  BY <1>3, <2>1, <2>3
<1> QED  BY <1>5, <1>6

(* In an index with ascending keys ChildAt is a place among the children, and *)
(* parts the keys.                                                            *)
LEMMA ChildAtParts ==
    ASSUME NEW ix, ix.keys \in Seq(Nat), Ascending(ix.keys), NEW n \in Nat
    PROVE  /\ ChildAt(ix, n) \in 1..(Len(ix.keys) + 1)
           /\ Parts(ix.keys, n, ChildAt(ix, n))
<1>1. PICK i \in 1..(Len(ix.keys) + 1) : Parts(ix.keys, n, i)
  BY PartsExists
<1> QED  BY <1>1, ChildAtIs

(* SlotOf returns the place before which the keys are smaller.                *)
LEMMA SlotOfIs ==
    ASSUME NEW b, b.keys \in Seq(Nat), NEW k \in Nat, NEW i \in 1..(Len(b.keys) + 1),
           \A j \in 1..Len(b.keys) : b.keys[j] < k <=> j < i
    PROVE  SlotOf(b, k) = i
<1> DEFINE T == { j \in 1..Len(b.keys) : b.keys[j] < k }
<1>1. T = 1..(i - 1)
  OBVIOUS
<1>2. Cardinality(1..(i - 1)) = i - 1
  <2>1. Cardinality(1..(i - 1)) = IF 1 > i - 1 THEN 0 ELSE (i - 1) - 1 + 1
    BY FS_Interval
  <2> QED  BY <2>1
<1>3. SlotOf(b, k) = Cardinality(T) + 1
  BY DEF SlotOf
<1> HIDE DEF T
<1> QED  BY <1>1, <1>2, <1>3

-----------------------------------------------------------------------------
(* Trees: files F in which every node has a span s[f], the numbers that lead to *)
(* it from the root, and a rank h[f], its height above the blocks.  The nodes   *)
(* of one rank have disjoint spans.  Nodes in big may have one key too many.    *)

(* A whole block, as it is in its file: ascending keys, and a record for      *)
(* each.                                                                      *)
BlockNode(b) ==
    /\ b = Block(b.keys, b.recs)
    /\ b.keys \in Seq(Keys) /\ b.recs \in Seq(Records \cup {DELE})
    /\ Len(b.recs) = Len(b.keys) /\ Ascending(b.keys)

(* A whole index: ascending separators, and one child more than separators.   *)
IndexNode(ix) ==
    /\ ix = Index(ix.parent, ix.keys, ix.kids)
    /\ ix.parent \in Fkeys /\ ix.keys \in Seq(Keys) /\ ix.kids \in Seq(Fkeys)
    /\ Len(ix.kids) = Len(ix.keys) + 1 /\ Ascending(ix.keys)

(* All keys of q are in the span S; above something else in S.                *)
Within(q, S) == \A i \in 1..Len(q) : q[i] \in S

Above(q, S) == \A i \in 1..Len(q) : \E m \in S : m < q[i]

(* A node in big may have one key more than a node at rest.                   *)
Room(big, f, n) == n <= IF f \in big THEN 1 ELSE 0

(* The numbers of S that lead to the i-th child.                              *)
Span(ix, S, i) == { n \in S : ChildAt(ix, n) = i }

(* The i-th link of f leads to a node one below, with the numbers that the    *)
(* search sends there.                                                        *)
Leads(F, s, h, f, i) ==
    /\ F[f].kids[i] \in DOMAIN F
    /\ h[F[f].kids[i]] + 1 = h[f]
    /\ s[F[f].kids[i]] = Span(F[f], s[f], i)

GoodBlock(F, s, h, big, f) ==
    /\ BlockNode(F[f]) /\ Within(F[f].keys, s[f])
    /\ Room(big, f, Len(F[f].keys) - (NORECS - 1)) /\ h[f] = 0

GoodIndex(F, s, h, big, f) ==
    /\ IndexNode(F[f]) /\ Within(F[f].keys, s[f]) /\ Above(F[f].keys, s[f])
    /\ Room(big, f, Len(F[f].keys) - (NOENTS - 2))
    /\ \A i \in 1..Len(F[f].kids) : Leads(F, s, h, f, i)

Good(F, s, h, big, f) == GoodBlock(F, s, h, big, f) \/ GoodIndex(F, s, h, big, f)

(* Nodes at one height have disjoint spans.                                   *)
Spread(D, s, h) == \A f, g \in D : f # g /\ h[f] = h[g] => s[f] \cap s[g] = {}

(* The spans and heights of a tree: all numbers lead to the root, and every   *)
(* node can be reached.                                                       *)
Frame(D, root, s, h) ==
    /\ D \subseteq Fkeys /\ s \in [D -> SUBSET Nat] /\ h \in [D -> Nat]
    /\ root \in D /\ s[root] = Nat /\ h[root] # 0
    /\ \A f \in D : s[f] # {} /\ h[f] <= h[root]
    /\ Spread(D, s, h)

(* g is a child of f; every node but the root is a child.                     *)
IsKid(F, f, g) == F[f].type = "index" /\ \E i \in 1..Len(F[f].kids) : F[f].kids[i] = g

Linked(F, root) == \A f \in DOMAIN F \ {root} : \E g \in DOMAIN F : IsKid(F, g, f)

Tree(F, root, s, h, big) ==
    /\ Frame(DOMAIN F, root, s, h)
    /\ \A f \in DOMAIN F : Good(F, s, h, big, f)
    /\ Linked(F, root)

(* A node is good as a block or as an index, and its type tells which.        *)
LEMMA NodeTypes ==
    ASSUME NEW F, NEW s, NEW h, NEW big, NEW f, h[f] \in Nat
    PROVE  /\ GoodBlock(F, s, h, big, f) => F[f].type = "block" /\ h[f] = 0
           /\ GoodIndex(F, s, h, big, f) =>
                F[f].type = "index" /\ (\A i \in 1..Len(F[f].kids) : F[f].kids[i] \in DOMAIN F)
                /\ ((\A g \in DOMAIN F : h[g] \in Nat) => h[f] # 0)
<1>1. ASSUME GoodBlock(F, s, h, big, f)
      PROVE  F[f].type = "block" /\ h[f] = 0
  BY <1>1 DEF GoodBlock, BlockNode, Block
<1>2. ASSUME GoodIndex(F, s, h, big, f)
      PROVE  /\ F[f].type = "index" /\ \A i \in 1..Len(F[f].kids) : F[f].kids[i] \in DOMAIN F
             /\ (\A g \in DOMAIN F : h[g] \in Nat) => h[f] # 0
  <2>1. IndexNode(F[f]) /\ \A i \in 1..Len(F[f].kids) : Leads(F, s, h, f, i)
    BY <1>2 DEF GoodIndex
  <2>2. F[f].type = "index"
    BY <2>1 DEF IndexNode, Index
  <2>3. 1 \in 1..Len(F[f].kids)
    <3>1. Len(F[f].keys) \in Nat /\ Len(F[f].kids) = Len(F[f].keys) + 1
      BY <2>1 DEF IndexNode
    <3> QED  BY <3>1
  <2>4. h[F[f].kids[1]] + 1 = h[f] /\ F[f].kids[1] \in DOMAIN F
    BY <2>1, <2>3 DEF Leads
  <2>5. \A i \in 1..Len(F[f].kids) : F[f].kids[i] \in DOMAIN F
    BY <2>1 DEF Leads
  <2>6. (\A g \in DOMAIN F : h[g] \in Nat) => h[f] # 0
    BY <2>4
  <2> QED  BY <2>2, <2>5, <2>6
<1> QED  BY <1>1, <1>2

(* A sequence of keys is one of numbers other than 0.                         *)
LEMMA KeysAreNats ==
    ASSUME NEW q, q \in Seq(Keys)
    PROVE  q \in Seq(Nat) /\ Len(q) \in Nat /\ \A i \in 1..Len(q) : q[i] \in Keys /\ q[i] \in Nat /\ q[i] # 0
<1>1. Len(q) \in Nat /\ \A i \in 1..Len(q) : q[i] \in Keys
  OBVIOUS
<1>2. q \in [1..Len(q) -> Nat]
  BY <1>1, KeysAreNumbers, LenProperties
<1> QED  BY <1>1, <1>2, KeysAreNumbers

(* What the tree says of each of its nodes.                                   *)
LEMMA NodeKinds ==
    ASSUME NEW F, NEW root, NEW s, NEW h, NEW big, Tree(F, root, s, h, big), NEW f \in DOMAIN F
    PROVE  /\ f \in Fkeys /\ s[f] \subseteq Nat /\ s[f] # {} /\ h[f] \in Nat /\ h[f] <= h[root]
           /\ \/ F[f].type = "block" /\ GoodBlock(F, s, h, big, f) /\ h[f] = 0
              \/ F[f].type = "index" /\ GoodIndex(F, s, h, big, f) /\ h[f] # 0
<1>1. f \in Fkeys /\ s[f] \subseteq Nat /\ s[f] # {} /\ h[f] \in Nat /\ h[f] <= h[root]
      /\ \A g \in DOMAIN F : h[g] \in Nat
  BY DEF Tree, Frame
<1>2. Good(F, s, h, big, f)
  BY DEF Tree
<1> QED  BY <1>1, <1>2, NodeTypes DEF Good

(* What a link of an index says.                                                 *)
LEMMA KidIs ==
    ASSUME NEW F, NEW root, NEW s, NEW h, NEW big, Tree(F, root, s, h, big),
           NEW f \in DOMAIN F, F[f].type = "index", NEW i \in 1..Len(F[f].kids)
    PROVE  /\ F[f].kids[i] \in DOMAIN F /\ h[F[f].kids[i]] + 1 = h[f]
           /\ s[F[f].kids[i]] = Span(F[f], s[f], i) /\ s[F[f].kids[i]] \subseteq s[f]
           /\ F[f].kids[i] # f /\ F[f].kids[i] # root
<1>1. GoodIndex(F, s, h, big, f)
  BY NodeKinds
<1>2. Leads(F, s, h, f, i)
  BY <1>1 DEF GoodIndex
<1> DEFINE g == F[f].kids[i]
<1>3. g \in DOMAIN F /\ h[g] + 1 = h[f] /\ s[g] = Span(F[f], s[f], i)
  BY <1>2 DEF Leads
<1>4. h[g] \in Nat /\ h[f] \in Nat /\ h[f] <= h[root] /\ h[root] \in Nat
  <2>1. root \in DOMAIN F
    BY DEF Tree, Frame
  <2> HIDE DEF g
  <2> QED  BY <1>3, <2>1, NodeKinds
<1>5. g # f /\ g # root
  <2> HIDE DEF g
  <2> QED  BY <1>3, <1>4
<1>6. s[g] \subseteq s[f]
  BY <1>3 DEF Span
<1> QED  BY <1>3, <1>5, <1>6

(* Every node but the root is the child of one index, and linked once.           *)
LEMMA OneParent ==
    ASSUME NEW F, NEW root, NEW s, NEW h, NEW big, Tree(F, root, s, h, big),
           NEW f \in DOMAIN F, F[f].type = "index", NEW i \in 1..Len(F[f].kids),
           NEW g \in DOMAIN F, F[g].type = "index", NEW j \in 1..Len(F[g].kids),
           F[f].kids[i] = F[g].kids[j]
    PROVE  f = g /\ i = j
<1> DEFINE e == F[f].kids[i]
<1>1. e \in DOMAIN F /\ h[e] + 1 = h[f] /\ s[e] = Span(F[f], s[f], i)
  BY KidIs
<1>2. h[e] + 1 = h[g] /\ s[e] = Span(F[g], s[g], j)
  BY KidIs
<1> HIDE DEF e
<1>3. PICK n \in s[e] : TRUE
  BY <1>1, NodeKinds
<1>4. n \in s[f] /\ n \in s[g] /\ ChildAt(F[f], n) = i /\ ChildAt(F[g], n) = j
  BY <1>1, <1>2, <1>3 DEF Span
<1>5. f = g
  <2>1. Spread(DOMAIN F, s, h)
    BY DEF Tree, Frame
  <2> QED  BY <1>1, <1>2, <1>4, <2>1 DEF Spread
<1> QED  BY <1>4, <1>5

(* A number in the span of an index leads to one of its children.                *)
LEMMA DownIs ==
    ASSUME NEW F, NEW root, NEW s, NEW h, NEW big, Tree(F, root, s, h, big),
           NEW f \in DOMAIN F, F[f].type = "index", NEW n \in Nat
    PROVE  /\ ChildAt(F[f], n) \in 1..Len(F[f].kids) /\ F[f].kids # << >>
           /\ F[f].kids[ChildAt(F[f], n)] \in DOMAIN F
           /\ h[F[f].kids[ChildAt(F[f], n)]] + 1 = h[f]
           /\ n \in s[f] <=> n \in s[F[f].kids[ChildAt(F[f], n)]]
           /\ s[F[f].kids[ChildAt(F[f], n)]] = Span(F[f], s[f], ChildAt(F[f], n))
<1>1. IndexNode(F[f])
  BY NodeKinds DEF GoodIndex
<1>2. F[f].keys \in Seq(Nat) /\ Ascending(F[f].keys) /\ Len(F[f].kids) = Len(F[f].keys) + 1
      /\ F[f].kids # << >>
  <2>1. F[f].keys \in Seq(Keys) /\ Ascending(F[f].keys) /\ Len(F[f].kids) = Len(F[f].keys) + 1
    BY <1>1 DEF IndexNode
  <2>2. F[f].keys \in Seq(Nat) /\ Len(F[f].keys) \in Nat
    BY <2>1, KeysAreNats
  <2>3. Len(F[f].kids) # 0
    BY <2>1, <2>2
  <2> QED  BY <2>1, <2>2, <2>3
<1> DEFINE c == ChildAt(F[f], n)
<1>3. c \in 1..Len(F[f].kids)
  BY <1>2, ChildAtParts
<1> HIDE DEF c
<1>4. /\ F[f].kids[c] \in DOMAIN F /\ h[F[f].kids[c]] + 1 = h[f]
      /\ s[F[f].kids[c]] = Span(F[f], s[f], c)
  BY <1>3, KidIs
<1>5. n \in s[f] <=> n \in s[F[f].kids[c]]
  BY <1>4 DEF Span, c
<1> QED  BY <1>2, <1>3, <1>4, <1>5 DEF c

-----------------------------------------------------------------------------
(* Reading.  The recursive functions of Leaf and Depths are what CHOOSE makes   *)
(* of an equation; that some function satisfies it is shown by rank.            *)

(* An index with links; the link that k follows; the equation that Leaf       *)
(* solves.                                                                    *)
Inner(G, f) == G[f].type = "index" /\ G[f].kids # << >>

Down(G, k, f) == G[f].kids[ChildAt(G[f], k)]

Descends(G, k, d) == d = [f \in DOMAIN G |-> IF Inner(G, f) THEN d[Down(G, k, f)] ELSE G[f]]

LeafIn(G, root, k) == (CHOOSE d : Descends(G, k, d))[root]

(* Leaf is the solution of the equation in the files.                         *)
LEMMA LeafIsIn == \A root, k : Leaf(root, k) = LeafIn(files, root, k)
BY DEF Leaf, LeafIn, Descends, Inner, Down

(* Every link that k follows goes to a file of smaller rank.                     *)
LeadsDown(G, k, rk) ==
    \A f \in DOMAIN G :
       /\ rk[f] \in Nat
       /\ Inner(G, f) => Down(G, k, f) \in DOMAIN G /\ rk[Down(G, k, f)] < rk[f]

(* d solves the equation below rank m.                                        *)
DescendsBelow(G, k, rk, d, m) ==
    \A f \in DOMAIN G : rk[f] < m => d[f] = IF Inner(G, f) THEN d[Down(G, k, f)] ELSE G[f]

(* What solves the equation below rank m can be extended by the files of rank *)
(* m.                                                                         *)
LEMMA OneMoreRank ==
    ASSUME NEW G, NEW k, NEW rk, LeadsDown(G, k, rk), NEW m \in Nat, NEW d,
           DescendsBelow(G, k, rk, d, m)
    PROVE  \E e : DescendsBelow(G, k, rk, e, m + 1)
<1> DEFINE e == [f \in DOMAIN G |-> IF Inner(G, f) THEN d[Down(G, k, f)] ELSE G[f]]
<1>1. \A f \in DOMAIN G : e[f] = IF Inner(G, f) THEN d[Down(G, k, f)] ELSE G[f]
  OBVIOUS
<1> HIDE DEF e
<1>2. \A f \in DOMAIN G : rk[f] < m => e[f] = d[f]
  BY <1>1 DEF DescendsBelow
<1>3. ASSUME NEW f \in DOMAIN G, rk[f] < m + 1
      PROVE  e[f] = IF Inner(G, f) THEN e[Down(G, k, f)] ELSE G[f]
  <2>1. CASE Inner(G, f)
    <3>1. Down(G, k, f) \in DOMAIN G /\ rk[Down(G, k, f)] < rk[f] /\ rk[f] \in Nat
          /\ rk[Down(G, k, f)] \in Nat
      BY <2>1 DEF LeadsDown
    <3>2. rk[Down(G, k, f)] < m
      BY <1>3, <3>1
    <3>3. e[Down(G, k, f)] = d[Down(G, k, f)]
      BY <1>2, <3>1, <3>2
    <3> QED  BY <1>1, <2>1, <3>3
  <2>2. CASE ~Inner(G, f)
    BY <1>1, <2>2
  <2> QED  BY <2>1, <2>2
<1>4. DescendsBelow(G, k, rk, e, m + 1)
  BY <1>3 DEF DescendsBelow
<1> QED  BY <1>4

(* Hence there is a solution when the ranks are bounded: the function sought  *)
(* is the one below the bound, reached by one rank after the other.           *)
LEMMA SomeDescends ==
    ASSUME NEW G, NEW k, NEW rk, LeadsDown(G, k, rk), NEW top \in Nat,
           \A f \in DOMAIN G : rk[f] < top
    PROVE  \E d : Descends(G, k, d)
<1> DEFINE bad == { m \in Nat : ~ \E d : DescendsBelow(G, k, rk, d, m) }
<1>1. bad = {}
  <2> SUFFICES ASSUME bad # {} PROVE FALSE
    OBVIOUS
  <2>1. PICK m \in bad : \A x \in bad : m <= x
    <3>1. bad \in SUBSET Nat
      OBVIOUS
    <3> HIDE DEF bad
    <3> QED  BY <3>1, SmallestExists
  <2>2. m \in Nat /\ ~ \E d : DescendsBelow(G, k, rk, d, m)
    BY <2>1
  <2>3. CASE m = 0
    <3>1. \A d : DescendsBelow(G, k, rk, d, 0)
      BY DEF DescendsBelow, LeadsDown
    <3> QED  BY <2>2, <2>3, <3>1
  <2>4. CASE m # 0
    <3>1. m - 1 \in Nat /\ m - 1 \notin bad
      <4> HIDE DEF bad
      <4> QED  BY <2>1, <2>2, <2>4
    <3>2. PICK d : DescendsBelow(G, k, rk, d, m - 1)
      BY <3>1
    <3>3. \E e : DescendsBelow(G, k, rk, e, (m - 1) + 1)
      <4> HIDE DEF bad
      <4> QED  BY <3>1, <3>2, OneMoreRank
    <3>4. (m - 1) + 1 = m
      BY <2>2
    <3> QED  BY <2>2, <3>3, <3>4
  <2> QED  BY <2>3, <2>4
<1>2. PICK d : DescendsBelow(G, k, rk, d, top)
  BY <1>1
<1> DEFINE e == [f \in DOMAIN G |-> IF Inner(G, f) THEN d[Down(G, k, f)] ELSE G[f]]
<1>3. \A f \in DOMAIN G : e[f] = d[f]
  BY <1>2 DEF DescendsBelow
<1>4. \A f \in DOMAIN G : Inner(G, f) => Down(G, k, f) \in DOMAIN G
  BY DEF LeadsDown
<1>5. e = [f \in DOMAIN G |-> IF Inner(G, f) THEN e[Down(G, k, f)] ELSE G[f]]
  <2> HIDE DEF bad
  <2>1. \A f \in DOMAIN G : Inner(G, f) => e[Down(G, k, f)] = d[Down(G, k, f)]
    <3> HIDE DEF e
    <3> QED  BY <1>3, <1>4
  <2>2. PICK y : y = e
    OBVIOUS
  <2>3. \A f \in DOMAIN G : Inner(G, f) => y[Down(G, k, f)] = d[Down(G, k, f)]
    BY <2>1, <2>2
  <2>4. e = [f \in DOMAIN G |-> IF Inner(G, f) THEN y[Down(G, k, f)] ELSE G[f]]
    <3> HIDE <2>2
    <3> QED  BY <2>3
  <2> HIDE DEF e
  <2> QED  BY <2>2, <2>4
<1> HIDE DEF e
<1> QED  BY <1>5 DEF Descends

(* The search for k ends in the block whose span has k, in any files that     *)
(* agree with the tree on the nodes k goes through.                           *)
LEMMA ReadsTheSpan ==
    ASSUME NEW F, NEW root, NEW s, NEW h, NEW big, Tree(F, root, s, h, big),
           NEW G, DOMAIN F \subseteq DOMAIN G,
           NEW k \in Nat, \A f \in DOMAIN F : k \in s[f] => G[f] = F[f],
           NEW d, Descends(G, k, d)
    PROVE  \E b \in DOMAIN F : F[b].type = "block" /\ k \in s[b] /\ d[root] = F[b]
<1> DEFINE Found(f) == \E b \in DOMAIN F : F[b].type = "block" /\ k \in s[b] /\ d[f] = F[b]
           bad == { m \in Nat : \E f \in DOMAIN F : m = h[f] /\ k \in s[f] /\ ~Found(f) }
<1>1. bad = {}
  <2> SUFFICES ASSUME bad # {} PROVE FALSE
    OBVIOUS
  <2>1. PICK m \in bad : \A x \in bad : m <= x
    <3>1. bad \in SUBSET Nat
      OBVIOUS
    <3> HIDE DEF bad
    <3> QED  BY <3>1, SmallestExists
  <2>2. PICK f \in DOMAIN F : m = h[f] /\ k \in s[f] /\ ~Found(f)
    BY <2>1
  <2>3. d[f] = IF Inner(F, f) THEN d[Down(F, k, f)] ELSE F[f]
    <3>1. G[f] = F[f] /\ f \in DOMAIN G
      BY <2>2
    <3>2. \A x \in DOMAIN G : d[x] = IF Inner(G, x) THEN d[Down(G, k, x)] ELSE G[x]
      BY DEF Descends
    <3>3. Inner(G, f) = Inner(F, f) /\ Down(G, k, f) = Down(F, k, f)
      BY <3>1 DEF Inner, Down
    <3> HIDE DEF bad, Found
    <3> QED  BY <3>1, <3>2, <3>3
  <2>4. CASE F[f].type = "block"
    <3>1. ~Inner(F, f)
      BY <2>4 DEF Inner
    <3>2. d[f] = F[f]
      BY <2>3, <3>1
    <3> QED  BY <2>2, <2>4, <3>2
  <2>5. CASE F[f].type = "index"
    <3> DEFINE g == Down(F, k, f)
    <3>1. /\ F[f].kids # << >> /\ g \in DOMAIN F /\ h[g] + 1 = h[f] /\ (k \in s[f] <=> k \in s[g])
      <4> HIDE DEF bad, Found
      <4> QED  BY <2>5, DownIs DEF Down
    <3> HIDE DEF g
    <3>2. d[f] = d[g] /\ k \in s[g]
      BY <2>2, <2>3, <2>5, <3>1 DEF Inner, g
    <3>3. h[g] \in Nat /\ h[f] \in Nat
      BY <3>1, NodeKinds
    <3>4. h[g] \notin bad
      <4>1. ~(m <= h[g])
        BY <2>2, <3>1, <3>3
      <4> HIDE DEF bad
      <4> QED  BY <2>1, <4>1
    <3>5. Found(g)
      BY <3>1, <3>2, <3>3, <3>4
    <3> QED  BY <2>2, <3>2, <3>5
  <2> QED  BY <2>4, <2>5, NodeKinds
<1>2. root \in DOMAIN F /\ k \in s[root] /\ h[root] \in Nat
  BY DEF Tree, Frame
<1> QED  BY <1>1, <1>2

(* The record under k in a block, or none.                                       *)
ValueIn(b, k) ==
    IF b.type = "block" /\ HasKey(b, k) /\ b.recs[SlotOf(b, k)] # DELE
    THEN b.recs[SlotOf(b, k)] ELSE None

(* Lookup is the value in the leaf.                                           *)
LEMMA LookupIs == \A root, k : Lookup(root, k) = ValueIn(LeafIn(files, root, k), k)
BY LeafIsIn DEF Lookup, ValueIn

(* Each block holds what is stored under the keys of its span.                   *)
Holds(F, s, c) ==
    \A f \in DOMAIN F : F[f].type = "block" =>
       \A k \in Keys : k \in s[f] => ValueIn(F[f], k) = c[k]

(* Hence it finds what the blocks hold.                                       *)
LEMMA LeafHolds ==
    ASSUME NEW F, NEW root, NEW s, NEW h, NEW big, Tree(F, root, s, h, big),
           NEW c, Holds(F, s, c),
           NEW G, DOMAIN F \subseteq DOMAIN G,
           NEW k \in Keys, \A f \in DOMAIN F : k \in s[f] => G[f] = F[f],
           \E d : Descends(G, k, d)
    PROVE  ValueIn(LeafIn(G, root, k), k) = c[k]
<1>1. PICK d : d = (CHOOSE x : Descends(G, k, x))
  OBVIOUS
<1>2. Descends(G, k, d)
  BY <1>1
<1>3. PICK b \in DOMAIN F : F[b].type = "block" /\ k \in s[b] /\ d[root] = F[b]
  <2>1. k \in Nat
    BY KeysAreNumbers
  <2> QED  BY <1>2, <2>1, ReadsTheSpan
<1>4. LeafIn(G, root, k) = F[b]
  BY <1>1, <1>3 DEF LeafIn
<1> QED  BY <1>3, <1>4 DEF Holds

(* In a tree every link goes down, so a search ends.                          *)
LEMMA TreeLeadsDown ==
    ASSUME NEW F, NEW root, NEW s, NEW h, NEW big, Tree(F, root, s, h, big), NEW k \in Nat
    PROVE  LeadsDown(F, k, h) /\ \A f \in DOMAIN F : h[f] < h[root] + 1
<1>1. ASSUME NEW f \in DOMAIN F, Inner(F, f)
      PROVE  Down(F, k, f) \in DOMAIN F /\ h[Down(F, k, f)] < h[f]
  <2>1. Down(F, k, f) \in DOMAIN F /\ h[Down(F, k, f)] + 1 = h[f]
    BY <1>1, DownIs DEF Down, Inner
  <2>2. h[Down(F, k, f)] \in Nat
    BY <2>1, NodeKinds
  <2> QED  BY <2>1, <2>2
<1>2. h[root] \in Nat
  BY NodeKinds DEF Tree, Frame
<1> QED  BY <1>1, <1>2, NodeKinds DEF LeadsDown

(* Hence the equation of Leaf has a solution in a tree.                       *)
LEMMA TreeDescends ==
    ASSUME NEW F, NEW root, NEW s, NEW h, NEW big, Tree(F, root, s, h, big), NEW k \in Nat
    PROVE  \E d : Descends(F, k, d)
<1>1. LeadsDown(F, k, h) /\ \A f \in DOMAIN F : h[f] < h[root] + 1
  BY TreeLeadsDown
<1>2. h[root] + 1 \in Nat
  <2>1. h[root] \in Nat
    BY NodeKinds DEF Tree, Frame
  <2> QED  BY <2>1
<1> QED  BY <1>1, <1>2, SomeDescends

(* The blocks of a tree hold what is read from it, and nothing else can be read. *)
ContentsIn(F, root) == [ k \in Keys |-> ValueIn(LeafIn(F, root, k), k) ]

(* Contents, of the files.                                                    *)
LEMMA ContentsIsIn == \A root : Contents(root) = ContentsIn(files, root)
BY LookupIs DEF Contents, ContentsIn

(* What the blocks hold is what is read.                                      *)
LEMMA ContentsAre ==
    ASSUME NEW F, NEW root, NEW s, NEW h, NEW big, Tree(F, root, s, h, big),
           NEW c, Holds(F, s, c), c = [k \in Keys |-> c[k]]
    PROVE  ContentsIn(F, root) = c
<1>1. ASSUME NEW k \in Keys
      PROVE  ValueIn(LeafIn(F, root, k), k) = c[k]
  <2>1. k \in Nat
    BY KeysAreNumbers
  <2>2. \E d : Descends(F, k, d)
    BY <2>1, TreeDescends
  <2> QED  BY <2>2, LeafHolds
<1>2. ContentsIn(F, root) = [ k \in Keys |-> c[k] ]
  BY <1>1 DEF ContentsIn
<1> QED  BY <1>2

(* What is read is what the blocks hold.                                      *)
LEMMA ContentsHold ==
    ASSUME NEW F, NEW root, NEW s, NEW h, NEW big, Tree(F, root, s, h, big)
    PROVE  Holds(F, s, ContentsIn(F, root))
<1> SUFFICES ASSUME NEW f \in DOMAIN F, F[f].type = "block", NEW k \in Keys, k \in s[f]
             PROVE  ValueIn(F[f], k) = ContentsIn(F, root)[k]
  BY DEF Holds
<1>1. k \in Nat
  BY KeysAreNumbers
<1>2. PICK d : d = (CHOOSE x : Descends(F, k, x))
  OBVIOUS
<1>3. Descends(F, k, d)
  BY <1>1, <1>2, TreeDescends
<1>4. PICK b \in DOMAIN F : F[b].type = "block" /\ k \in s[b] /\ d[root] = F[b]
  BY <1>1, <1>3, ReadsTheSpan
<1>5. b = f
  <2>1. h[b] = 0 /\ h[f] = 0
    <3>1. F[b].type # "index" /\ F[f].type # "index"
      BY <1>4
    <3> QED  BY <3>1, NodeKinds
  <2>2. Spread(DOMAIN F, s, h)
    BY DEF Tree, Frame
  <2> QED  BY <1>4, <2>1, <2>2 DEF Spread
<1>6. LeafIn(F, root, k) = F[f]
  BY <1>2, <1>4, <1>5 DEF LeafIn
<1> QED  BY <1>6 DEF ContentsIn

-----------------------------------------------------------------------------
(* A tree has one link to every node but the root, and all its blocks are at     *)
(* the same depth.                                                              *)

(* Links, of any files.                                                       *)
LinksIn(F, f) ==
    { link \in (DOMAIN F) \X (1..NOENTS) :
        LET ix == F[link[1]]
        IN  ix.type = "index" /\ link[2] <= Len(ix.kids) /\ ix.kids[link[2]] = f }

(* Links is LinksIn of the files there are.                                   *)
LEMMA LinksIsIn == \A f : Links(f) = LinksIn(files, f)
BY DEF Links, LinksIn

(* An index has at most NOENTS children, also when it is overfull: Links      *)
(* looks at them all.                                                         *)
LEMMA KidsFit ==
    ASSUME NEW F, NEW root, NEW s, NEW h, NEW big, Tree(F, root, s, h, big),
           NEW f \in DOMAIN F, F[f].type = "index"
    PROVE  Len(F[f].kids) \in 1..NOENTS
<1>1. GoodIndex(F, s, h, big, f)
  BY NodeKinds
<1>2. Len(F[f].keys) \in Nat /\ Len(F[f].kids) = Len(F[f].keys) + 1
  <2>1. F[f].keys \in Seq(Keys) /\ Len(F[f].kids) = Len(F[f].keys) + 1
    BY <1>1 DEF GoodIndex, IndexNode
  <2> QED  BY <2>1, KeysAreNats
<1>3. Len(F[f].keys) - (NOENTS - 2) <= 1
  BY <1>1, <1>2, SizesAssumption DEF GoodIndex, Room
<1> QED  BY <1>2, <1>3, SizesAssumption

(* No link leads to the root, and one to each other node.                     *)
LEMMA LinksOfTree ==
    ASSUME NEW F, NEW root, NEW s, NEW h, NEW big, Tree(F, root, s, h, big)
    PROVE  /\ LinksIn(F, root) = {}
           /\ \A f \in DOMAIN F \ {root} : Cardinality(LinksIn(F, f)) = 1
<1>1. ASSUME NEW f, NEW link \in LinksIn(F, f)
      PROVE  /\ link[1] \in DOMAIN F /\ F[link[1]].type = "index" /\ link = << link[1], link[2] >>
             /\ link[2] \in 1..Len(F[link[1]].kids) /\ F[link[1]].kids[link[2]] = f
  <2>1. /\ link \in (DOMAIN F) \X (1..NOENTS) /\ F[link[1]].type = "index"
        /\ link[2] <= Len(F[link[1]].kids) /\ F[link[1]].kids[link[2]] = f
    BY DEF LinksIn
  <2>2. link[1] \in DOMAIN F /\ link[2] \in 1..NOENTS /\ link = << link[1], link[2] >>
    BY <2>1
  <2>3. Len(F[link[1]].kids) \in 1..NOENTS
    BY <2>1, <2>2, KidsFit
  <2> QED  BY <2>1, <2>2, <2>3, SizesAssumption
<1>2. LinksIn(F, root) = {}
  <2> SUFFICES ASSUME NEW link \in LinksIn(F, root) PROVE FALSE
    OBVIOUS
  <2> QED  BY <1>1, KidIs
<1>3. ASSUME NEW f \in DOMAIN F \ {root}
      PROVE  Cardinality(LinksIn(F, f)) = 1
  <2>1. PICK g \in DOMAIN F : IsKid(F, g, f)
    BY DEF Tree, Linked
  <2>2. PICK i \in 1..Len(F[g].kids) : F[g].kids[i] = f
    BY <2>1 DEF IsKid
  <2>3. F[g].type = "index" /\ Len(F[g].kids) \in 1..NOENTS
    BY <2>1, KidsFit DEF IsKid
  <2>4. << g, i >> \in LinksIn(F, f)
    <3>1. i \in 1..NOENTS /\ i <= Len(F[g].kids)
      BY <2>3, SizesAssumption
    <3> QED  BY <2>2, <2>3, <3>1 DEF LinksIn
  <2>5. ASSUME NEW link \in LinksIn(F, f)
        PROVE  link = << g, i >>
    <3>1. link[1] = g /\ link[2] = i
      BY <1>1, <2>2, <2>3, OneParent
    <3> QED  BY <1>1, <3>1
  <2>6. LinksIn(F, f) = { << g, i >> }
    BY <2>4, <2>5
  <2> QED  BY <2>6, FS_Singleton
<1> QED  BY <1>2, <1>3

(* The equation that Depths solves, in any files.                             *)
DepthsFrom(F, d, f) ==
    IF F[f].type = "index" THEN UNION { { n + 1 : n \in d[g] } : g \in Range(F[f].kids) } ELSE {0}

Measures(F, d) == d = [f \in DOMAIN F |-> DepthsFrom(F, d, f)]

(* Depths is its solution at the master.                                      *)
LEMMA DepthsIsMeasured == Depths = (CHOOSE d : Measures(files, d))[kmem.mkey]
BY DEF Depths, Measures, DepthsFrom

(* If every node below f is at one depth, its height, so is f.                *)
LEMMA DepthsUp ==
    ASSUME NEW F, NEW root, NEW s, NEW h, NEW big, Tree(F, root, s, h, big),
           NEW f \in DOMAIN F, NEW d, \A g \in DOMAIN F : h[g] < h[f] => d[g] = { h[g] }
    PROVE  DepthsFrom(F, d, f) = { h[f] }
<1>1. CASE F[f].type = "block"
  <2>1. h[f] = 0 /\ F[f].type # "index"
    BY <1>1, NodeKinds
  <2> QED  BY <2>1 DEF DepthsFrom
<1>2. CASE F[f].type = "index"
  <2>1. ASSUME NEW g \in Range(F[f].kids)
        PROVE  h[g] + 1 = h[f] /\ d[g] = { h[g] }
    <3>1. PICK i \in 1..Len(F[f].kids) : g = F[f].kids[i]
      <4>1. F[f].kids \in Seq(Fkeys)
        BY <1>2, NodeKinds DEF GoodIndex, IndexNode
      <4> QED  BY <4>1 DEF Range
    <3>2. g \in DOMAIN F /\ h[g] + 1 = h[f]
      BY <1>2, <3>1, KidIs
    <3>3. h[g] \in Nat /\ h[f] \in Nat
      BY <3>2, NodeKinds
    <3> QED  BY <3>2, <3>3
  <2>2. \A g \in Range(F[f].kids) : { n + 1 : n \in d[g] } = { h[f] }
    BY <2>1
  <2>3. F[f].kids[1] \in Range(F[f].kids)
    <3>1. F[f].kids \in Seq(Fkeys)
      BY <1>2, NodeKinds DEF GoodIndex, IndexNode
    <3>2. 1 \in 1..Len(F[f].kids)
      BY <1>2, KidsFit
    <3> QED  BY <3>1, <3>2 DEF Range
  <2>4. UNION { { n + 1 : n \in d[g] } : g \in Range(F[f].kids) } = { h[f] }
    BY <2>2, <2>3
  <2> QED  BY <1>2, <2>4 DEF DepthsFrom
<1> QED  BY <1>1, <1>2, NodeKinds

(* All blocks of a tree are as deep as its root is high.                      *)
LEMMA DepthsOfTree ==
    ASSUME NEW F, NEW root, NEW s, NEW h, NEW big, Tree(F, root, s, h, big)
    PROVE  (CHOOSE d : Measures(F, d))[root] = { h[root] }
<1>1. \E d : Measures(F, d)
  <2> DEFINE d == [f \in DOMAIN F |-> { h[f] }]
  <2>1. \A f \in DOMAIN F : d[f] = { h[f] }
    OBVIOUS
  <2>2. \A f \in DOMAIN F : DepthsFrom(F, d, f) = { h[f] }
    <3> HIDE DEF d
    <3> QED  BY <2>1, DepthsUp
  <2>3. PICK y : y = d
    OBVIOUS
  <2>4. \A f \in DOMAIN F : DepthsFrom(F, y, f) = { h[f] }
    BY <2>2, <2>3
  <2>5. d = [f \in DOMAIN F |-> DepthsFrom(F, y, f)]
    <3> HIDE <2>3
    <3> QED  BY <2>4
  <2> HIDE DEF d
  <2>6. y = [f \in DOMAIN F |-> DepthsFrom(F, y, f)]
    BY <2>3, <2>5
  <2> QED  BY <2>6 DEF Measures
<1>2. PICK d : d = (CHOOSE x : Measures(F, x))
  OBVIOUS
<1>3. \A f \in DOMAIN F : d[f] = DepthsFrom(F, d, f)
  BY <1>1, <1>2 DEF Measures
<1> DEFINE bad == { m \in Nat : \E f \in DOMAIN F : m = h[f] /\ d[f] # { h[f] } }
<1>4. bad = {}
  <2> SUFFICES ASSUME bad # {} PROVE FALSE
    OBVIOUS
  <2>1. PICK m \in bad : \A x \in bad : m <= x
    <3>1. bad \in SUBSET Nat
      OBVIOUS
    <3> HIDE DEF bad
    <3> QED  BY <3>1, SmallestExists
  <2>2. PICK f \in DOMAIN F : m = h[f] /\ d[f] # { h[f] }
    BY <2>1
  <2>3. ASSUME NEW g \in DOMAIN F, h[g] < h[f]
        PROVE  d[g] = { h[g] }
    <3>1. h[g] \in Nat /\ h[f] \in Nat
      BY NodeKinds
    <3>2. h[g] \notin bad
      <4>1. ~(m <= h[g])
        BY <2>2, <2>3, <3>1
      <4> HIDE DEF bad
      <4> QED  BY <2>1, <4>1
    <3> QED  BY <3>1, <3>2
  <2>4. d[f] = { h[f] }
    <3> HIDE DEF bad
    <3> QED  BY <1>3, <2>3, DepthsUp
  <2> QED  BY <2>2, <2>4
<1>5. root \in DOMAIN F /\ h[root] \in Nat
  BY DEF Tree, Frame
<1> QED  BY <1>2, <1>4, <1>5

(* The three facts that Balanced states of a tree at rest.                        *)
LEMMA TreeBalanced ==
    ASSUME NEW s, NEW h, NEW big, Tree(files, kmem.mkey, s, h, big)
    PROVE  /\ Links(kmem.mkey) = {}
           /\ \A f \in DOMAIN files \ {kmem.mkey} : Cardinality(Links(f)) = 1
           /\ Cardinality(Depths) = 1
<1>1. LinksIn(files, kmem.mkey) = {}
      /\ \A f \in DOMAIN files \ {kmem.mkey} : Cardinality(LinksIn(files, f)) = 1
  BY LinksOfTree
<1>2. Depths = { h[kmem.mkey] }
  BY DepthsOfTree, DepthsIsMeasured
<1> QED  BY <1>1, <1>2, LinksIsIn, FS_Singleton

-----------------------------------------------------------------------------
(* The blocks that bt_addrecord makes, and what is read from them.               *)

(* What is read of a record that is written: to write DELE is to have none.   *)
Stored(r) == IF r = DELE THEN None ELSE r

(* A whole block, spelled out.                                                *)
LEMMA BlockFacts ==
    ASSUME NEW b, BlockNode(b)
    PROVE  /\ b.type = "block" /\ b.keys \in Seq(Nat) /\ b.keys \in Seq(Keys)
           /\ b.recs \in Seq(Records \cup {DELE})
           /\ Len(b.keys) \in Nat /\ Len(b.recs) = Len(b.keys) /\ Ascending(b.keys)
           /\ \A i \in 1..Len(b.keys) : b.keys[i] \in Keys /\ b.keys[i] \in Nat
BY KeysAreNats DEF BlockNode, Block

(* Ascending keys are as ordered as their places, and differ.                 *)
LEMMA AscendingAgain ==
    ASSUME NEW q \in Seq(Nat), Ascending(q), NEW i \in 1..Len(q), NEW j \in 1..Len(q)
    PROVE  (q[i] < q[j] <=> i < j) /\ (q[i] = q[j] <=> i = j) /\ q[i] \in Nat /\ q[j] \in Nat
<1>1. q[i] \in Nat /\ q[j] \in Nat /\ (i < j => q[i] < q[j]) /\ (j < i => q[j] < q[i])
  BY DEF Ascending
<1> QED  BY <1>1

(* The search in a block finds each of its keys.                              *)
LEMMA SlotAt ==
    ASSUME NEW b, BlockNode(b), NEW i \in 1..Len(b.keys)
    PROVE  SlotOf(b, b.keys[i]) = i /\ HasKey(b, b.keys[i])
<1>1. b.keys \in Seq(Nat) /\ Len(b.keys) \in Nat /\ b.keys[i] \in Nat /\ Ascending(b.keys)
  BY BlockFacts
<1>2. \A j \in 1..Len(b.keys) : b.keys[j] < b.keys[i] <=> j < i
  BY <1>1, AscendingAgain
<1>3. i \in 1..(Len(b.keys) + 1)
  BY <1>1
<1> QED  BY <1>1, <1>2, <1>3, SlotOfIs DEF HasKey, Contains

(* The value under a key of the block is its record.                          *)
LEMMA ValueAt ==
    ASSUME NEW b, BlockNode(b), NEW i \in 1..Len(b.keys)
    PROVE  ValueIn(b, b.keys[i]) = Stored(b.recs[i])
BY SlotAt, BlockFacts DEF ValueIn, Stored

(* There is no value under a key that is not in the block.                    *)
LEMMA ValueNone ==
    ASSUME NEW b, NEW k, \A i \in 1..Len(b.keys) : b.keys[i] # k
    PROVE  ValueIn(b, k) = None
BY DEF ValueIn, HasKey, Contains

(* A block that holds under k, in one place or not at all, what another holds.    *)
LEMMA ValueSame ==
    ASSUME NEW a, BlockNode(a), NEW b, BlockNode(b), NEW k,
           \A i \in 1..Len(a.keys) : a.keys[i] = k =>
             \E j \in 1..Len(b.keys) : b.keys[j] = k /\ b.recs[j] = a.recs[i],
           \A j \in 1..Len(b.keys) : b.keys[j] = k => \E i \in 1..Len(a.keys) : a.keys[i] = k
    PROVE  ValueIn(b, k) = ValueIn(a, k)
<1>1. CASE \E i \in 1..Len(a.keys) : a.keys[i] = k
  <2>1. PICK i \in 1..Len(a.keys) : a.keys[i] = k
    BY <1>1
  <2>2. PICK j \in 1..Len(b.keys) : b.keys[j] = k /\ b.recs[j] = a.recs[i]
    BY <2>1
  <2>3. ValueIn(a, k) = Stored(a.recs[i]) /\ ValueIn(b, k) = Stored(b.recs[j])
    BY <2>1, <2>2, ValueAt
  <2> QED  BY <2>2, <2>3
<1>2. CASE ~ \E i \in 1..Len(a.keys) : a.keys[i] = k
  <2>1. ~ \E j \in 1..Len(b.keys) : b.keys[j] = k
    BY <1>2
  <2> QED  BY <1>2, <2>1, ValueNone
<1> QED  BY <1>1, <1>2

(* Updated, where the key is not new.                                             *)
LEMMA ReplacedIs ==
    ASSUME NEW b, BlockNode(b), NEW k \in Keys, NEW r \in Records \cup {DELE}, HasKey(b, k)
    PROVE  LET u == Updated(b, k, r)
           IN  /\ BlockNode(u) /\ u.keys = b.keys
               /\ ValueIn(u, k) = Stored(r)
               /\ \A j \in Keys \ {k} : ValueIn(u, j) = ValueIn(b, j)
<1> DEFINE u == Updated(b, k, r)
           n == Len(b.keys)
<1>1. PICK i \in 1..n : b.keys[i] = k
  BY DEF HasKey, Contains
<1>2. SlotOf(b, k) = i
  BY <1>1, SlotAt
<1>3. u = Block(b.keys, [b.recs EXCEPT ![i] = r])
  BY <1>2 DEF Updated, ReplaceAt
<1>4. u.keys = b.keys /\ u.recs = [b.recs EXCEPT ![i] = r] /\ u = Block(u.keys, u.recs)
  BY <1>3 DEF Block
<1> HIDE DEF u
<1>5. b.recs \in Seq(Records \cup {DELE}) /\ i \in 1..Len(b.recs) /\ Len(b.recs) = n
  BY <1>1, BlockFacts
<1>6. /\ u.recs \in Seq(Records \cup {DELE}) /\ Len(u.recs) = n
      /\ \A j \in 1..n : u.recs[j] = IF j = i THEN r ELSE b.recs[j]
  BY <1>4, <1>5, ExceptSeq
<1>7. BlockNode(u)
  BY <1>4, <1>6, BlockFacts DEF BlockNode
<1>8. ValueIn(u, k) = Stored(r)
  <2>1. u.recs[i] = r /\ u.keys[i] = k /\ i \in 1..Len(u.keys)
    BY <1>1, <1>4, <1>6
  <2> QED  BY <1>7, <2>1, ValueAt
<1>9. ASSUME NEW j \in Keys \ {k}
      PROVE  ValueIn(u, j) = ValueIn(b, j)
  <2>1. ASSUME NEW x \in 1..n, b.keys[x] = j
        PROVE  u.keys[x] = j /\ u.recs[x] = b.recs[x]
    BY <1>1, <1>4, <1>6, <2>1
  <2>2. \A x \in 1..Len(b.keys) : b.keys[x] = j =>
          \E y \in 1..Len(u.keys) : u.keys[y] = j /\ u.recs[y] = b.recs[x]
    BY <1>4, <2>1
  <2>3. \A y \in 1..Len(u.keys) : u.keys[y] = j => \E x \in 1..Len(b.keys) : b.keys[x] = j
    BY <1>4
  <2> QED  BY <1>7, <2>2, <2>3, ValueSame
<1> QED  BY <1>4, <1>7, <1>8, <1>9 DEF u

(* Updated, where it is.                                                          *)
LEMMA InsertedIs ==
    ASSUME NEW b, BlockNode(b), NEW k \in Keys, NEW r \in Records \cup {DELE}, ~HasKey(b, k)
    PROVE  LET u == Updated(b, k, r)
           IN  /\ BlockNode(u) /\ Len(u.keys) = Len(b.keys) + 1
               /\ \A i \in 1..Len(u.keys) : u.keys[i] = k \/ \E j \in 1..Len(b.keys) : u.keys[i] = b.keys[j]
               /\ ValueIn(u, k) = Stored(r)
               /\ \A j \in Keys \ {k} : ValueIn(u, j) = ValueIn(b, j)
<1> DEFINE u == Updated(b, k, r)
           n == Len(b.keys)
           p == SlotOf(b, k)
<1>1. /\ b.keys \in Seq(Nat) /\ b.keys \in Seq(Keys) /\ n \in Nat /\ Ascending(b.keys)
      /\ b.recs \in Seq(Records \cup {DELE}) /\ Len(b.recs) = n
      /\ \A i \in 1..n : b.keys[i] \in Nat /\ b.keys[i] # k
  BY BlockFacts DEF HasKey, Contains
<1>2. k \in Nat
  BY KeysAreNumbers
<1>3. PICK q \in 1..(n + 1) : Parts(b.keys, k, q)
  BY <1>1, <1>2, PartsExists
<1>4. \A j \in 1..n : (j < q => b.keys[j] < k) /\ (j >= q => k < b.keys[j])
  BY <1>1, <1>2, <1>3 DEF Parts
<1>5. p = q
  <2>1. \A j \in 1..n : b.keys[j] < k <=> j < q
    BY <1>1, <1>2, <1>4
  <2> QED  BY <1>1, <1>2, <2>1, SlotOfIs
<1>6. u = Block(InsertAt(b.keys, q, k), InsertAt(b.recs, q, r))
  BY <1>5 DEF Updated
<1>7. u.keys = InsertAt(b.keys, q, k) /\ u.recs = InsertAt(b.recs, q, r) /\ u = Block(u.keys, u.recs)
  BY <1>6 DEF Block
<1> HIDE DEF u, p
<1>8. /\ u.keys \in Seq(Keys) /\ Len(u.keys) = n + 1
      /\ \A j \in 1..(n + 1) : u.keys[j] = IF j < q THEN b.keys[j] ELSE IF j = q THEN k ELSE b.keys[j - 1]
  <2>1. /\ InsertAt(b.keys, q, k) \in Seq(Keys)
        /\ Len(InsertAt(b.keys, q, k)) = Len(b.keys) + 1
        /\ \A j \in 1..(Len(b.keys) + 1) :
             InsertAt(b.keys, q, k)[j] = IF j < q THEN b.keys[j] ELSE IF j = q THEN k ELSE b.keys[j - 1]
    <3>1. b.keys \in Seq(Keys) /\ q \in 1..(Len(b.keys) + 1)
      BY <1>1
    <3> HIDE DEF n
    <3> QED  BY <3>1, InsertAtIs, Z3T(30)
  <2> QED  BY <1>7, <2>1
<1>9. /\ u.recs \in Seq(Records \cup {DELE}) /\ Len(u.recs) = n + 1
      /\ \A j \in 1..(n + 1) : u.recs[j] = IF j < q THEN b.recs[j] ELSE IF j = q THEN r ELSE b.recs[j - 1]
  <2>1. q \in 1..(Len(b.recs) + 1)
    BY <1>1
  <2>2. /\ InsertAt(b.recs, q, r) \in Seq(Records \cup {DELE})
        /\ Len(InsertAt(b.recs, q, r)) = Len(b.recs) + 1
        /\ \A j \in 1..(Len(b.recs) + 1) :
             InsertAt(b.recs, q, r)[j] = IF j < q THEN b.recs[j] ELSE IF j = q THEN r ELSE b.recs[j - 1]
    <3> DEFINE R == Records \cup {DELE}
    <3>1. b.recs \in Seq(R) /\ r \in R
      BY <1>1
    <3> HIDE DEF n, R
    <3>2. /\ InsertAt(b.recs, q, r) \in Seq(R)
          /\ Len(InsertAt(b.recs, q, r)) = Len(b.recs) + 1
          /\ \A j \in 1..(Len(b.recs) + 1) :
               InsertAt(b.recs, q, r)[j] = IF j < q THEN b.recs[j] ELSE IF j = q THEN r ELSE b.recs[j - 1]
      BY <2>1, <3>1, InsertAtIs, Z3T(30)
    <3> QED  BY <3>2 DEF R
  <2> QED  BY <1>1, <1>7, <2>2
<1>10. Ascending(u.keys)
  <2> SUFFICES ASSUME NEW i \in 1..(n + 1), NEW j \in 1..(n + 1), i < j
               PROVE  u.keys[i] < u.keys[j]
    BY <1>8 DEF Ascending
  <2>1. CASE j < q
    <3>1. i \in 1..n /\ j \in 1..n /\ i < q
      BY <1>1, <2>1
    <3> QED  BY <1>8, <2>1, <3>1, <1>1 DEF Ascending
  <2>2. CASE j = q
    <3>1. i \in 1..n /\ i < q /\ u.keys[i] = b.keys[i] /\ u.keys[j] = k
      BY <1>1, <1>8, <2>2
    <3> QED  BY <1>4, <3>1
  <2>3. CASE j > q
    <3>1. j - 1 \in 1..n /\ j - 1 >= q /\ u.keys[j] = b.keys[j - 1]
      BY <1>1, <1>8, <2>3
    <3>2. k < b.keys[j - 1]
      BY <1>4, <3>1
    <3>3. CASE i < q
      <4>1. i \in 1..n /\ u.keys[i] = b.keys[i] /\ i < j - 1
        BY <1>1, <1>8, <2>3, <3>3
      <4> QED  BY <1>1, <3>1, <4>1 DEF Ascending
    <3>4. CASE i = q
      BY <1>8, <3>1, <3>2, <3>4
    <3>5. CASE i > q
      <4>1. i - 1 \in 1..n /\ u.keys[i] = b.keys[i - 1] /\ i - 1 < j - 1
        BY <1>1, <1>8, <2>3, <3>5
      <4> QED  BY <1>1, <3>1, <4>1 DEF Ascending
    <3> QED  BY <3>3, <3>4, <3>5
  <2> QED  BY <2>1, <2>2, <2>3
<1>11. BlockNode(u)
  BY <1>7, <1>8, <1>9, <1>10 DEF BlockNode
<1>12. ValueIn(u, k) = Stored(r)
  <2>1. u.recs[q] = r /\ u.keys[q] = k /\ q \in 1..Len(u.keys)
    BY <1>8, <1>9
  <2> QED  BY <1>11, <2>1, ValueAt
<1>13. ASSUME NEW i \in 1..(n + 1)
       PROVE  \/ u.keys[i] = k
              \/ \E j \in 1..n : u.keys[i] = b.keys[j] /\ u.recs[i] = b.recs[j]
  <2>1. CASE i < q
    <3>1. i \in 1..n
      BY <1>1, <2>1
    <3> QED  BY <1>8, <1>9, <2>1, <3>1
  <2>2. CASE i > q
    <3>1. i - 1 \in 1..n
      BY <1>1, <2>2
    <3> QED  BY <1>8, <1>9, <2>2, <3>1
  <2>3. CASE i = q
    BY <1>8, <2>3
  <2>4. i < q \/ i > q \/ i = q
    BY <1>1
  <2> QED  BY <2>1, <2>2, <2>3, <2>4
<1>14. ASSUME NEW j \in 1..n
       PROVE  \E i \in 1..(n + 1) : u.keys[i] = b.keys[j] /\ u.recs[i] = b.recs[j]
  <2>1. CASE j < q
    <3>1. j \in 1..(n + 1)
      BY <1>1
    <3> QED  BY <1>8, <1>9, <2>1, <3>1
  <2>2. CASE j >= q
    <3>1. j + 1 \in 1..(n + 1) /\ ~(j + 1 < q) /\ j + 1 # q /\ (j + 1) - 1 = j
      BY <1>1, <2>2
    <3> QED  BY <1>8, <1>9, <3>1
  <2> QED  BY <1>1, <2>1, <2>2
<1>15. ASSUME NEW j \in Keys \ {k}
       PROVE  ValueIn(u, j) = ValueIn(b, j)
  <2>1. \A x \in 1..Len(b.keys) : b.keys[x] = j =>
          \E y \in 1..Len(u.keys) : u.keys[y] = j /\ u.recs[y] = b.recs[x]
    BY <1>8, <1>14
  <2>2. \A y \in 1..Len(u.keys) : u.keys[y] = j => \E x \in 1..Len(b.keys) : b.keys[x] = j
    BY <1>8, <1>13
  <2> QED  BY <1>11, <2>1, <2>2, ValueSame
<1>16. /\ BlockNode(u) /\ Len(u.keys) = n + 1 /\ ValueIn(u, k) = Stored(r)
       /\ \A i \in 1..Len(u.keys) : u.keys[i] = k \/ \E j \in 1..n : u.keys[i] = b.keys[j]
       /\ \A j \in Keys \ {k} : ValueIn(u, j) = ValueIn(b, j)
  BY <1>8, <1>11, <1>12, <1>13, <1>15
<1> QED  BY <1>16 DEF u

(* The parts of a span below a separator, and from it on.                     *)
Lower(S, sep) == { n \in S : n < sep }
Upper(S, sep) == { n \in S : n >= sep }

(* The halves of a block: it has at least three entries, and the middle one is    *)
(* the first of the right half.                                                  *)
LEMMA BlockHalves ==
    ASSUME NEW b, BlockNode(b), Len(b.keys) = NORECS
    PROVE  LET l == LeftBlock(b)
               r == RightBlock(b)
               sep == RightBlock(b).keys[1]
           IN  /\ BlockNode(l) /\ Len(l.keys) <= NORECS - 1
               /\ BlockNode(r) /\ Len(r.keys) <= NORECS - 1
               /\ \E i, j \in 1..Len(b.keys) : sep = b.keys[i] /\ b.keys[j] < sep
               /\ \A i \in 1..Len(l.keys) : l.keys[i] < sep /\ \E j \in 1..Len(b.keys) : l.keys[i] = b.keys[j]
               /\ \A i \in 1..Len(r.keys) : r.keys[i] >= sep /\ \E j \in 1..Len(b.keys) : r.keys[i] = b.keys[j]
               /\ \A k \in Nat : k < sep => ValueIn(l, k) = ValueIn(b, k)
               /\ \A k \in Nat : k >= sep => ValueIn(r, k) = ValueIn(b, k)
<1> DEFINE n == Len(b.keys)
           m == (n - 1) \div 2
           l == LeftBlock(b)
           r == RightBlock(b)
           sep == r.keys[1]
<1>1. /\ b.keys \in Seq(Nat) /\ b.keys \in Seq(Keys) /\ n \in Nat /\ Ascending(b.keys)
      /\ b.recs \in Seq(Records \cup {DELE}) /\ Len(b.recs) = n
      /\ \A i \in 1..n : b.keys[i] \in Nat
  BY BlockFacts
<1>2. m \in 1..(n - 2)
  <2>1. n \in Nat /\ n >= 3
    BY SizesAssumption
  <2>2. \A x \in Nat : x >= 3 => (x - 1) \div 2 \in 1..(x - 2)
    OBVIOUS
  <2> QED  BY <2>1, <2>2
<1>3. l = Block(SubSeq(b.keys, 1, m), SubSeq(b.recs, 1, m))
      /\ r = Block(SubSeq(b.keys, m + 1, n), SubSeq(b.recs, m + 1, n))
  BY DEF LeftBlock, RightBlock
<1>4. /\ l.keys = SubSeq(b.keys, 1, m) /\ l.recs = SubSeq(b.recs, 1, m) /\ l = Block(l.keys, l.recs)
      /\ r.keys = SubSeq(b.keys, m + 1, n) /\ r.recs = SubSeq(b.recs, m + 1, n) /\ r = Block(r.keys, r.recs)
  <2> HIDE DEF l, r, m, sep, n
  <2> QED  BY <1>3 DEF Block
<1> HIDE DEF l, r, m
<1>5. 1 \in 1..(n + 1) /\ m \in 0..n /\ 1 <= m + 1 /\ m + 1 \in 1..(n + 1) /\ n \in 0..n
      /\ m + 1 <= n + 1 /\ m - 1 + 1 = m /\ n - (m + 1) + 1 = n - m
  BY <1>1, <1>2
<1>6. /\ l.keys \in Seq(Keys) /\ Len(l.keys) = m - 1 + 1
      /\ \A j \in 1..(m - 1 + 1) : l.keys[j] = b.keys[1 + j - 1]
  BY <1>1, <1>4, <1>5, SubSeqIs
<1>7. /\ l.recs \in Seq(Records \cup {DELE}) /\ Len(l.recs) = m - 1 + 1
      /\ \A j \in 1..(m - 1 + 1) : l.recs[j] = b.recs[1 + j - 1]
  <2>1. 1 \in 1..(Len(b.recs) + 1) /\ m \in 0..Len(b.recs)
    BY <1>1, <1>5
  <2>2. b.recs \in Seq(Records \cup {DELE}) /\ 1 <= m + 1
    BY <1>1, <1>5
  <2>3. /\ SubSeq(b.recs, 1, m) \in Seq(Records \cup {DELE}) /\ Len(SubSeq(b.recs, 1, m)) = m - 1 + 1
        /\ \A j \in 1..(m - 1 + 1) : SubSeq(b.recs, 1, m)[j] = b.recs[1 + j - 1]
    <3> HIDE DEF n, sep
    <3> QED  BY <2>1, <2>2, SubSeqIs
  <2> QED  BY <1>4, <2>3
<1>8. /\ r.keys \in Seq(Keys) /\ Len(r.keys) = n - (m + 1) + 1
      /\ \A j \in 1..(n - (m + 1) + 1) : r.keys[j] = b.keys[(m + 1) + j - 1]
  BY <1>1, <1>4, <1>5, SubSeqIs
<1>9. /\ r.recs \in Seq(Records \cup {DELE}) /\ Len(r.recs) = n - (m + 1) + 1
      /\ \A j \in 1..(n - (m + 1) + 1) : r.recs[j] = b.recs[(m + 1) + j - 1]
  BY <1>1, <1>4, <1>5, SubSeqIs
<1>10. /\ Len(l.keys) = m /\ Len(l.recs) = m
       /\ \A j \in 1..m : l.keys[j] = b.keys[j] /\ l.recs[j] = b.recs[j]
  <2>1. \A j \in 1..m : 1 + j - 1 = j
    BY <1>2
  <2> QED  BY <1>5, <1>6, <1>7, <2>1
<1>11. /\ Len(r.keys) = n - m /\ Len(r.recs) = n - m
       /\ \A j \in 1..(n - m) : r.keys[j] = b.keys[m + j] /\ r.recs[j] = b.recs[m + j]
  <2>1. \A j \in 1..(n - m) : (m + 1) + j - 1 = m + j
    BY <1>2
  <2> QED  BY <1>5, <1>8, <1>9, <2>1
<1>12. BlockNode(l)
  <2>1. Ascending(l.keys)
    <3> SUFFICES ASSUME NEW i \in 1..m, NEW j \in 1..m, i < j
                 PROVE  l.keys[i] < l.keys[j]
      BY <1>10 DEF Ascending
    <3>1. i \in 1..n /\ j \in 1..n
      BY <1>1, <1>2
    <3> QED  BY <1>1, <1>10, <3>1 DEF Ascending
  <2> QED  BY <1>4, <1>6, <1>7, <1>10, <2>1 DEF BlockNode
<1>13. BlockNode(r)
  <2>1. Ascending(r.keys)
    <3> SUFFICES ASSUME NEW i \in 1..(n - m), NEW j \in 1..(n - m), i < j
                 PROVE  r.keys[i] < r.keys[j]
      BY <1>11 DEF Ascending
    <3>1. m + i \in 1..n /\ m + j \in 1..n /\ m + i < m + j
      BY <1>1, <1>2
    <3>2. b.keys[m + i] < b.keys[m + j]
      BY <1>1, <3>1 DEF Ascending
    <3> QED  BY <1>11, <3>2
  <2> QED  BY <1>4, <1>8, <1>9, <1>11, <2>1 DEF BlockNode
<1>14. sep = b.keys[m + 1] /\ m + 1 \in 1..n /\ sep \in Nat
  <2>1. 1 \in 1..(n - m) /\ m + 1 \in 1..n
    BY <1>1, <1>2
  <2> QED  BY <1>1, <1>11, <2>1
<1> HIDE DEF sep
<1>15. \A i \in 1..m : l.keys[i] < sep /\ l.keys[i] = b.keys[i] /\ l.recs[i] = b.recs[i] /\ i \in 1..n
  <2> TAKE i \in 1..m
  <2>1. i \in 1..n /\ i < m + 1
    BY <1>1, <1>2
  <2>2. b.keys[i] < b.keys[m + 1]
    BY <1>1, <1>14, <2>1 DEF Ascending
  <2> QED  BY <1>10, <1>14, <2>1, <2>2
<1>16. \A i \in 1..(n - m) : /\ r.keys[i] >= sep /\ r.keys[i] = b.keys[m + i]
                             /\ r.recs[i] = b.recs[m + i] /\ m + i \in 1..n
  <2> TAKE i \in 1..(n - m)
  <2>1. m + i \in 1..n /\ (i = 1 \/ m + 1 < m + i)
    BY <1>1, <1>2
  <2>2. b.keys[m + i] >= b.keys[m + 1]
    <3>1. b.keys[m + i] \in Nat /\ b.keys[m + 1] \in Nat
      BY <1>1, <1>14, <2>1
    <3>2. m + 1 < m + i => b.keys[m + 1] < b.keys[m + i]
      BY <1>1, <1>14, <2>1 DEF Ascending
    <3> QED  BY <2>1, <3>1, <3>2
  <2> QED  BY <1>11, <1>14, <2>1, <2>2
<1>17. Len(l.keys) <= NORECS - 1 /\ Len(r.keys) <= NORECS - 1
  BY <1>1, <1>2, <1>10, <1>11
<1>18. \E i, j \in 1..n : sep = b.keys[i] /\ b.keys[j] < sep
  <2>1. 1 \in 1..m /\ 1 \in 1..n
    BY <1>1, <1>2
  <2>2. b.keys[1] < sep
    BY <1>15, <2>1
  <2> QED  BY <1>14, <2>1, <2>2
<1>19. ASSUME NEW k \in Nat, k < sep
       PROVE  ValueIn(l, k) = ValueIn(b, k)
  <2>1. ASSUME NEW j \in 1..n, b.keys[j] = k
        PROVE  \E i \in 1..m : l.keys[i] = k /\ l.recs[i] = b.recs[j]
    <3>1. j < m + 1
      <4>1. b.keys[j] < b.keys[m + 1]
        BY <1>14, <1>19, <2>1
      <4> QED  BY <1>1, <1>14, <4>1, AscendingAgain
    <3>2. j \in 1..m
      BY <1>2, <3>1
    <3> QED  BY <1>10, <2>1, <3>2
  <2>2. ASSUME NEW i \in 1..m, l.keys[i] = k
        PROVE  \E j \in 1..n : b.keys[j] = k
    BY <1>15, <2>2
  <2> QED  BY <1>10, <1>12, <2>1, <2>2, ValueSame
<1>20. ASSUME NEW k \in Nat, k >= sep
       PROVE  ValueIn(r, k) = ValueIn(b, k)
  <2>1. ASSUME NEW j \in 1..n, b.keys[j] = k
        PROVE  \E i \in 1..(n - m) : r.keys[i] = k /\ r.recs[i] = b.recs[j]
    <3>1. ~(j < m + 1)
      <4>1. ~(b.keys[j] < b.keys[m + 1])
        BY <1>14, <1>20, <2>1
      <4> QED  BY <1>1, <1>14, <4>1, AscendingAgain
    <3>2. j - m \in 1..(n - m) /\ m + (j - m) = j
      BY <1>1, <1>2, <3>1
    <3> QED  BY <1>11, <2>1, <3>2
  <2>2. ASSUME NEW i \in 1..(n - m), r.keys[i] = k
        PROVE  \E j \in 1..n : b.keys[j] = k
    BY <1>16, <2>2
  <2> QED  BY <1>11, <1>13, <2>1, <2>2, ValueSame
<1>21. /\ BlockNode(l) /\ Len(l.keys) <= NORECS - 1
       /\ BlockNode(r) /\ Len(r.keys) <= NORECS - 1
       /\ \E i, j \in 1..n : sep = b.keys[i] /\ b.keys[j] < sep
       /\ \A i \in 1..Len(l.keys) : l.keys[i] < sep /\ \E j \in 1..n : l.keys[i] = b.keys[j]
       /\ \A i \in 1..Len(r.keys) : r.keys[i] >= sep /\ \E j \in 1..n : r.keys[i] = b.keys[j]
  BY <1>10, <1>11, <1>12, <1>13, <1>15, <1>16, <1>17, <1>18
<1> QED  BY <1>19, <1>20, <1>21 DEF l, r, sep

-----------------------------------------------------------------------------
(* The indexes that addkey makes.                                                *)

(* WithKey, for any separator and file key.                                   *)
KeyInserted(ix, sep, e) ==
    LET i == ChildAt(ix, sep)
    IN  Index(ix.parent, InsertAt(ix.keys, i, sep), InsertAt(ix.kids, i + 1, e))

(* WithKey inserts what the operation carries.                                *)
LEMMA WithKeyIs == \A ix : WithKey(ix) = KeyInserted(ix, op.sep, op.extra)
BY DEF WithKey, KeyInserted

(* A whole index, spelled out.                                                *)
LEMMA IndexFacts ==
    ASSUME NEW ix, IndexNode(ix)
    PROVE  /\ ix.type = "index" /\ ix.keys \in Seq(Nat) /\ ix.keys \in Seq(Keys)
           /\ ix.kids \in Seq(Fkeys) /\ ix.parent \in Fkeys
           /\ Len(ix.keys) \in Nat /\ Len(ix.kids) = Len(ix.keys) + 1 /\ Ascending(ix.keys)
           /\ \A i \in 1..Len(ix.keys) : ix.keys[i] \in Keys /\ ix.keys[i] \in Nat
           /\ \A n \in Nat : ChildAt(ix, n) \in 1..Len(ix.kids) /\ Parts(ix.keys, n, ChildAt(ix, n))
<1>1. /\ ix.type = "index" /\ ix.keys \in Seq(Keys) /\ ix.kids \in Seq(Fkeys) /\ ix.parent \in Fkeys
      /\ Len(ix.kids) = Len(ix.keys) + 1 /\ Ascending(ix.keys)
  BY DEF IndexNode, Index
<1>2. /\ ix.keys \in Seq(Nat) /\ Len(ix.keys) \in Nat
      /\ \A i \in 1..Len(ix.keys) : ix.keys[i] \in Keys /\ ix.keys[i] \in Nat
  BY <1>1, KeysAreNats
<1>3. \A n \in Nat : ChildAt(ix, n) \in 1..Len(ix.kids) /\ Parts(ix.keys, n, ChildAt(ix, n))
  BY <1>1, <1>2, ChildAtParts
<1> QED  BY <1>1, <1>2, <1>3

(* An index with one separator more, where some smaller number leads to the   *)
(* same child: which child each number now leads to.                          *)
LEMMA KeyInsertedIs ==
    ASSUME NEW ix, IndexNode(ix), NEW sep \in Keys, NEW e \in Fkeys,
           NEW c, c = ChildAt(ix, sep), NEW m \in Nat, m < sep, ChildAt(ix, m) = c
    PROVE  LET x == KeyInserted(ix, sep, e)
           IN  /\ IndexNode(x) /\ x.parent = ix.parent
               /\ Len(x.keys) = Len(ix.keys) + 1
               /\ c \in 1..Len(ix.kids)
               /\ \A i \in 1..Len(x.keys) : x.keys[i] = sep \/ \E j \in 1..Len(ix.keys) : x.keys[i] = ix.keys[j]
               /\ \A i \in 1..(Len(ix.kids) + 1) :
                    x.kids[i] = IF i <= c THEN ix.kids[i] ELSE IF i = c + 1 THEN e ELSE ix.kids[i - 1]
               /\ \A n \in Nat : ChildAt(x, n) =
                    IF ChildAt(ix, n) < c THEN ChildAt(ix, n)
                    ELSE IF ChildAt(ix, n) > c THEN ChildAt(ix, n) + 1
                    ELSE IF n < sep THEN c ELSE c + 1
               /\ ~Contains(ix.keys, sep)
<1> DEFINE x == KeyInserted(ix, sep, e)
           q == ix.keys
           n == Len(q)
<1>1. /\ q \in Seq(Keys) /\ q \in Seq(Nat) /\ n \in Nat /\ Ascending(q)
      /\ ix.kids \in Seq(Fkeys) /\ ix.parent \in Fkeys /\ Len(ix.kids) = n + 1
      /\ \A i \in 1..n : q[i] \in Nat
  BY IndexFacts
<1>2. sep \in Nat
  BY KeysAreNumbers
<1>3. c \in 1..(n + 1) /\ Parts(q, sep, c) /\ Parts(q, m, c)
  BY <1>1, <1>2, IndexFacts
<1>4. \A j \in 1..n : (j < c => q[j] < sep) /\ (j >= c => sep < q[j])
  <2> TAKE j \in 1..n
  <2>1. q[j] \in Nat /\ (j < c => q[j] <= m) /\ (j >= c => sep < q[j])
    BY <1>1, <1>3 DEF Parts
  <2> QED  BY <1>2, <2>1
<1>5. x = Index(ix.parent, InsertAt(q, c, sep), InsertAt(ix.kids, c + 1, e))
  BY DEF KeyInserted
<1>6. x.parent = ix.parent /\ x.keys = InsertAt(q, c, sep) /\ x.kids = InsertAt(ix.kids, c + 1, e)
      /\ x = Index(x.parent, x.keys, x.kids)
  <2> HIDE DEF x, q, n
  <2> QED  BY <1>5 DEF Index
<1> HIDE DEF x
<1>7. /\ x.keys \in Seq(Keys) /\ Len(x.keys) = n + 1
      /\ \A j \in 1..(n + 1) : x.keys[j] = IF j < c THEN q[j] ELSE IF j = c THEN sep ELSE q[j - 1]
  <2>1. /\ InsertAt(q, c, sep) \in Seq(Keys) /\ Len(InsertAt(q, c, sep)) = Len(q) + 1
        /\ \A j \in 1..(Len(q) + 1) :
             InsertAt(q, c, sep)[j] = IF j < c THEN q[j] ELSE IF j = c THEN sep ELSE q[j - 1]
    <3>1. q \in Seq(Keys) /\ c \in 1..(Len(q) + 1)
      BY <1>1, <1>3
    <3> HIDE DEF q, n
    <3> QED  BY <3>1, InsertAtIs, Z3T(30)
  <2> QED  BY <1>6, <2>1
<1>8. /\ x.kids \in Seq(Fkeys) /\ Len(x.kids) = n + 2
      /\ \A j \in 1..(n + 2) :
           x.kids[j] = IF j < c + 1 THEN ix.kids[j] ELSE IF j = c + 1 THEN e ELSE ix.kids[j - 1]
  <2> DEFINE r == ix.kids
  <2>1. /\ InsertAt(r, c + 1, e) \in Seq(Fkeys) /\ Len(InsertAt(r, c + 1, e)) = Len(r) + 1
        /\ \A j \in 1..(Len(r) + 1) :
             InsertAt(r, c + 1, e)[j] = IF j < c + 1 THEN r[j] ELSE IF j = c + 1 THEN e ELSE r[j - 1]
    <3>1. r \in Seq(Fkeys) /\ c + 1 \in 1..(Len(r) + 1)
      BY <1>1, <1>3
    <3> HIDE DEF r, n, q
    <3> QED  BY <3>1, InsertAtIs, Z3T(30)
  <2>2. Len(r) + 1 = n + 2
    BY <1>1
  <2> QED  BY <1>6, <2>1, <2>2
<1>9. Ascending(x.keys)
  <2> SUFFICES ASSUME NEW i \in 1..(n + 1), NEW j \in 1..(n + 1), i < j
               PROVE  x.keys[i] < x.keys[j]
    BY <1>7 DEF Ascending
  <2>1. CASE j < c
    <3>1. i \in 1..n /\ j \in 1..n /\ i < c
      BY <1>1, <1>3, <2>1
    <3> QED  BY <1>7, <2>1, <3>1, <1>1 DEF Ascending
  <2>2. CASE j = c
    <3>1. i \in 1..n /\ i < c /\ x.keys[i] = q[i] /\ x.keys[j] = sep
      BY <1>1, <1>3, <1>7, <2>2
    <3> QED  BY <1>4, <3>1
  <2>3. CASE j > c
    <3>1. j - 1 \in 1..n /\ j - 1 >= c /\ x.keys[j] = q[j - 1]
      BY <1>1, <1>3, <1>7, <2>3
    <3>2. sep < q[j - 1]
      BY <1>4, <3>1
    <3>3. CASE i < c
      <4>1. i \in 1..n /\ x.keys[i] = q[i] /\ i < j - 1
        BY <1>1, <1>3, <1>7, <2>3, <3>3
      <4> QED  BY <1>1, <3>1, <4>1 DEF Ascending
    <3>4. CASE i = c
      BY <1>7, <3>1, <3>2, <3>4
    <3>5. CASE i > c
      <4>1. i - 1 \in 1..n /\ x.keys[i] = q[i - 1] /\ i - 1 < j - 1
        BY <1>1, <1>3, <1>7, <2>3, <3>5
      <4> QED  BY <1>1, <3>1, <4>1 DEF Ascending
    <3>6. i < c \/ i = c \/ i > c
      BY <1>3
    <3> QED  BY <3>3, <3>4, <3>5, <3>6
  <2>4. j < c \/ j = c \/ j > c
    BY <1>3
  <2> QED  BY <2>1, <2>2, <2>3, <2>4
<1>10. IndexNode(x)
  <2>1. Len(x.kids) = Len(x.keys) + 1
    BY <1>1, <1>7, <1>8
  <2> QED  BY <1>1, <1>6, <1>7, <1>8, <1>9, <2>1 DEF IndexNode
<1>11. ASSUME NEW i \in 1..(n + 1)
       PROVE  x.keys[i] = sep \/ \E j \in 1..n : x.keys[i] = q[j]
  <2>1. CASE i < c
    <3>1. i \in 1..n
      BY <1>1, <1>3, <2>1
    <3> QED  BY <1>7, <2>1, <3>1
  <2>2. CASE i > c
    <3>1. i - 1 \in 1..n /\ ~(i < c) /\ i # c
      BY <1>1, <1>3, <2>2
    <3> QED  BY <1>7, <3>1
  <2>3. CASE i = c
    BY <1>7, <2>3
  <2>4. i < c \/ i = c \/ i > c
    BY <1>3
  <2> QED  BY <2>1, <2>2, <2>3, <2>4
<1>12. \A i \in 1..(Len(ix.kids) + 1) :
          x.kids[i] = IF i <= c THEN ix.kids[i] ELSE IF i = c + 1 THEN e ELSE ix.kids[i - 1]
  <2>1. Len(ix.kids) + 1 = n + 2
    BY <1>1
  <2>2. \A i \in 1..(n + 2) : i < c + 1 <=> i <= c
    BY <1>3
  <2> QED  BY <1>8, <2>1, <2>2
<1>13. ASSUME NEW k \in Nat
       PROVE  ChildAt(x, k) = IF ChildAt(ix, k) < c THEN ChildAt(ix, k)
                              ELSE IF ChildAt(ix, k) > c THEN ChildAt(ix, k) + 1
                              ELSE IF k < sep THEN c ELSE c + 1
  <2> DEFINE d == ChildAt(ix, k)
             w == IF d < c THEN d ELSE IF d > c THEN d + 1 ELSE IF k < sep THEN c ELSE c + 1
  <2>1. d \in 1..(n + 1) /\ Parts(q, k, d)
    BY <1>1, IndexFacts
  <2> HIDE DEF d
  <2>2. w \in 1..((n + 1) + 1)
    BY <1>1, <1>3, <2>1
  <2>3. ASSUME NEW j \in 1..(n + 1)
        PROVE  (j < w => x.keys[j] <= k) /\ (j >= w => k < x.keys[j])
    <3>1. \A i \in 1..n : q[i] \in Nat /\ (i < d => q[i] <= k) /\ (i >= d => k < q[i])
      BY <1>1, <2>1 DEF Parts
    <3>2. CASE j < c
      <4>1. j \in 1..n /\ x.keys[j] = q[j] /\ q[j] < sep
        BY <1>1, <1>3, <1>4, <1>7, <3>2
      <4>2. j < w <=> j < d
        BY <1>3, <2>1, <3>2
      <4>3. q[j] \in Nat /\ (j < d => q[j] <= k) /\ (j >= d => k < q[j])
        BY <3>1, <4>1
      <4>4. j >= w <=> j >= d
        BY <1>3, <2>1, <3>2
      <4> HIDE DEF w
      <4> QED  BY <4>1, <4>2, <4>3, <4>4
    <3>3. CASE j = c
      <4>1. x.keys[j] = sep
        BY <1>7, <3>3
      <4>2. c <= n => (c < d => q[c] <= k) /\ (c >= d => k < q[c]) /\ sep < q[c] /\ q[c] \in Nat
        <5> SUFFICES ASSUME c <= n PROVE (c < d => q[c] <= k) /\ (c >= d => k < q[c]) /\ sep < q[c] /\ q[c] \in Nat
          OBVIOUS
        <5>1. c \in 1..n
          BY <1>1, <1>3
        <5> QED  BY <1>3, <1>4, <3>1, <5>1
      <4>3. c - 1 >= 1 => (c - 1 < d => q[c - 1] <= k) /\ (c - 1 >= d => k < q[c - 1]) /\ q[c - 1] < sep /\ q[c - 1] \in Nat
        <5> SUFFICES ASSUME c - 1 >= 1
                     PROVE (c - 1 < d => q[c - 1] <= k) /\ (c - 1 >= d => k < q[c - 1]) /\ q[c - 1] < sep /\ q[c - 1] \in Nat
          OBVIOUS
        <5>1. c - 1 \in 1..n /\ c - 1 < c
          BY <1>1, <1>3
        <5> QED  BY <1>4, <3>1, <5>1
      <4>4. CASE d < c
        BY <1>2, <1>3, <2>1, <3>3, <4>1, <4>3, <4>4
      <4>5. CASE d > c
        BY <1>1, <1>2, <1>3, <2>1, <3>3, <4>1, <4>2, <4>5
      <4>6. CASE d = c
        BY <1>2, <1>3, <2>1, <3>3, <4>1, <4>6
      <4>7. d < c \/ d > c \/ d = c
        BY <1>3, <2>1
      <4> HIDE DEF w
      <4> QED  BY <4>4, <4>5, <4>6, <4>7
    <3>4. CASE j > c
      <4>1. j - 1 \in 1..n /\ x.keys[j] = q[j - 1] /\ sep < q[j - 1]
        <5>1. j - 1 \in 1..n /\ ~(j < c) /\ j # c /\ j - 1 >= c
          BY <1>1, <1>3, <3>4
        <5> QED  BY <1>4, <1>7, <5>1
      <4>2. q[j - 1] \in Nat /\ (j - 1 < d => q[j - 1] <= k) /\ (j - 1 >= d => k < q[j - 1])
        BY <3>1, <4>1
      <4>3. CASE d < c
        BY <1>3, <2>1, <3>4, <4>1, <4>2, <4>3
      <4>4. CASE d > c
        BY <1>3, <2>1, <3>4, <4>1, <4>2, <4>4
      <4>5. CASE d = c
        BY <1>3, <2>1, <3>4, <4>1, <4>2, <4>5
      <4>6. d < c \/ d > c \/ d = c
        BY <1>3, <2>1
      <4> HIDE DEF w
      <4> QED  BY <4>3, <4>4, <4>5, <4>6
    <3>5. j < c \/ j = c \/ j > c
      BY <1>3
    <3> HIDE DEF w
    <3> QED  BY <3>2, <3>3, <3>4, <3>5
  <2> HIDE DEF w
  <2>4. Parts(x.keys, k, w)
    BY <1>7, <2>2, <2>3 DEF Parts
  <2>5. ChildAt(x, k) = w
    <3>1. x.keys \in Seq(Nat)
      BY <1>7, KeysAreNats
    <3> QED  BY <2>4, <3>1, ChildAtIs
  <2> QED  BY <2>5 DEF w, d
<1>14. ~Contains(q, sep)
  BY <1>1, <1>2, <1>3, <1>4 DEF Contains
<1>15. /\ IndexNode(x) /\ x.parent = ix.parent /\ Len(x.keys) = n + 1 /\ c \in 1..Len(ix.kids)
       /\ \A i \in 1..Len(x.keys) : x.keys[i] = sep \/ \E j \in 1..n : x.keys[i] = q[j]
  BY <1>1, <1>3, <1>6, <1>7, <1>10, <1>11
<1> QED  BY <1>12, <1>13, <1>14, <1>15 DEF x

(* The halves of an index, and the separator between them.                       *)
LEMMA IndexHalves ==
    ASSUME NEW ix, IndexNode(ix), Len(ix.keys) = NOENTS - 1
    PROVE  LET l == LeftIndex(ix)
               r == RightIndex(ix)
               sep == ix.keys[Half + 1]
           IN  /\ IndexNode(l) /\ l.parent = ix.parent /\ Len(l.keys) <= NOENTS - 2 /\ Len(l.kids) = Half + 1
               /\ IndexNode(r) /\ Len(r.keys) <= NOENTS - 2 /\ Len(r.kids) = Len(ix.kids) - (Half + 1)
               /\ Half \in Nat /\ Half + 1 \in 1..Len(ix.keys) /\ sep \in Keys
               /\ \A i \in 1..Len(l.keys) : i \in 1..Len(ix.keys) /\ l.keys[i] = ix.keys[i] /\ l.keys[i] < sep
               /\ \A i \in 1..Len(r.keys) : Half + 1 + i \in 1..Len(ix.keys)
                                            /\ r.keys[i] = ix.keys[Half + 1 + i] /\ sep < r.keys[i]
               /\ \A i \in 1..Len(l.kids) : l.kids[i] = ix.kids[i]
               /\ \A i \in 1..Len(r.kids) : r.kids[i] = ix.kids[Half + 1 + i]
               /\ \A n \in Nat : n < sep => ChildAt(ix, n) <= Half + 1 /\ ChildAt(l, n) = ChildAt(ix, n)
               /\ \A n \in Nat : n >= sep => ChildAt(ix, n) > Half + 1
                                             /\ ChildAt(r, n) = ChildAt(ix, n) - (Half + 1)
<1> DEFINE q == ix.keys
           n == Len(q)
           l == LeftIndex(ix)
           r == RightIndex(ix)
           sep == q[Half + 1]
<1>1. /\ q \in Seq(Keys) /\ q \in Seq(Nat) /\ n \in Nat /\ Ascending(q)
      /\ ix.kids \in Seq(Fkeys) /\ ix.parent \in Fkeys /\ Len(ix.kids) = n + 1
      /\ \A i \in 1..n : q[i] \in Nat /\ q[i] \in Keys
  BY IndexFacts
<1>2. Half \in Nat /\ Half + 1 \in 1..n /\ n = NOENTS - 1
  <2>1. n \in Nat /\ NOENTS \in Nat /\ NOENTS >= 3 /\ n = NOENTS - 1
    BY <1>1, SizesAssumption
  <2>2. \A y \in Nat : y >= 3 => y \div 2 >= 1 /\ y \div 2 <= y - 1 /\ y \div 2 \in Nat
    OBVIOUS
  <2>3. NOENTS \div 2 >= 1 /\ NOENTS \div 2 <= NOENTS - 1 /\ NOENTS \div 2 \in Nat
    BY <2>1, <2>2
  <2> DEFINE v == NOENTS \div 2
  <2>4. Half = v - 1
    BY DEF Half
  <2> HIDE DEF v, n
  <2> QED  BY <2>1, <2>3, <2>4 DEF v
<1>3. PICK a : a = Half
  OBVIOUS
<1>4. a \in Nat /\ a + 1 \in 1..n
  BY <1>2, <1>3
<1>5. l = Index(ix.parent, SubSeq(q, 1, a), SubSeq(ix.kids, 1, a + 1))
      /\ r = Index(NoParent, SubSeq(q, a + 2, n), SubSeq(ix.kids, a + 2, Len(ix.kids)))
      /\ sep = q[a + 1]
  BY <1>3 DEF LeftIndex, RightIndex
<1> HIDE DEF l, r
<1>6. /\ l.parent = ix.parent /\ l.keys = SubSeq(q, 1, a) /\ l.kids = SubSeq(ix.kids, 1, a + 1)
      /\ l = Index(l.parent, l.keys, l.kids)
      /\ r.parent = NoParent /\ r.keys = SubSeq(q, a + 2, n) /\ r.kids = SubSeq(ix.kids, a + 2, Len(ix.kids))
      /\ r = Index(r.parent, r.keys, r.kids)
  <2> HIDE DEF q, n, sep
  <2> QED  BY <1>5 DEF Index
<1> HIDE DEF sep
<1>7. l.keys \in Seq(Keys) /\ Len(l.keys) = a /\ \A j \in 1..a : l.keys[j] = q[j]
  <2>1. 1 \in 1..(Len(q) + 1) /\ a \in 0..Len(q) /\ 1 <= a + 1 /\ q \in Seq(Keys)
    BY <1>1, <1>4
  <2>2. /\ SubSeq(q, 1, a) \in Seq(Keys) /\ Len(SubSeq(q, 1, a)) = a - 1 + 1
        /\ \A j \in 1..(a - 1 + 1) : SubSeq(q, 1, a)[j] = q[1 + j - 1]
    <3> HIDE DEF q, n
    <3> QED  BY <2>1, SubSeqIs
  <2>3. a - 1 + 1 = a /\ \A j \in 1..a : 1 + j - 1 = j
    BY <1>4
  <2> QED  BY <1>6, <2>2, <2>3
<1>8. l.kids \in Seq(Fkeys) /\ Len(l.kids) = a + 1 /\ \A j \in 1..(a + 1) : l.kids[j] = ix.kids[j]
  <2> DEFINE t == ix.kids
  <2>1. 1 \in 1..(Len(t) + 1) /\ a + 1 \in 0..Len(t) /\ 1 <= (a + 1) + 1 /\ t \in Seq(Fkeys)
    BY <1>1, <1>4
  <2>2. /\ SubSeq(t, 1, a + 1) \in Seq(Fkeys) /\ Len(SubSeq(t, 1, a + 1)) = (a + 1) - 1 + 1
        /\ \A j \in 1..((a + 1) - 1 + 1) : SubSeq(t, 1, a + 1)[j] = t[1 + j - 1]
    <3> HIDE DEF t, n
    <3> QED  BY <2>1, SubSeqIs
  <2>3. (a + 1) - 1 + 1 = a + 1 /\ \A j \in 1..(a + 1) : 1 + j - 1 = j
    BY <1>4
  <2> QED  BY <1>6, <2>2, <2>3
<1>9. r.keys \in Seq(Keys) /\ Len(r.keys) = n - (a + 1) /\ \A j \in 1..(n - (a + 1)) : r.keys[j] = q[a + 1 + j]
  <2>1. a + 2 \in 1..(Len(q) + 1) /\ n \in 0..Len(q) /\ a + 2 <= n + 1 /\ q \in Seq(Keys)
    BY <1>1, <1>4
  <2>2. /\ SubSeq(q, a + 2, n) \in Seq(Keys) /\ Len(SubSeq(q, a + 2, n)) = n - (a + 2) + 1
        /\ \A j \in 1..(n - (a + 2) + 1) : SubSeq(q, a + 2, n)[j] = q[(a + 2) + j - 1]
    <3> HIDE DEF q, n
    <3> QED  BY <2>1, SubSeqIs
  <2>3. n - (a + 2) + 1 = n - (a + 1) /\ \A j \in 1..(n - (a + 1)) : (a + 2) + j - 1 = a + 1 + j
    BY <1>1, <1>4
  <2> QED  BY <1>6, <2>2, <2>3
<1>10. r.kids \in Seq(Fkeys) /\ Len(r.kids) = n - a /\ \A j \in 1..(n - a) : r.kids[j] = ix.kids[a + 1 + j]
  <2> DEFINE t == ix.kids
  <2>1. a + 2 \in 1..(Len(t) + 1) /\ Len(t) \in 0..Len(t) /\ a + 2 <= Len(t) + 1 /\ t \in Seq(Fkeys)
    BY <1>1, <1>4
  <2>2. /\ SubSeq(t, a + 2, Len(t)) \in Seq(Fkeys) /\ Len(SubSeq(t, a + 2, Len(t))) = Len(t) - (a + 2) + 1
        /\ \A j \in 1..(Len(t) - (a + 2) + 1) : SubSeq(t, a + 2, Len(t))[j] = t[(a + 2) + j - 1]
    <3> HIDE DEF t, n
    <3> QED  BY <2>1, SubSeqIs
  <2>3. Len(t) - (a + 2) + 1 = n - a /\ \A j \in 1..(n - a) : (a + 2) + j - 1 = a + 1 + j
    BY <1>1, <1>4
  <2> QED  BY <1>6, <2>2, <2>3
<1>11. sep = q[a + 1] /\ sep \in Nat /\ sep \in Keys
  <2>1. sep = q[a + 1]
    BY <1>5
  <2> QED  BY <1>1, <1>4, <2>1
<1>12. \A i \in 1..a : i \in 1..n /\ l.keys[i] = q[i] /\ q[i] < sep
  <2> TAKE i \in 1..a
  <2>1. i \in 1..n /\ i < a + 1
    BY <1>1, <1>4
  <2> QED  BY <1>1, <1>4, <1>7, <1>11, <2>1 DEF Ascending
<1>13. \A i \in 1..(n - (a + 1)) : a + 1 + i \in 1..n /\ r.keys[i] = q[a + 1 + i] /\ sep < q[a + 1 + i]
  <2> TAKE i \in 1..(n - (a + 1))
  <2>1. a + 1 + i \in 1..n /\ a + 1 < a + 1 + i
    BY <1>1, <1>4
  <2> QED  BY <1>1, <1>4, <1>9, <1>11, <2>1 DEF Ascending
<1>14. IndexNode(l)
  <2>1. Ascending(l.keys)
    <3> SUFFICES ASSUME NEW i \in 1..a, NEW j \in 1..a, i < j
                 PROVE  l.keys[i] < l.keys[j]
      BY <1>7 DEF Ascending
    <3> QED  BY <1>1, <1>12 DEF Ascending
  <2> QED  BY <1>1, <1>6, <1>7, <1>8, <2>1 DEF IndexNode
<1>15. IndexNode(r)
  <2>1. Ascending(r.keys)
    <3> SUFFICES ASSUME NEW i \in 1..(n - (a + 1)), NEW j \in 1..(n - (a + 1)), i < j
                 PROVE  r.keys[i] < r.keys[j]
      BY <1>9 DEF Ascending
    <3>1. a + 1 + i \in 1..n /\ a + 1 + j \in 1..n /\ a + 1 + i < a + 1 + j
      BY <1>4, <1>13
    <3>2. q[a + 1 + i] < q[a + 1 + j]
      BY <1>1, <3>1 DEF Ascending
    <3> QED  BY <1>13, <3>2
  <2>2. r.parent \in Fkeys
    BY <1>6 DEF NoParent, Fkeys
  <2>3. Len(r.kids) = Len(r.keys) + 1
    BY <1>1, <1>4, <1>9, <1>10
  <2> QED  BY <1>6, <1>9, <1>10, <2>1, <2>2, <2>3 DEF IndexNode
<1>16. ASSUME NEW k \in Nat, k < sep
       PROVE  ChildAt(ix, k) <= a + 1 /\ ChildAt(l, k) = ChildAt(ix, k)
  <2> DEFINE d == ChildAt(ix, k)
  <2>1. d \in 1..(n + 1) /\ Parts(q, k, d)
    BY <1>1, IndexFacts
  <2> HIDE DEF d
  <2>2. \A j \in 1..n : (j < d => q[j] <= k) /\ (j >= d => k < q[j])
    BY <2>1 DEF Parts
  <2>3. d <= a + 1
    <3>1. ~(q[a + 1] <= k)
      BY <1>11, <1>16
    <3>2. ~(a + 1 < d)
      BY <1>4, <2>2, <3>1
    <3> QED  BY <1>4, <2>1, <3>2
  <2>4. Parts(l.keys, k, d)
    <3>1. d \in 1..(a + 1)
      BY <2>1, <2>3
    <3> QED  BY <1>7, <1>12, <2>2, <3>1 DEF Parts
  <2>5. l.keys \in Seq(Nat)
    BY <1>7, KeysAreNats
  <2> QED  BY <2>3, <2>4, <2>5, ChildAtIs DEF d
<1>17. ASSUME NEW k \in Nat, k >= sep
       PROVE  ChildAt(ix, k) > a + 1 /\ ChildAt(r, k) = ChildAt(ix, k) - (a + 1)
  <2> DEFINE d == ChildAt(ix, k)
  <2>1. d \in 1..(n + 1) /\ Parts(q, k, d)
    BY <1>1, IndexFacts
  <2> HIDE DEF d
  <2>2. \A j \in 1..n : (j < d => q[j] <= k) /\ (j >= d => k < q[j])
    BY <2>1 DEF Parts
  <2>3. d > a + 1
    <3>1. ~(k < q[a + 1])
      BY <1>11, <1>17
    <3>2. ~(a + 1 >= d)
      BY <1>4, <2>2, <3>1
    <3> QED  BY <1>4, <2>1, <3>2
  <2>4. Parts(r.keys, k, d - (a + 1))
    <3>1. d - (a + 1) \in 1..(n - (a + 1) + 1)
      BY <1>1, <1>4, <2>1, <2>3
    <3>2. ASSUME NEW j \in 1..(n - (a + 1))
          PROVE  (j < d - (a + 1) => r.keys[j] <= k) /\ (j >= d - (a + 1) => k < r.keys[j])
      <4>1. a + 1 + j \in 1..n /\ r.keys[j] = q[a + 1 + j]
        BY <1>13
      <4>2. (j < d - (a + 1) <=> a + 1 + j < d) /\ (j >= d - (a + 1) <=> a + 1 + j >= d)
        BY <1>4, <2>1
      <4> QED  BY <2>2, <4>1, <4>2
    <3> QED  BY <1>9, <3>1, <3>2 DEF Parts
  <2>5. r.keys \in Seq(Nat)
    BY <1>9, KeysAreNats
  <2> QED  BY <2>3, <2>4, <2>5, ChildAtIs DEF d
<1>18. Len(l.keys) <= NOENTS - 2 /\ Len(r.keys) <= NOENTS - 2 /\ Len(r.kids) = Len(ix.kids) - (a + 1)
  <2>1. NOENTS \in Nat
    BY SizesAssumption
  <2> QED  BY <1>1, <1>2, <1>4, <1>7, <1>9, <1>10, <2>1
<1>19. /\ IndexNode(l) /\ l.parent = ix.parent /\ Len(l.keys) <= NOENTS - 2 /\ Len(l.kids) = a + 1
       /\ IndexNode(r) /\ Len(r.keys) <= NOENTS - 2 /\ Len(r.kids) = Len(ix.kids) - (a + 1)
       /\ a \in Nat /\ a + 1 \in 1..n /\ sep \in Keys
  BY <1>4, <1>6, <1>8, <1>11, <1>14, <1>15, <1>18
<1>20. /\ \A i \in 1..Len(l.keys) : i \in 1..n /\ l.keys[i] = q[i] /\ l.keys[i] < sep
       /\ \A i \in 1..Len(r.keys) : a + 1 + i \in 1..n /\ r.keys[i] = q[a + 1 + i] /\ sep < r.keys[i]
       /\ \A i \in 1..Len(l.kids) : l.kids[i] = ix.kids[i]
       /\ \A i \in 1..Len(r.kids) : r.kids[i] = ix.kids[a + 1 + i]
  BY <1>7, <1>8, <1>9, <1>10, <1>12, <1>13
<1> QED  BY <1>3, <1>16, <1>17, <1>19, <1>20 DEF l, r, sep

-----------------------------------------------------------------------------
(* Splitting a node n of a tree at sep: the upper part of its span goes to e.    *)

(* The spans s1 and heights h1 after n was split: those of e, and of the      *)
(* nodes there were.                                                          *)
SpansSplit(D, s, h, n, e, sep, s1, h1) ==
    /\ \A f \in D \ {n} : s1[f] = s[f]
    /\ \A f \in D : h1[f] = h[f]
    /\ h1[e] = h[n] /\ s1[n] = Lower(s[n], sep) /\ s1[e] = Upper(s[n], sep)

(* Such spans and heights.                                                    *)
SplitSpans(D, s, n, e, sep) ==
    [ f \in D \cup {e} |-> IF f = n THEN Lower(s[n], sep) ELSE IF f = e THEN Upper(s[n], sep) ELSE s[f] ]

SplitRanks(D, h, n, e) == [ f \in D \cup {e} |-> IF f = e THEN h[n] ELSE h[f] ]

(* A separator and something below it in the span.                               *)
Divides(S, sep) == sep \in S /\ sep \in Keys /\ \E m \in S : m < sep

(* A split keeps the spans at one height disjoint.                            *)
LEMMA SpreadSplit ==
    ASSUME NEW D, NEW s, NEW h, \A f \in D : s[f] \subseteq Nat, Spread(D, s, h), NEW n \in D, NEW e, e \notin D, NEW sep \in Nat,
           NEW s1, NEW h1, SpansSplit(D, s, h, n, e, sep, s1, h1)
    PROVE  Spread(D \cup {e}, s1, h1)
<1> SUFFICES ASSUME NEW f \in D \cup {e}, NEW g \in D \cup {e}, f # g, h1[f] = h1[g], NEW k \in s1[f] \cap s1[g]
             PROVE  FALSE
  BY DEF Spread
<1> DEFINE Of(x) == IF x = e THEN n ELSE x
<1>1. ASSUME NEW x \in D \cup {e}
      PROVE  Of(x) \in D /\ h1[x] = h[Of(x)] /\ s1[x] \subseteq s[Of(x)]
  BY <1>1 DEF SpansSplit, Lower, Upper
<1>2. Of(f) \in D /\ Of(g) \in D /\ h[Of(f)] = h[Of(g)] /\ k \in s[Of(f)] \cap s[Of(g)]
  <2> HIDE DEF Of
  <2> QED  BY <1>1
<1>3. Of(f) = Of(g)
  <2> HIDE DEF Of
  <2> QED  BY <1>2 DEF Spread
<1>4. k \in s1[n] /\ k \in s1[e]
  BY <1>3
<1>5. k \in s[n] /\ k < sep /\ k >= sep /\ k \in Nat
  BY <1>4 DEF SpansSplit, Lower, Upper
<1> QED  BY <1>5

(* Neither half of the span is empty.                                         *)
LEMMA HalfSpans ==
    ASSUME NEW D, NEW s, NEW h, NEW n \in D, NEW e, NEW sep, s[n] \subseteq Nat, Divides(s[n], sep),
           NEW s1, NEW h1, SpansSplit(D, s, h, n, e, sep, s1, h1)
    PROVE  s1[n] \subseteq Nat /\ s1[n] # {} /\ s1[e] \subseteq Nat /\ s1[e] # {} /\ sep \in Nat
<1>1. sep \in Nat /\ sep \in s[n]
  BY DEF Divides
<1>2. PICK m \in s[n] : m < sep
  BY DEF Divides
<1>3. m \in s1[n] /\ s1[n] \subseteq Nat
  BY <1>2 DEF SpansSplit, Lower
<1>4. sep \in s1[e] /\ s1[e] \subseteq Nat
  BY <1>1 DEF SpansSplit, Upper
<1> QED  BY <1>1, <1>3, <1>4

(* What a frame says, spelled out.                                            *)
LEMMA FrameFacts ==
    ASSUME NEW D, NEW root, NEW s, NEW h, Frame(D, root, s, h)
    PROVE  /\ root \in D /\ s[root] = Nat /\ h[root] \in Nat /\ Spread(D, s, h)
           /\ \A f \in D : f \in Fkeys /\ s[f] \subseteq Nat /\ s[f] # {} /\ h[f] \in Nat /\ h[f] <= h[root]
           /\ \A f \in D : h[f] = h[root] => f = root
<1>1. /\ root \in D /\ s[root] = Nat /\ h[root] \in Nat /\ Spread(D, s, h)
      /\ \A f \in D : f \in Fkeys /\ s[f] \subseteq Nat /\ s[f] # {} /\ h[f] \in Nat /\ h[f] <= h[root]
  BY DEF Frame
<1>2. ASSUME NEW f \in D, h[f] = h[root]
      PROVE  f = root
  BY <1>1, <1>2 DEF Spread
<1> QED  BY <1>1, <1>2

(* A split below the root keeps the frame.                                    *)
LEMMA FrameSplit ==
    ASSUME NEW D, NEW root, NEW s, NEW h, Frame(D, root, s, h),
           NEW n \in D, n # root, NEW e \in Fkeys, e \notin D, NEW sep, Divides(s[n], sep)
    PROVE  LET s1 == SplitSpans(D, s, n, e, sep)
               h1 == SplitRanks(D, h, n, e)
           IN  Frame(D \cup {e}, root, s1, h1) /\ SpansSplit(D, s, h, n, e, sep, s1, h1)
<1> DEFINE s1 == SplitSpans(D, s, n, e, sep)
           h1 == SplitRanks(D, h, n, e)
<1>1. SpansSplit(D, s, h, n, e, sep, s1, h1)
  BY DEF SpansSplit, SplitSpans, SplitRanks
<1>2. /\ root \in D /\ s[root] = Nat /\ h[root] \in Nat /\ Spread(D, s, h)
      /\ \A f \in D : f \in Fkeys /\ s[f] \subseteq Nat /\ s[f] # {} /\ h[f] \in Nat /\ h[f] <= h[root]
  BY FrameFacts
<1>3. h[root] # 0
  BY DEF Frame
<1>4. s1 = [f \in D \cup {e} |-> s1[f]] /\ h1 = [f \in D \cup {e} |-> h1[f]]
  BY DEF SplitSpans, SplitRanks
<1> HIDE DEF s1, h1
<1>5. s1[n] \subseteq Nat /\ s1[n] # {} /\ s1[e] \subseteq Nat /\ s1[e] # {} /\ sep \in Nat
  BY <1>1, <1>2, HalfSpans
<1>6. Spread(D \cup {e}, s1, h1)
  BY <1>1, <1>2, <1>5, SpreadSplit
<1>7. \A f \in D \cup {e} : s1[f] \subseteq Nat /\ s1[f] # {} /\ h1[f] \in Nat /\ h1[f] <= h1[root]
  BY <1>1, <1>2, <1>5 DEF SpansSplit
<1>8. s1[root] = Nat /\ h1[root] # 0
  BY <1>1, <1>2, <1>3 DEF SpansSplit
<1>9. s1 \in [D \cup {e} -> SUBSET Nat] /\ h1 \in [D \cup {e} -> Nat] /\ D \cup {e} \subseteq Fkeys
  BY <1>2, <1>4, <1>7
<1>10. Frame(D \cup {e}, root, s1, h1)
  BY <1>2, <1>6, <1>7, <1>8, <1>9 DEF Frame
<1> QED  BY <1>1, <1>10 DEF s1, h1

(* The span of the new root r above n, the old one, and e.                        *)
RootSpans(D, s, n, e, r, sep) ==
    [ f \in D \cup {e, r} |-> IF f = r THEN Nat ELSE SplitSpans(D, s, n, e, sep)[f] ]

RootRanks(D, h, n, e, r) == [ f \in D \cup {e, r} |-> IF f = r THEN h[n] + 1 ELSE SplitRanks(D, h, n, e)[f] ]

(* A split of the root, with a new root above.                                *)
LEMMA FrameRoot ==
    ASSUME NEW D, NEW n, NEW s, NEW h, Frame(D, n, s, h),
           NEW e \in Fkeys, e \notin D, NEW r \in Fkeys, r \notin D, e # r, NEW sep, Divides(s[n], sep)
    PROVE  LET s1 == RootSpans(D, s, n, e, r, sep)
               h1 == RootRanks(D, h, n, e, r)
           IN  /\ Frame(D \cup {e, r}, r, s1, h1) /\ SpansSplit(D, s, h, n, e, sep, s1, h1)
               /\ s1[r] = Nat /\ h1[r] = h[n] + 1
<1> DEFINE s1 == RootSpans(D, s, n, e, r, sep)
           h1 == RootRanks(D, h, n, e, r)
<1>1. /\ n \in D /\ s[n] = Nat /\ h[n] \in Nat /\ Spread(D, s, h)
      /\ \A f \in D : f \in Fkeys /\ s[f] \subseteq Nat /\ s[f] # {} /\ h[f] \in Nat /\ h[f] <= h[n]
  BY FrameFacts
<1>2. SpansSplit(D, s, h, n, e, sep, s1, h1) /\ s1[r] = Nat /\ h1[r] = h[n] + 1
  BY <1>1 DEF SpansSplit, RootSpans, RootRanks, SplitSpans, SplitRanks
<1>3. s1 = [f \in D \cup {e, r} |-> s1[f]] /\ h1 = [f \in D \cup {e, r} |-> h1[f]]
  BY DEF RootSpans, RootRanks
<1> HIDE DEF s1, h1
<1>4. s1[n] \subseteq Nat /\ s1[n] # {} /\ s1[e] \subseteq Nat /\ s1[e] # {} /\ sep \in Nat
  BY <1>1, <1>2, HalfSpans
<1>5. Spread(D \cup {e}, s1, h1)
  BY <1>1, <1>2, <1>4, SpreadSplit
<1>6. \A f \in D \cup {e} : s1[f] \subseteq Nat /\ s1[f] # {} /\ h1[f] \in Nat /\ h1[f] < h1[r]
  BY <1>1, <1>2, <1>4 DEF SpansSplit
<1>7. Spread(D \cup {e, r}, s1, h1)
  <2> SUFFICES ASSUME NEW f \in D \cup {e, r}, NEW g \in D \cup {e, r}, f # g, h1[f] = h1[g]
               PROVE  s1[f] \cap s1[g] = {}
    BY DEF Spread
  <2>1. f \in D \cup {e} /\ g \in D \cup {e}
    <3>1. h1[r] \in Nat
      BY <1>1, <1>2
    <3> QED  BY <1>6, <3>1
  <2> QED  BY <1>5, <2>1 DEF Spread
<1>8. s1[r] = Nat /\ h1[r] # 0 /\ h1[r] \in Nat
  BY <1>1, <1>2
<1>9. \A f \in D \cup {e, r} : s1[f] \subseteq Nat /\ s1[f] # {} /\ h1[f] \in Nat /\ h1[f] <= h1[r]
  BY <1>6, <1>8
<1>10. s1 \in [D \cup {e, r} -> SUBSET Nat] /\ h1 \in [D \cup {e, r} -> Nat] /\ D \cup {e, r} \subseteq Fkeys
  BY <1>1, <1>3, <1>9
<1>11. Frame(D \cup {e, r}, r, s1, h1)
  BY <1>7, <1>8, <1>9, <1>10 DEF Frame
<1> QED  BY <1>2, <1>11 DEF s1, h1

(* A node that a change of the tree leaves alone, with its children.              *)
LEMMA NodeKept ==
    ASSUME NEW F, NEW s, NEW h, NEW big, NEW f \in DOMAIN F, Good(F, s, h, big, f),
           NEW F1, NEW s1, NEW h1, NEW big1, DOMAIN F \subseteq DOMAIN F1,
           F1[f] = F[f], s1[f] = s[f], h1[f] = h[f], f \in big => f \in big1,
           F[f].type = "index" => \A i \in 1..Len(F[f].kids) :
              s1[F[f].kids[i]] = s[F[f].kids[i]] /\ h1[F[f].kids[i]] = h[F[f].kids[i]]
    PROVE  Good(F1, s1, h1, big1, f)
<1>1. \A x \in Int : Room(big, f, x) => Room(big1, f, x)
  BY DEF Room
<1>2. CASE GoodBlock(F, s, h, big, f)
  <2>1. Len(F[f].keys) - (NORECS - 1) \in Int
    <3>1. Len(F[f].keys) \in Nat
      BY <1>2, BlockFacts DEF GoodBlock
    <3> QED  BY <3>1, SizesAssumption
  <2> QED  BY <1>1, <1>2, <2>1 DEF Good, GoodBlock
<1>3. CASE GoodIndex(F, s, h, big, f)
  <2>1. Len(F[f].keys) - (NOENTS - 2) \in Int /\ F[f].type = "index"
    <3>1. Len(F[f].keys) \in Nat /\ F[f].type = "index"
      BY <1>3, IndexFacts DEF GoodIndex
    <3> QED  BY <3>1, SizesAssumption
  <2>2. \A i \in 1..Len(F1[f].kids) : Leads(F1, s1, h1, f, i)
    <3> TAKE i \in 1..Len(F1[f].kids)
    <3>1. i \in 1..Len(F[f].kids) /\ Leads(F, s, h, f, i)
      BY <1>3 DEF GoodIndex
    <3>2. s1[F[f].kids[i]] = s[F[f].kids[i]] /\ h1[F[f].kids[i]] = h[F[f].kids[i]]
      BY <2>1, <3>1
    <3> QED  BY <3>1, <3>2 DEF Leads
  <2> QED  BY <1>1, <1>3, <2>1, <2>2 DEF Good, GoodIndex
<1> QED  BY <1>2, <1>3 DEF Good

(* The halves are good nodes, and have the children of the whole.                 *)
Parted(F, n, e, F1, s1, h1) ==
    /\ Good(F1, s1, h1, {}, n) /\ Good(F1, s1, h1, {}, e)
    /\ \A f : IsKid(F, n, f) => IsKid(F1, n, f) \/ IsKid(F1, e, f)

(* The first key of the right half of a full block divides its span.          *)
LEMMA SplitsBlock ==
    ASSUME NEW F, NEW root, NEW s, NEW h, NEW big, Tree(F, root, s, h, big),
           NEW n \in DOMAIN F, F[n].type = "block", Len(F[n].keys) = NORECS
    PROVE  Divides(s[n], RightBlock(F[n]).keys[1])
<1>1. BlockNode(F[n]) /\ Within(F[n].keys, s[n])
  BY NodeKinds DEF GoodBlock
<1>2. PICK i, j \in 1..Len(F[n].keys) : RightBlock(F[n]).keys[1] = F[n].keys[i] /\ F[n].keys[j] < RightBlock(F[n]).keys[1]
  BY <1>1, BlockHalves
<1>3. F[n].keys[i] \in s[n] /\ F[n].keys[j] \in s[n] /\ F[n].keys[i] \in Keys
  BY <1>1, BlockFacts DEF Within
<1> QED  BY <1>2, <1>3 DEF Divides

(* The halves of a full block are good blocks, and hold what it held.         *)
LEMMA PartsBlock ==
    ASSUME NEW F, NEW root, NEW s, NEW h, NEW big, Tree(F, root, s, h, big),
           NEW n \in DOMAIN F, F[n].type = "block", Len(F[n].keys) = NORECS, NEW e,
           NEW sep, sep = RightBlock(F[n]).keys[1],
           NEW F1, F1[n] = LeftBlock(F[n]), F1[e] = RightBlock(F[n]),
           NEW s1, NEW h1, SpansSplit(DOMAIN F, s, h, n, e, sep, s1, h1)
    PROVE  /\ Parted(F, n, e, F1, s1, h1)
           /\ F1[n].type = "block" /\ F1[e].type = "block"
           /\ \A k \in Keys : (k \in s1[n] => ValueIn(F1[n], k) = ValueIn(F[n], k))
                              /\ (k \in s1[e] => ValueIn(F1[e], k) = ValueIn(F[n], k))
<1>1. BlockNode(F[n]) /\ Within(F[n].keys, s[n]) /\ h[n] = 0 /\ s[n] \subseteq Nat
  BY NodeKinds DEF GoodBlock
<1> DEFINE l == LeftBlock(F[n])
           r == RightBlock(F[n])
<1>2. /\ BlockNode(l) /\ Len(l.keys) <= NORECS - 1
      /\ BlockNode(r) /\ Len(r.keys) <= NORECS - 1
      /\ \A i \in 1..Len(l.keys) : l.keys[i] < sep /\ \E j \in 1..Len(F[n].keys) : l.keys[i] = F[n].keys[j]
      /\ \A i \in 1..Len(r.keys) : r.keys[i] >= sep /\ \E j \in 1..Len(F[n].keys) : r.keys[i] = F[n].keys[j]
      /\ \A k \in Nat : k < sep => ValueIn(l, k) = ValueIn(F[n], k)
      /\ \A k \in Nat : k >= sep => ValueIn(r, k) = ValueIn(F[n], k)
  BY <1>1, BlockHalves
<1>3. F1[n] = l /\ F1[e] = r
  OBVIOUS
<1> HIDE DEF l, r
<1>4. s1[n] = Lower(s[n], sep) /\ s1[e] = Upper(s[n], sep) /\ h1[n] = 0 /\ h1[e] = 0
  BY <1>1 DEF SpansSplit
<1>5. Within(l.keys, s1[n])
  BY <1>1, <1>2, <1>4 DEF Within, Lower
<1>6. Within(r.keys, s1[e])
  BY <1>1, <1>2, <1>4 DEF Within, Upper
<1>7. Room({}, n, Len(l.keys) - (NORECS - 1)) /\ Room({}, e, Len(r.keys) - (NORECS - 1))
  <2>1. Len(l.keys) \in Nat /\ Len(r.keys) \in Nat
    BY <1>2, BlockFacts
  <2> QED  BY <1>2, <2>1, SizesAssumption DEF Room
<1>8. Good(F1, s1, h1, {}, n) /\ Good(F1, s1, h1, {}, e)
  BY <1>2, <1>3, <1>4, <1>5, <1>6, <1>7 DEF Good, GoodBlock
<1>9. \A f : ~IsKid(F, n, f)
  BY DEF IsKid
<1>10. F1[n].type = "block" /\ F1[e].type = "block"
  BY <1>2, <1>3, BlockFacts
<1>11. \A k \in Keys : (k \in s1[n] => ValueIn(F1[n], k) = ValueIn(F[n], k))
                       /\ (k \in s1[e] => ValueIn(F1[e], k) = ValueIn(F[n], k))
  BY <1>1, <1>2, <1>3, <1>4 DEF Lower, Upper
<1> QED  BY <1>8, <1>9, <1>10, <1>11 DEF Parted

(* The middle separator of an overfull index divides its span.                *)
LEMMA SplitsIndex ==
    ASSUME NEW F, NEW root, NEW s, NEW h, NEW big, Tree(F, root, s, h, big),
           NEW n \in DOMAIN F, F[n].type = "index", Len(F[n].keys) = NOENTS - 1
    PROVE  Divides(s[n], F[n].keys[Half + 1])
<1>1. IndexNode(F[n]) /\ Within(F[n].keys, s[n]) /\ Above(F[n].keys, s[n])
  BY NodeKinds DEF GoodIndex
<1>2. Half + 1 \in 1..Len(F[n].keys) /\ F[n].keys[Half + 1] \in Keys
  BY <1>1, IndexHalves
<1> QED  BY <1>1, <1>2 DEF Divides, Within, Above

(* The halves of an overfull index are good indexes, and lead where it led.   *)
LEMMA PartsIndex ==
    ASSUME NEW F, NEW root, NEW s, NEW h, NEW big, Tree(F, root, s, h, big),
           NEW n \in DOMAIN F, F[n].type = "index", Len(F[n].keys) = NOENTS - 1, NEW e, e \notin DOMAIN F,
           NEW sep, sep = F[n].keys[Half + 1],
           NEW F1, F1[n] = LeftIndex(F[n]), F1[e] = RightIndex(F[n]), DOMAIN F \subseteq DOMAIN F1,
           NEW s1, NEW h1, SpansSplit(DOMAIN F, s, h, n, e, sep, s1, h1)
    PROVE  /\ Parted(F, n, e, F1, s1, h1)
           /\ F1[n].type = "index" /\ F1[e].type = "index"
<1>1. /\ IndexNode(F[n]) /\ Within(F[n].keys, s[n]) /\ Above(F[n].keys, s[n]) /\ s[n] \subseteq Nat
      /\ \A i \in 1..Len(F[n].kids) : Leads(F, s, h, n, i)
  BY NodeKinds DEF GoodIndex
<1> DEFINE l == LeftIndex(F[n])
           r == RightIndex(F[n])
           a == Half + 1
<1>2. /\ IndexNode(l) /\ Len(l.keys) <= NOENTS - 2 /\ Len(l.kids) = a
      /\ IndexNode(r) /\ Len(r.keys) <= NOENTS - 2 /\ Len(r.kids) = Len(F[n].kids) - a
      /\ a \in Nat /\ a \in 1..Len(F[n].keys)
  BY <1>1, IndexHalves
<1>3. /\ \A i \in 1..Len(l.keys) : i \in 1..Len(F[n].keys) /\ l.keys[i] = F[n].keys[i] /\ l.keys[i] < sep
      /\ \A i \in 1..Len(r.keys) : a + i \in 1..Len(F[n].keys) /\ r.keys[i] = F[n].keys[a + i] /\ sep < r.keys[i]
      /\ \A i \in 1..Len(l.kids) : l.kids[i] = F[n].kids[i]
      /\ \A i \in 1..Len(r.kids) : r.kids[i] = F[n].kids[a + i]
  BY <1>1, IndexHalves
<1>4. /\ \A k \in Nat : k < sep => ChildAt(F[n], k) <= a /\ ChildAt(l, k) = ChildAt(F[n], k)
      /\ \A k \in Nat : k >= sep => ChildAt(F[n], k) > a /\ ChildAt(r, k) = ChildAt(F[n], k) - a
  BY <1>1, IndexHalves
<1>5. F1[n] = l /\ F1[e] = r
  OBVIOUS
<1> HIDE DEF l, r
<1>6. /\ s1[n] = Lower(s[n], sep) /\ s1[e] = Upper(s[n], sep) /\ h1[n] = h[n] /\ h1[e] = h[n]
      /\ \A f \in DOMAIN F \ {n} : s1[f] = s[f] /\ h1[f] = h[f]
  BY DEF SpansSplit
<1>7. Len(F[n].keys) \in Nat /\ Len(F[n].kids) = Len(F[n].keys) + 1
      /\ (\A i \in 1..Len(F[n].keys) : F[n].keys[i] \in Nat) /\ sep \in Nat /\ sep \in s[n]
  BY <1>1, <1>2, IndexFacts DEF Within
<1>8. \A k \in Nat : ChildAt(F[n], k) \in 1..Len(F[n].kids)
  BY <1>1, IndexFacts
<1> HIDE DEF a
<1>9. ASSUME NEW i \in 1..Len(F[n].kids)
      PROVE  /\ F[n].kids[i] \in DOMAIN F /\ F[n].kids[i] \in DOMAIN F1 /\ F[n].kids[i] # n
             /\ h1[F[n].kids[i]] + 1 = h[n] /\ s1[F[n].kids[i]] = Span(F[n], s[n], i)
  <2> DEFINE g == F[n].kids[i]
  <2>1. g \in DOMAIN F /\ h[g] + 1 = h[n] /\ s[g] = Span(F[n], s[n], i) /\ g # n
    BY KidIs
  <2> HIDE DEF g
  <2> QED  BY <1>6, <2>1 DEF g
<1>10. GoodIndex(F1, s1, h1, {}, n)
  <2>1. Within(l.keys, s1[n])
    BY <1>1, <1>3, <1>6 DEF Within, Lower
  <2>2. Above(l.keys, s1[n])
    <3> SUFFICES ASSUME NEW i \in 1..Len(l.keys) PROVE \E m \in s1[n] : m < l.keys[i]
      BY DEF Above
    <3>1. i \in 1..Len(F[n].keys) /\ l.keys[i] = F[n].keys[i] /\ l.keys[i] < sep /\ l.keys[i] \in Nat
      BY <1>3, <1>7
    <3>2. PICK m \in s[n] : m < F[n].keys[i]
      BY <1>1, <3>1 DEF Above
    <3>3. m < sep /\ m \in Nat
      BY <1>1, <1>7, <3>1, <3>2
    <3> QED  BY <1>6, <3>1, <3>2, <3>3 DEF Lower
  <2>3. ASSUME NEW i \in 1..Len(l.kids)
        PROVE  Leads(F1, s1, h1, n, i)
    <3>1. i \in 1..Len(F[n].kids) /\ l.kids[i] = F[n].kids[i] /\ i <= a
      BY <1>2, <1>3, <1>7
    <3>2. Span(F[n], s[n], i) = Span(l, s1[n], i)
      <4>1. ASSUME NEW k \in s[n], ChildAt(F[n], k) = i
            PROVE  k \in s1[n] /\ ChildAt(l, k) = i
        <5>1. k \in Nat /\ ~(k >= sep)
          BY <1>1, <1>2, <1>4, <3>1, <4>1
        <5> QED  BY <1>4, <1>6, <1>7, <4>1, <5>1 DEF Lower
      <4>2. ASSUME NEW k \in s1[n], ChildAt(l, k) = i
            PROVE  k \in s[n] /\ ChildAt(F[n], k) = i
        BY <1>1, <1>4, <1>6, <4>2 DEF Lower
      <4> QED  BY <4>1, <4>2 DEF Span
    <3> QED  BY <1>5, <1>6, <1>9, <3>1, <3>2 DEF Leads
  <2>4. Room({}, n, Len(l.keys) - (NOENTS - 2))
    <3>1. Len(l.keys) \in Nat
      BY <1>2, IndexFacts
    <3> QED  BY <1>2, <3>1, SizesAssumption DEF Room
  <2> QED  BY <1>2, <1>5, <2>1, <2>2, <2>3, <2>4 DEF GoodIndex
<1>11. GoodIndex(F1, s1, h1, {}, e)
  <2>1. Within(r.keys, s1[e])
    <3> SUFFICES ASSUME NEW i \in 1..Len(r.keys) PROVE r.keys[i] \in s1[e]
      BY DEF Within
    <3>1. a + i \in 1..Len(F[n].keys) /\ r.keys[i] = F[n].keys[a + i] /\ sep < r.keys[i] /\ r.keys[i] \in Nat
      BY <1>3, <1>7
    <3>2. r.keys[i] \in s[n] /\ r.keys[i] >= sep
      BY <1>1, <1>7, <3>1 DEF Within
    <3> QED  BY <1>6, <3>2 DEF Upper
  <2>2. Above(r.keys, s1[e])
    <3> SUFFICES ASSUME NEW i \in 1..Len(r.keys) PROVE sep \in s1[e] /\ sep < r.keys[i]
      BY DEF Above
    <3> QED  BY <1>3, <1>6, <1>7 DEF Upper
  <2>3. ASSUME NEW i \in 1..Len(r.kids)
        PROVE  Leads(F1, s1, h1, e, i)
    <3>1. a + i \in 1..Len(F[n].kids) /\ r.kids[i] = F[n].kids[a + i] /\ a + i > a
      <4>1. Len(F[n].kids) \in Nat /\ Len(r.kids) = Len(F[n].kids) - a /\ a \in Nat
        BY <1>2, <1>7
      <4>2. a + i \in 1..Len(F[n].kids) /\ a + i > a
        BY <4>1
      <4> QED  BY <1>3, <4>2
    <3>2. Span(F[n], s[n], a + i) = Span(r, s1[e], i)
      <4>1. ASSUME NEW k \in s[n], ChildAt(F[n], k) = a + i
            PROVE  k \in s1[e] /\ ChildAt(r, k) = i
        <5>1. k \in Nat /\ ~(k < sep)
          BY <1>1, <1>2, <1>4, <3>1, <4>1
        <5>2. k >= sep
          BY <1>7, <5>1
        <5>3. ChildAt(r, k) = (a + i) - a
          BY <1>4, <4>1, <5>1, <5>2
        <5>4. (a + i) - a = i
          BY <1>2
        <5> QED  BY <1>6, <5>1, <5>2, <5>3, <5>4 DEF Upper
      <4>2. ASSUME NEW k \in s1[e], ChildAt(r, k) = i
            PROVE  k \in s[n] /\ ChildAt(F[n], k) = a + i
        <5>1. k \in s[n] /\ k \in Nat /\ k >= sep
          BY <1>1, <1>6 DEF Upper
        <5>2. ChildAt(F[n], k) - a = i /\ ChildAt(F[n], k) \in 1..Len(F[n].kids)
          BY <1>4, <1>8, <4>2, <5>1
        <5>3. ChildAt(F[n], k) = a + i
          BY <1>2, <5>2
        <5> QED  BY <5>1, <5>3
      <4> QED  BY <4>1, <4>2 DEF Span
    <3> QED  BY <1>5, <1>6, <1>9, <3>1, <3>2 DEF Leads
  <2>4. Room({}, e, Len(r.keys) - (NOENTS - 2))
    <3>1. Len(r.keys) \in Nat
      BY <1>2, IndexFacts
    <3> QED  BY <1>2, <3>1, SizesAssumption DEF Room
  <2> QED  BY <1>2, <1>5, <2>1, <2>2, <2>3, <2>4 DEF GoodIndex
<1>12. F1[n].type = "index" /\ F1[e].type = "index"
  BY <1>2, <1>5, IndexFacts
<1>13. ASSUME NEW f, IsKid(F, n, f)
       PROVE  IsKid(F1, n, f) \/ IsKid(F1, e, f)
  <2>1. PICK i \in 1..Len(F[n].kids) : F[n].kids[i] = f
    BY <1>13 DEF IsKid
  <2>2. CASE i <= a
    <3>1. i \in 1..Len(l.kids)
      BY <1>2, <2>2
    <3> QED  BY <1>3, <1>5, <1>12, <2>1, <3>1 DEF IsKid
  <2>3. CASE i > a
    <3>1. i - a \in 1..Len(r.kids) /\ a + (i - a) = i
      BY <1>2, <1>7, <2>3
    <3> QED  BY <1>3, <1>5, <1>12, <2>1, <3>1 DEF IsKid
  <2> QED  BY <1>2, <2>2, <2>3
<1> QED  BY <1>10, <1>11, <1>12, <1>13 DEF Parted, Good

(* Where a number goes when a separator is inserted before the c-th.              *)
LEMMA PlacesMove ==
    ASSUME NEW c \in Nat, NEW d \in Nat, NEW i \in Nat, NEW k \in Nat, NEW sep \in Nat, NEW y,
           y = IF d < c THEN d ELSE IF d > c THEN d + 1 ELSE IF k < sep THEN c ELSE c + 1
    PROVE  /\ i < c => (d = i <=> y = i)
           /\ i = c => (y = i <=> d = c /\ k < sep)
           /\ i = c + 1 => (y = i <=> d = c /\ k >= sep)
           /\ i > c + 1 => (d = i - 1 <=> y = i)
OBVIOUS

(* The parent of a node that is split, once it has the separator.             *)
LEMMA ParentGood ==
    ASSUME NEW F, NEW root, NEW s, NEW h, NEW n \in DOMAIN F, Tree(F, root, s, h, {n}),
           NEW e \in Fkeys, e \notin DOMAIN F,
           NEW p \in DOMAIN F, IsKid(F, p, n), NEW sep, Divides(s[n], sep),
           NEW F1, DOMAIN F1 = DOMAIN F \cup {e}, F1[p] = KeyInserted(F[p], sep, e),
           NEW s1, NEW h1, SpansSplit(DOMAIN F, s, h, n, e, sep, s1, h1)
    PROVE  /\ Good(F1, s1, h1, {p}, p)
           /\ \A f : IsKid(F, p, f) => IsKid(F1, p, f)
           /\ IsKid(F1, p, e)
           /\ F1[p].type = "index" /\ F1[p].parent = F[p].parent /\ F[p].type = "index"
           /\ Len(F1[p].keys) = Len(F[p].keys) + 1 /\ ~Contains(F[p].keys, sep)
<1>1. PICK c \in 1..Len(F[p].kids) : F[p].kids[c] = n
  BY DEF IsKid
<1>2. F[p].type = "index" /\ GoodIndex(F, s, h, {n}, p)
  <2>1. F[p].type = "index"
    BY DEF IsKid
  <2> QED  BY <2>1, NodeKinds
<1>3. /\ IndexNode(F[p]) /\ Within(F[p].keys, s[p]) /\ Above(F[p].keys, s[p])
      /\ Room({n}, p, Len(F[p].keys) - (NOENTS - 2))
  BY <1>2 DEF GoodIndex
<1>4. h[n] + 1 = h[p] /\ s[n] = Span(F[p], s[p], c) /\ p # n /\ p # e
  <2>1. h[n] + 1 = h[p] /\ s[n] = Span(F[p], s[p], c) /\ n # p
    BY <1>1, <1>2, KidIs
  <2> QED  BY <2>1
<1>5. s[p] \subseteq Nat /\ s[n] \subseteq Nat
  BY NodeKinds
<1>6. sep \in Keys /\ sep \in Nat /\ sep \in s[p] /\ ChildAt(F[p], sep) = c
  BY <1>4, <1>5 DEF Divides, Span
<1>7. PICK m \in s[n] : m < sep
  BY DEF Divides
<1>8. m \in Nat /\ m \in s[p] /\ ChildAt(F[p], m) = c
  BY <1>4, <1>5, <1>7 DEF Span
<1> DEFINE x == KeyInserted(F[p], sep, e)
<1>9. /\ IndexNode(x) /\ x.parent = F[p].parent /\ Len(x.keys) = Len(F[p].keys) + 1
      /\ \A i \in 1..Len(x.keys) : x.keys[i] = sep \/ \E j \in 1..Len(F[p].keys) : x.keys[i] = F[p].keys[j]
      /\ ~Contains(F[p].keys, sep)
  BY <1>3, <1>6, <1>7, <1>8, KeyInsertedIs
<1>10. \A i \in 1..(Len(F[p].kids) + 1) :
          x.kids[i] = IF i <= c THEN F[p].kids[i] ELSE IF i = c + 1 THEN e ELSE F[p].kids[i - 1]
  BY <1>3, <1>6, <1>7, <1>8, KeyInsertedIs
<1>11. \A k \in Nat : ChildAt(x, k) =
          IF ChildAt(F[p], k) < c THEN ChildAt(F[p], k)
          ELSE IF ChildAt(F[p], k) > c THEN ChildAt(F[p], k) + 1
          ELSE IF k < sep THEN c ELSE c + 1
  BY <1>3, <1>6, <1>7, <1>8, KeyInsertedIs
<1>12. F1[p] = x
  OBVIOUS
<1> HIDE DEF x
<1>13. /\ Len(F[p].keys) \in Nat /\ Len(F[p].kids) \in Nat /\ Len(F[p].kids) = Len(F[p].keys) + 1
       /\ Len(x.kids) = Len(F[p].kids) + 1
       /\ \A i \in 1..Len(F[p].keys) : F[p].keys[i] \in Nat
       /\ \A k \in Nat : ChildAt(F[p], k) \in 1..Len(F[p].kids)
  <2>1. /\ Len(F[p].keys) \in Nat /\ Len(F[p].kids) = Len(F[p].keys) + 1
        /\ \A i \in 1..Len(F[p].keys) : F[p].keys[i] \in Nat
        /\ \A k \in Nat : ChildAt(F[p], k) \in 1..Len(F[p].kids)
    BY <1>3, IndexFacts
  <2>2. Len(x.kids) = Len(x.keys) + 1
    BY <1>9, IndexFacts
  <2>3. Len(x.kids) = Len(F[p].kids) + 1
    <3>1. Len(x.keys) = Len(F[p].keys) + 1
      BY <1>9
    <3> QED  BY <2>1, <2>2, <3>1
  <2>4. Len(F[p].kids) \in Nat
    <3>1. Len(F[p].keys) \in Nat /\ Len(F[p].kids) = Len(F[p].keys) + 1
      BY <2>1
    <3> QED  BY <3>1
  <2> QED  BY <2>1, <2>3, <2>4
<1>14. s1[p] = s[p] /\ h1[p] = h[p] /\ h1[n] = h[n] /\ h1[e] = h[n]
       /\ s1[n] = Lower(s[n], sep) /\ s1[e] = Upper(s[n], sep)
  BY <1>4 DEF SpansSplit
<1>15. Within(x.keys, s1[p])
  BY <1>3, <1>6, <1>9, <1>14 DEF Within
<1>16. Above(x.keys, s1[p])
  BY <1>3, <1>7, <1>8, <1>9, <1>14 DEF Above
<1>17. Room({p}, p, Len(x.keys) - (NOENTS - 2))
  <2>1. Len(F[p].keys) - (NOENTS - 2) <= 0
    BY <1>3, <1>4 DEF Room
  <2>2. NOENTS \in Nat
    BY SizesAssumption
  <2> QED  BY <1>9, <1>13, <2>1, <2>2 DEF Room
<1>18. ASSUME NEW i \in 1..Len(F[p].kids), i # c
       PROVE  /\ F[p].kids[i] \in DOMAIN F1 /\ h1[F[p].kids[i]] + 1 = h1[p]
              /\ s1[F[p].kids[i]] = Span(F[p], s[p], i)
  <2> DEFINE g == F[p].kids[i]
  <2>1. g \in DOMAIN F /\ h[g] + 1 = h[p] /\ s[g] = Span(F[p], s[p], i)
    BY <1>2, KidIs
  <2>2. g # n
    <3> SUFFICES ASSUME g = n PROVE i = c
      BY <1>18
    <3> QED  BY <1>1, <1>2, OneParent
  <2> HIDE DEF g
  <2>3. s1[g] = s[g] /\ h1[g] = h[g]
    BY <2>1, <2>2 DEF SpansSplit
  <2> QED  BY <1>14, <2>1, <2>3 DEF g
<1>19. ASSUME NEW i \in 1..Len(x.kids)
       PROVE  Leads(F1, s1, h1, p, i)
  <2>1. i \in Nat /\ i \in 1..(Len(F[p].kids) + 1) /\ c \in Nat /\ c \in 1..Len(F[p].kids)
        /\ Len(F[p].kids) \in Nat
    <3>1. Len(F[p].kids) \in Nat /\ Len(x.kids) = Len(F[p].kids) + 1
      BY <1>13
    <3> QED  BY <3>1
  <2>9. ASSUME NEW k \in Nat
        PROVE  /\ i < c => (ChildAt(F[p], k) = i <=> ChildAt(x, k) = i)
               /\ i = c => (ChildAt(x, k) = i <=> ChildAt(F[p], k) = c /\ k < sep)
               /\ i = c + 1 => (ChildAt(x, k) = i <=> ChildAt(F[p], k) = c /\ k >= sep)
               /\ i > c + 1 => (ChildAt(F[p], k) = i - 1 <=> ChildAt(x, k) = i)
    <3>1. ChildAt(F[p], k) \in 1..Len(F[p].kids)
      BY <1>13
    <3>2. ChildAt(F[p], k) \in Nat
      BY <2>1, <3>1
    <3>3. ChildAt(x, k) = IF ChildAt(F[p], k) < c THEN ChildAt(F[p], k)
                          ELSE IF ChildAt(F[p], k) > c THEN ChildAt(F[p], k) + 1
                          ELSE IF k < sep THEN c ELSE c + 1
      BY <1>11
    <3>4. i \in Nat /\ c \in Nat /\ sep \in Nat
      BY <1>6, <2>1
    <3> QED  BY <3>2, <3>3, <3>4, PlacesMove
  <2>2. CASE i < c
    <3>1. x.kids[i] = F[p].kids[i] /\ i \in 1..Len(F[p].kids) /\ i # c
      <4>1. i <= c /\ i \in 1..Len(F[p].kids) /\ i # c
        BY <2>1, <2>2
      <4> QED  BY <1>10, <2>1, <4>1
    <3>2. Span(F[p], s[p], i) = Span(x, s1[p], i)
      <4>1. \A k \in Nat : ChildAt(F[p], k) = i <=> ChildAt(x, k) = i
        BY <2>2, <2>9
      <4> QED  BY <1>5, <1>14, <4>1 DEF Span
    <3> QED  BY <1>12, <1>18, <3>1, <3>2 DEF Leads
  <2>3. CASE i = c
    <3>1. x.kids[i] = n
      BY <1>1, <1>10, <2>1, <2>3
    <3>2. s1[n] = Span(x, s1[p], i)
      <4>1. \A k \in Nat : ChildAt(x, k) = i <=> ChildAt(F[p], k) = c /\ k < sep
        BY <2>3, <2>9
      <4> QED  BY <1>4, <1>5, <1>14, <4>1 DEF Span, Lower
    <3> QED  BY <1>4, <1>12, <1>14, <3>1, <3>2 DEF Leads
  <2>4. CASE i = c + 1
    <3>1. x.kids[i] = e
      BY <1>1, <1>10, <2>1, <2>4
    <3>2. s1[e] = Span(x, s1[p], i)
      <4>1. \A k \in Nat : ChildAt(x, k) = i <=> ChildAt(F[p], k) = c /\ k >= sep
        BY <2>4, <2>9
      <4> QED  BY <1>4, <1>5, <1>14, <4>1 DEF Span, Upper
    <3> QED  BY <1>4, <1>12, <1>14, <3>1, <3>2 DEF Leads
  <2>5. CASE i > c + 1
    <3>1. x.kids[i] = F[p].kids[i - 1] /\ i - 1 \in 1..Len(F[p].kids) /\ i - 1 # c
      <4>1. ~(i <= c) /\ i # c + 1 /\ i - 1 \in 1..Len(F[p].kids) /\ i - 1 # c
        BY <2>1, <2>5
      <4> QED  BY <1>10, <2>1, <4>1
    <3>2. Span(F[p], s[p], i - 1) = Span(x, s1[p], i)
      <4>1. \A k \in Nat : ChildAt(F[p], k) = i - 1 <=> ChildAt(x, k) = i
        BY <2>5, <2>9
      <4> QED  BY <1>5, <1>14, <4>1 DEF Span
    <3> QED  BY <1>12, <1>18, <3>1, <3>2 DEF Leads
  <2>6. i < c \/ i = c \/ i = c + 1 \/ i > c + 1
    BY <2>1
  <2> QED  BY <2>2, <2>3, <2>4, <2>5, <2>6
<1>20. GoodIndex(F1, s1, h1, {p}, p) /\ F1[p].type = "index"
  <2>1. GoodIndex(F1, s1, h1, {p}, p)
    BY <1>9, <1>12, <1>15, <1>16, <1>17, <1>19 DEF GoodIndex
  <2> QED  BY <1>9, <1>12, <2>1, IndexFacts
<1>21. ASSUME NEW f, IsKid(F, p, f)
       PROVE  IsKid(F1, p, f)
  <2>1. PICK i \in 1..Len(F[p].kids) : F[p].kids[i] = f
    BY <1>21 DEF IsKid
  <2>2. CASE i <= c
    <3>1. i \in 1..Len(x.kids) /\ i \in 1..(Len(F[p].kids) + 1)
      BY <1>13
    <3>2. x.kids[i] = f
      BY <1>10, <2>1, <2>2, <3>1
    <3> QED  BY <1>12, <1>20, <3>1, <3>2 DEF IsKid
  <2>3. CASE i > c
    <3>1. i + 1 \in 1..Len(x.kids) /\ i + 1 \in 1..(Len(F[p].kids) + 1)
          /\ ~(i + 1 <= c) /\ i + 1 # c + 1 /\ (i + 1) - 1 = i
      BY <1>1, <1>13, <2>3
    <3>2. x.kids[i + 1] = f
      BY <1>10, <2>1, <3>1
    <3> QED  BY <1>12, <1>20, <3>1, <3>2 DEF IsKid
  <2> QED  BY <1>1, <2>2, <2>3
<1>22. IsKid(F1, p, e)
  <2>1. c + 1 \in 1..Len(x.kids) /\ c + 1 \in 1..(Len(F[p].kids) + 1) /\ ~(c + 1 <= c)
    BY <1>1, <1>13
  <2>2. x.kids[c + 1] = e
    BY <1>10, <2>1
  <2> QED  BY <1>12, <1>20, <2>1, <2>2 DEF IsKid
<1> QED  BY <1>2, <1>9, <1>12, <1>20, <1>21, <1>22 DEF Good

(* The nodes that do not lead to n are as they were.                             *)
LEMMA OthersKept ==
    ASSUME NEW F, NEW root, NEW s, NEW h, NEW n \in DOMAIN F, Tree(F, root, s, h, {n}),
           NEW e, e \notin DOMAIN F, NEW sep,
           NEW F1, DOMAIN F \subseteq DOMAIN F1,
           NEW s1, NEW h1, SpansSplit(DOMAIN F, s, h, n, e, sep, s1, h1),
           NEW f \in DOMAIN F, f # n, ~IsKid(F, f, n), F1[f] = F[f], NEW big
    PROVE  Good(F1, s1, h1, big, f)
<1>1. Good(F, s, h, {n}, f) /\ s1[f] = s[f] /\ h1[f] = h[f]
  BY DEF Tree, SpansSplit
<1>2. ASSUME F[f].type = "index", NEW i \in 1..Len(F[f].kids)
      PROVE  s1[F[f].kids[i]] = s[F[f].kids[i]] /\ h1[F[f].kids[i]] = h[F[f].kids[i]]
  <2> DEFINE g == F[f].kids[i]
  <2>1. g \in DOMAIN F
    BY <1>2, KidIs
  <2>2. g # n
    BY <1>2 DEF IsKid
  <2> HIDE DEF g
  <2>3. s1[g] = s[g] /\ h1[g] = h[g]
    BY <2>1, <2>2 DEF SpansSplit
  <2> QED  BY <2>3 DEF g
<1>3. Good(F, s, h, {}, f)
  <2>1. \A y : Room({n}, f, y) => Room({}, f, y)
    BY DEF Room
  <2> QED  BY <1>1, <2>1 DEF Good, GoodBlock, GoodIndex
<1> QED  BY <1>1, <1>2, <1>3, NodeKept

(* A tree in which a node below the root was split, and its parent has the    *)
(* separator.                                                                 *)
LEMMA SplitUnder ==
    ASSUME NEW F, NEW root, NEW s, NEW h, NEW n \in DOMAIN F, Tree(F, root, s, h, {n}), n # root,
           NEW e \in Fkeys, e \notin DOMAIN F,
           NEW p \in DOMAIN F, IsKid(F, p, n), NEW sep, Divides(s[n], sep),
           NEW F1, DOMAIN F1 = DOMAIN F \cup {e}, F1[p] = KeyInserted(F[p], sep, e),
           \A f \in DOMAIN F \ {n, p} : F1[f] = F[f],
           NEW s1, NEW h1, Frame(DOMAIN F \cup {e}, root, s1, h1),
           SpansSplit(DOMAIN F, s, h, n, e, sep, s1, h1),
           Parted(F, n, e, F1, s1, h1)
    PROVE  /\ Tree(F1, root, s1, h1, {p})
           /\ \A f \in DOMAIN F \ {n} : \A g : IsKid(F, f, g) => IsKid(F1, f, g)
<1>1. Frame(DOMAIN F1, root, s1, h1) /\ SpansSplit(DOMAIN F, s, h, n, e, sep, s1, h1)
  OBVIOUS
<1>2. Good(F1, s1, h1, {p}, p) /\ (\A f : IsKid(F, p, f) => IsKid(F1, p, f)) /\ IsKid(F1, p, e)
  <2>1. /\ Good(F1, s1, h1, {p}, p)
        /\ \A f : IsKid(F, p, f) => IsKid(F1, p, f)
        /\ IsKid(F1, p, e)
    BY ParentGood
  <2> QED  BY <2>1
<1>3. \A b, f : Good(F1, s1, h1, {}, f) => Good(F1, s1, h1, {b}, f)
  <2> SUFFICES ASSUME NEW b, NEW f, Good(F1, s1, h1, {}, f)
               PROVE  Good(F1, s1, h1, {b}, f)
    OBVIOUS
  <2>1. \A x \in Int : Room({}, f, x) => Room({b}, f, x)
    BY DEF Room
  <2>2. GoodBlock(F1, s1, h1, {}, f) => Len(F1[f].keys) - (NORECS - 1) \in Int
    <3> SUFFICES ASSUME GoodBlock(F1, s1, h1, {}, f) PROVE Len(F1[f].keys) - (NORECS - 1) \in Int
      OBVIOUS
    <3>1. Len(F1[f].keys) \in Nat
      BY BlockFacts DEF GoodBlock
    <3> QED  BY <3>1, SizesAssumption
  <2>3. GoodIndex(F1, s1, h1, {}, f) => Len(F1[f].keys) - (NOENTS - 2) \in Int
    <3> SUFFICES ASSUME GoodIndex(F1, s1, h1, {}, f) PROVE Len(F1[f].keys) - (NOENTS - 2) \in Int
      OBVIOUS
    <3>1. Len(F1[f].keys) \in Nat
      BY IndexFacts DEF GoodIndex
    <3> QED  BY <3>1, SizesAssumption
  <2> QED  BY <2>1, <2>2, <2>3 DEF Good, GoodBlock, GoodIndex
<1>4. ASSUME NEW f \in DOMAIN F, f # n, f # p
      PROVE  ~IsKid(F, f, n) /\ F1[f] = F[f]
  <2> SUFFICES ASSUME IsKid(F, f, n) PROVE FALSE
    BY <1>4
  <2>1. PICK i \in 1..Len(F[f].kids) : F[f].kids[i] = n
    BY DEF IsKid
  <2>2. PICK j \in 1..Len(F[p].kids) : F[p].kids[j] = n
    BY DEF IsKid
  <2>3. F[f].type = "index" /\ F[p].type = "index"
    BY DEF IsKid
  <2> QED  BY <1>4, <2>1, <2>2, <2>3, OneParent
<1>5. ASSUME NEW f \in DOMAIN F1
      PROVE  Good(F1, s1, h1, {p}, f)
  <2>1. CASE f = p
    BY <1>2, <2>1
  <2>2. CASE f = n \/ f = e
    BY <1>3, <2>2 DEF Parted
  <2>3. CASE f # p /\ f # n /\ f # e
    <3>1. f \in DOMAIN F /\ DOMAIN F \subseteq DOMAIN F1
      BY <2>3
    <3> QED  BY <1>1, <1>4, <2>3, <3>1, OthersKept
  <2> QED  BY <2>1, <2>2, <2>3
<1>6. \A f \in DOMAIN F \ {n} : \A g : IsKid(F, f, g) => IsKid(F1, f, g)
  <2> TAKE f \in DOMAIN F \ {n}
  <2> TAKE g
  <2>1. CASE f = p
    BY <1>2, <2>1
  <2>2. CASE f # p
    <3>1. F1[f] = F[f]
      BY <1>4, <2>2
    <3> QED  BY <3>1 DEF IsKid
  <2> QED  BY <2>1, <2>2
<1>7. Linked(F1, root)
  <2> SUFFICES ASSUME NEW f \in DOMAIN F1 \ {root}
               PROVE  \E g \in DOMAIN F1 : IsKid(F1, g, f)
    BY DEF Linked
  <2>1. CASE f = e
    BY <1>2, <2>1
  <2>2. CASE f # e
    <3>1. PICK g \in DOMAIN F : IsKid(F, g, f)
      BY <2>2 DEF Tree, Linked
    <3>2. CASE g = n
      BY <3>1, <3>2 DEF Parted
    <3>3. CASE g # n
      BY <1>6, <3>1, <3>3
    <3> QED  BY <3>2, <3>3
  <2> QED  BY <2>1, <2>2
<1>8. Tree(F1, root, s1, h1, {p})
  BY <1>1, <1>5, <1>7 DEF Tree
<1> QED  BY <1>6, <1>8

(* A new root r above the old one, n, and the node e split off it.                 *)
RootFrom(F, s, h, n, e, r, sep) ==
    /\ n \in DOMAIN F /\ Tree(F, n, s, h, {n})
    /\ e \in Fkeys /\ e \notin DOMAIN F /\ r \in Fkeys /\ r \notin DOMAIN F /\ e # r
    /\ Divides(s[n], sep)

RootInto(F, s, h, n, e, r, sep, F1, s1, h1) ==
    /\ DOMAIN F1 = DOMAIN F \cup {e, r} /\ F1[r] = Index(NoParent, << sep >>, << n, e >>)
    /\ \A f \in DOMAIN F \ {n} : F1[f] = F[f]
    /\ Frame(DOMAIN F \cup {e, r}, r, s1, h1) /\ SpansSplit(DOMAIN F, s, h, n, e, sep, s1, h1)
    /\ s1[r] = Nat /\ h1[r] = h[n] + 1
    /\ Parted(F, n, e, F1, s1, h1)

(* A tree whose root was split, with the new root above the halves.           *)
LEMMA SplitRoot ==
    ASSUME NEW F, NEW s, NEW h, NEW n, NEW e, NEW r, NEW sep, RootFrom(F, s, h, n, e, r, sep),
           NEW F1, NEW s1, NEW h1, RootInto(F, s, h, n, e, r, sep, F1, s1, h1)
    PROVE  Tree(F1, r, s1, h1, {})
<1>a. /\ n \in DOMAIN F /\ Tree(F, n, s, h, {n})
      /\ e \in Fkeys /\ e \notin DOMAIN F /\ r \in Fkeys /\ r \notin DOMAIN F /\ e # r
      /\ Divides(s[n], sep)
  BY DEF RootFrom
<1>b. /\ DOMAIN F1 = DOMAIN F \cup {e, r} /\ F1[r] = Index(NoParent, << sep >>, << n, e >>)
      /\ \A f \in DOMAIN F \ {n} : F1[f] = F[f]
      /\ Parted(F, n, e, F1, s1, h1)
  BY DEF RootInto
<1>1. /\ Frame(DOMAIN F1, r, s1, h1) /\ SpansSplit(DOMAIN F, s, h, n, e, sep, s1, h1)
      /\ s1[r] = Nat /\ h1[r] = h[n] + 1
  BY <1>b DEF RootInto
<1> USE <1>a, <1>b
<1>2. \A f \in DOMAIN F : ~IsKid(F, f, n)
  BY KidIs DEF IsKid
<1> DEFINE x == Index(NoParent, << sep >>, << n, e >>)
<1>3. /\ x.type = "index" /\ x.keys = << sep >> /\ x.kids = << n, e >> /\ x.parent = NoParent
      /\ x = Index(x.parent, x.keys, x.kids)
  BY DEF Index
<1>4. F1[r] = x
  OBVIOUS
<1> HIDE DEF x
<1>5. sep \in Keys /\ sep \in Nat /\ s[n] = Nat /\ n \in Fkeys
  <2>1. s[n] = Nat /\ n \in Fkeys
    BY NodeKinds DEF Tree, Frame
  <2> QED  BY <2>1, KeysAreNumbers DEF Divides
<1>6. IndexNode(x)
  <2>1. x.keys \in Seq(Keys) /\ x.kids \in Seq(Fkeys) /\ Len(x.kids) = Len(x.keys) + 1
    BY <1>3, <1>5
  <2>2. x.parent \in Fkeys
    BY <1>3 DEF NoParent, Fkeys
  <2>3. Ascending(x.keys)
    BY <1>3 DEF Ascending
  <2> QED  BY <1>3, <2>1, <2>2, <2>3 DEF IndexNode
<1>7. Len(x.keys) = 1 /\ x.keys[1] = sep /\ Len(x.kids) = 2 /\ x.kids[1] = n /\ x.kids[2] = e
  BY <1>3
<1>8. \A k \in Nat : ChildAt(x, k) = IF k < sep THEN 1 ELSE 2
  <2> TAKE k \in Nat
  <2>1. CASE k < sep
    <3>1. Parts(x.keys, k, 1)
      BY <1>7, <2>1 DEF Parts
    <3>2. x.keys \in Seq(Nat)
      BY <1>6, IndexFacts
    <3> QED  BY <2>1, <3>1, <3>2, ChildAtIs
  <2>2. CASE ~(k < sep)
    <3>1. Parts(x.keys, k, 2)
      BY <1>5, <1>7, <2>2 DEF Parts
    <3>2. x.keys \in Seq(Nat)
      BY <1>6, IndexFacts
    <3> QED  BY <2>2, <3>1, <3>2, ChildAtIs
  <2> QED  BY <2>1, <2>2
<1>9. h1[n] = h[n] /\ h1[e] = h[n] /\ s1[n] = Lower(Nat, sep) /\ s1[e] = Upper(Nat, sep)
  BY <1>1, <1>5 DEF SpansSplit
<1>10. Leads(F1, s1, h1, r, 1)
  <2>1. s1[n] = Span(x, s1[r], 1)
    BY <1>1, <1>5, <1>8, <1>9 DEF Span, Lower
  <2> QED  BY <1>1, <1>4, <1>7, <1>9, <2>1 DEF Leads
<1>11. Leads(F1, s1, h1, r, 2)
  <2>1. s1[e] = Span(x, s1[r], 2)
    BY <1>1, <1>5, <1>8, <1>9 DEF Span, Upper
  <2> QED  BY <1>1, <1>4, <1>7, <1>9, <2>1 DEF Leads
<1>12. GoodIndex(F1, s1, h1, {}, r)
  <2>1. Within(x.keys, s1[r])
    BY <1>1, <1>5, <1>7 DEF Within
  <2>2. Above(x.keys, s1[r])
    <3>1. \E m \in s1[r] : m < sep
      BY <1>1, <1>5 DEF Divides
    <3> QED  BY <1>7, <3>1 DEF Above
  <2>3. Room({}, r, Len(x.keys) - (NOENTS - 2))
    BY <1>7, SizesAssumption DEF Room
  <2>4. \A i \in 1..Len(x.kids) : Leads(F1, s1, h1, r, i)
    <3>1. \A i \in 1..Len(x.kids) : i = 1 \/ i = 2
      BY <1>7
    <3> QED  BY <1>10, <1>11, <3>1
  <2> QED  BY <1>4, <1>6, <2>1, <2>2, <2>3, <2>4 DEF GoodIndex
<1>13. ASSUME NEW f \in DOMAIN F1
       PROVE  Good(F1, s1, h1, {}, f)
  <2>1. CASE f = r
    BY <1>12, <2>1 DEF Good
  <2>2. CASE f = n \/ f = e
    BY <2>2 DEF Parted
  <2>3. CASE f # r /\ f # n /\ f # e
    <3>1. f \in DOMAIN F /\ DOMAIN F \subseteq DOMAIN F1 /\ F1[f] = F[f]
      BY <2>3
    <3> QED  BY <1>1, <1>2, <2>3, <3>1, OthersKept
  <2> QED  BY <2>1, <2>2, <2>3
<1>14. Linked(F1, r)
  <2> SUFFICES ASSUME NEW f \in DOMAIN F1 \ {r}
               PROVE  \E g \in DOMAIN F1 : IsKid(F1, g, f)
    BY DEF Linked
  <2>1. CASE f = n \/ f = e
    <3>1. 1 \in 1..Len(F1[r].kids) /\ 2 \in 1..Len(F1[r].kids)
      BY <1>4, <1>7
    <3>2. IsKid(F1, r, n) /\ IsKid(F1, r, e)
      BY <1>3, <1>4, <1>7, <3>1 DEF IsKid
    <3> QED  BY <2>1, <3>2
  <2>2. CASE f # n /\ f # e
    <3>1. PICK g \in DOMAIN F : IsKid(F, g, f)
      BY <2>2 DEF Tree, Linked
    <3>2. CASE g = n
      BY <3>1, <3>2 DEF Parted
    <3>3. CASE g # n
      <4>1. F1[g] = F[g]
        BY <3>3
      <4>2. IsKid(F1, g, f)
        BY <3>1, <4>1 DEF IsKid
      <4> QED  BY <4>2
    <3> QED  BY <3>2, <3>3
  <2> QED  BY <2>1, <2>2
<1> QED  BY <1>1, <1>13, <1>14 DEF Tree

(* A node may be replaced by a good one with the same children.               *)
LEMMA NodeSet ==
    ASSUME NEW F, NEW root, NEW s, NEW h, NEW big, Tree(F, root, s, h, big), NEW n \in DOMAIN F,
           NEW F1, DOMAIN F1 = DOMAIN F, \A f \in DOMAIN F \ {n} : F1[f] = F[f],
           NEW big1, Good(F1, s, h, big1, n), \A f : IsKid(F, n, f) => IsKid(F1, n, f),
           \A f \in big : f \in big1 \/ f = n
    PROVE  Tree(F1, root, s, h, big1)
<1>1. ASSUME NEW f \in DOMAIN F
      PROVE  Good(F1, s, h, big1, f)
  <2>1. CASE f = n
    BY <2>1
  <2>2. CASE f # n
    <3>1. Good(F, s, h, big, f)
      BY DEF Tree
    <3>2. F1[f] = F[f] /\ (f \in big => f \in big1) /\ DOMAIN F \subseteq DOMAIN F1
      BY <2>2
    <3> QED  BY <3>1, <3>2, NodeKept
  <2> QED  BY <2>1, <2>2
<1>2. Linked(F1, root)
  <2> SUFFICES ASSUME NEW f \in DOMAIN F \ {root}
               PROVE  \E g \in DOMAIN F : IsKid(F1, g, f)
    BY DEF Linked
  <2>1. PICK g \in DOMAIN F : IsKid(F, g, f)
    BY DEF Tree, Linked
  <2>2. CASE g = n
    BY <2>1, <2>2
  <2>3. CASE g # n
    <3>1. F1[g] = F[g]
      BY <2>3
    <3>2. IsKid(F1, g, f)
      BY <2>1, <3>1 DEF IsKid
    <3> QED  BY <3>2
  <2> QED  BY <2>2, <2>3
<1>3. Frame(DOMAIN F1, root, s, h)
  BY DEF Tree
<1> QED  BY <1>1, <1>2, <1>3 DEF Tree

(* The block that bt_addrecord rewrites.                                          *)
LEMMA BlockSet ==
    ASSUME NEW F, NEW root, NEW s, NEW h, Tree(F, root, s, h, {}),
           NEW n \in DOMAIN F, F[n].type = "block", NEW k \in Keys, k \in s[n], NEW r \in Records \cup {DELE},
           NEW F1, DOMAIN F1 = DOMAIN F, \A f \in DOMAIN F \ {n} : F1[f] = F[f],
           F1[n] = Updated(F[n], k, r)
    PROVE  /\ Tree(F1, root, s, h, {n})
           /\ BlockNode(F1[n]) /\ F1[n].type = "block" /\ Len(F1[n].keys) \in Nat
           /\ MustSplit(F[n], k) => Len(F1[n].keys) = NORECS
           /\ ~MustSplit(F[n], k) => Len(F1[n].keys) <= NORECS - 1
           /\ \A c : Holds(F, s, c) /\ c = [j \in Keys |-> c[j]] => Holds(F1, s, [c EXCEPT ![k] = Stored(r)])
<1>1. GoodBlock(F, s, h, {}, n)
  BY NodeKinds
<1>2. /\ BlockNode(F[n]) /\ Within(F[n].keys, s[n]) /\ h[n] = 0
      /\ Len(F[n].keys) \in Nat /\ Len(F[n].keys) <= NORECS - 1
  <2>1. BlockNode(F[n]) /\ Within(F[n].keys, s[n]) /\ h[n] = 0 /\ Len(F[n].keys) - (NORECS - 1) <= 0
    BY <1>1 DEF GoodBlock, Room
  <2>2. Len(F[n].keys) \in Nat
    BY <2>1, BlockFacts
  <2> QED  BY <2>1, <2>2, SizesAssumption
<1>3. /\ BlockNode(F1[n])
      /\ \A i \in 1..Len(F1[n].keys) : F1[n].keys[i] = k \/ \E j \in 1..Len(F[n].keys) : F1[n].keys[i] = F[n].keys[j]
      /\ ValueIn(F1[n], k) = Stored(r)
      /\ \A j \in Keys \ {k} : ValueIn(F1[n], j) = ValueIn(F[n], j)
      /\ HasKey(F[n], k) => Len(F1[n].keys) = Len(F[n].keys)
      /\ ~HasKey(F[n], k) => Len(F1[n].keys) = Len(F[n].keys) + 1
  <2>1. CASE HasKey(F[n], k)
    <3>1. /\ BlockNode(F1[n]) /\ F1[n].keys = F[n].keys
          /\ ValueIn(F1[n], k) = Stored(r)
          /\ \A j \in Keys \ {k} : ValueIn(F1[n], j) = ValueIn(F[n], j)
      BY <1>2, <2>1, ReplacedIs
    <3> QED  BY <2>1, <3>1
  <2>2. CASE ~HasKey(F[n], k)
    <3>1. /\ BlockNode(F1[n]) /\ Len(F1[n].keys) = Len(F[n].keys) + 1
          /\ \A i \in 1..Len(F1[n].keys) : F1[n].keys[i] = k \/ \E j \in 1..Len(F[n].keys) : F1[n].keys[i] = F[n].keys[j]
          /\ ValueIn(F1[n], k) = Stored(r)
          /\ \A j \in Keys \ {k} : ValueIn(F1[n], j) = ValueIn(F[n], j)
      BY <1>2, <2>2, InsertedIs
    <3> QED  BY <2>2, <3>1
  <2> QED  BY <2>1, <2>2
<1>4. F1[n].type = "block" /\ Len(F1[n].keys) \in Nat
  BY <1>3, BlockFacts
<1>5. Within(F1[n].keys, s[n])
  BY <1>2, <1>3 DEF Within
<1>6. /\ MustSplit(F[n], k) => Len(F1[n].keys) = NORECS
      /\ ~MustSplit(F[n], k) => Len(F1[n].keys) <= NORECS - 1
  <2>1. CASE HasKey(F[n], k)
    BY <1>2, <1>3, <2>1 DEF MustSplit
  <2>2. CASE ~HasKey(F[n], k)
    <3>1. Len(F1[n].keys) = Len(F[n].keys) + 1
      BY <1>3, <2>2
    <3>2. MustSplit(F[n], k) <=> Len(F[n].keys) = NORECS - 1
      BY <2>2 DEF MustSplit
    <3> QED  BY <1>2, <3>1, <3>2, SizesAssumption
  <2> QED  BY <2>1, <2>2
<1>7. Good(F1, s, h, {n}, n)
  <2>1. Len(F1[n].keys) - (NORECS - 1) <= 1
    <3>1. Len(F1[n].keys) = Len(F[n].keys) \/ Len(F1[n].keys) = Len(F[n].keys) + 1
      BY <1>3
    <3> QED  BY <1>2, <3>1, SizesAssumption
  <2> QED  BY <1>2, <1>3, <1>5, <2>1 DEF Good, GoodBlock, Room
<1>8. \A f : ~IsKid(F, n, f)
  BY DEF IsKid
<1>9. Tree(F1, root, s, h, {n})
  BY <1>7, <1>8, NodeSet
<1>10. ASSUME NEW c, Holds(F, s, c), c = [j \in Keys |-> c[j]]
       PROVE  Holds(F1, s, [c EXCEPT ![k] = Stored(r)])
  <2> DEFINE c1 == [c EXCEPT ![k] = Stored(r)]
  <2>1. \A j \in Keys : c1[j] = IF j = k THEN Stored(r) ELSE c[j]
    BY <1>10
  <2> HIDE DEF c1
  <2> SUFFICES ASSUME NEW f \in DOMAIN F, F1[f].type = "block", NEW j \in Keys, j \in s[f]
               PROVE  ValueIn(F1[f], j) = c1[j]
    BY DEF Holds, c1
  <2>2. CASE f = n
    <3>1. CASE j = k
      BY <1>3, <2>1, <2>2, <3>1
    <3>2. CASE j # k
      <4>1. ValueIn(F[n], j) = c[j]
        BY <1>10, <2>2 DEF Holds
      <4> QED  BY <1>3, <2>1, <2>2, <3>2, <4>1
    <3> QED  BY <3>1, <3>2
  <2>3. CASE f # n
    <3>1. F1[f] = F[f]
      BY <2>3
    <3>2. ValueIn(F[f], j) = c[j]
      BY <1>10, <3>1 DEF Holds
    <3>3. j # k
      <4>1. h[f] = 0
        <5>1. F[f].type # "index"
          BY <3>1
        <5> QED  BY <5>1, NodeKinds
      <4>2. s[f] \cap s[n] = {}
        BY <1>2, <2>3, <4>1, FrameFacts DEF Tree, Spread
      <4> QED  BY <4>2
    <3> QED  BY <2>1, <3>1, <3>2, <3>3
  <2> QED  BY <2>2, <2>3
<1> QED  BY <1>3, <1>4, <1>6, <1>9, <1>10

(* A node that is not overfull need not be excepted.                              *)
LEMMA RelaxBig ==
    ASSUME NEW F, NEW root, NEW s, NEW h, NEW n \in DOMAIN F, Tree(F, root, s, h, {n}),
           \/ F[n].type = "block" /\ Len(F[n].keys) <= NORECS - 1
           \/ F[n].type = "index" /\ Len(F[n].keys) <= NOENTS - 2
    PROVE  Tree(F, root, s, h, {})
<1>1. Good(F, s, h, {}, n)
  <2>1. CASE F[n].type = "block" /\ Len(F[n].keys) <= NORECS - 1
    <3>1. GoodBlock(F, s, h, {n}, n)
      BY <2>1, NodeKinds
    <3>2. Room({}, n, Len(F[n].keys) - (NORECS - 1))
      <4>1. Len(F[n].keys) \in Nat
        BY <3>1, BlockFacts DEF GoodBlock
      <4> QED  BY <2>1, <4>1, SizesAssumption DEF Room
    <3> QED  BY <3>1, <3>2 DEF Good, GoodBlock
  <2>2. CASE F[n].type = "index" /\ Len(F[n].keys) <= NOENTS - 2
    <3>1. GoodIndex(F, s, h, {n}, n)
      BY <2>2, NodeKinds
    <3>2. Room({}, n, Len(F[n].keys) - (NOENTS - 2))
      <4>1. Len(F[n].keys) \in Nat
        BY <3>1, IndexFacts DEF GoodIndex
      <4> QED  BY <2>2, <4>1, SizesAssumption DEF Room
    <3> QED  BY <3>1, <3>2 DEF Good, GoodIndex
  <2> QED  BY <2>1, <2>2
<1> QED  BY <1>1, NodeSet

(* How many keys a node has, at rest and when it is overfull.                 *)
LEMMA BigBounds ==
    ASSUME NEW F, NEW root, NEW s, NEW h, NEW big, Tree(F, root, s, h, big), NEW n \in DOMAIN F
    PROVE  /\ F[n].type = "block" => Len(F[n].keys) \in Nat /\ Len(F[n].keys) <= NORECS
           /\ F[n].type = "index" => Len(F[n].keys) \in Nat /\ Len(F[n].keys) <= NOENTS - 1
           /\ n \notin big => /\ F[n].type = "block" => Len(F[n].keys) <= NORECS - 1
                              /\ F[n].type = "index" => Len(F[n].keys) <= NOENTS - 2
<1>1. CASE F[n].type = "block"
  <2>1. GoodBlock(F, s, h, big, n)
    BY <1>1, NodeKinds
  <2>2. Len(F[n].keys) \in Nat /\ Len(F[n].keys) - (NORECS - 1) <= IF n \in big THEN 1 ELSE 0
    BY <2>1, BlockFacts DEF GoodBlock, Room
  <2> QED  BY <1>1, <2>2, SizesAssumption
<1>2. CASE F[n].type = "index"
  <2>1. GoodIndex(F, s, h, big, n)
    BY <1>2, NodeKinds
  <2>2. Len(F[n].keys) \in Nat /\ Len(F[n].keys) - (NOENTS - 2) <= IF n \in big THEN 1 ELSE 0
    BY <2>1, IndexFacts DEF GoodIndex, Room
  <2> QED  BY <1>2, <2>2, SizesAssumption
<1> QED  BY <1>1, <1>2, NodeKinds

(* Nothing but the descent reads the parent kept in an index.                     *)
LEMMA ChildAtSame ==
    ASSUME NEW a, NEW b, a.keys = b.keys
    PROVE  \A n : ChildAt(a, n) = ChildAt(b, n)
BY DEF ChildAt

(* An index with another parent noted in it, as bt_addrecord does on the way  *)
(* down.                                                                      *)
Parented(ix, q) == [ix EXCEPT !.parent = q]

(* To note another parent changes nothing in the tree.                        *)
LEMMA Reparent ==
    ASSUME NEW F, NEW root, NEW s, NEW h, NEW big, Tree(F, root, s, h, big),
           NEW n \in DOMAIN F, F[n].type = "index", NEW q \in Fkeys,
           NEW F1, DOMAIN F1 = DOMAIN F, \A f \in DOMAIN F \ {n} : F1[f] = F[f],
           F1[n] = Parented(F[n], q)
    PROVE  /\ Tree(F1, root, s, h, big)
           /\ F1[n].parent = q /\ F1[n].type = "index" /\ F1[n].keys = F[n].keys /\ F1[n].kids = F[n].kids
           /\ DOMAIN F1 = DOMAIN F /\ \A f \in DOMAIN F \ {n} : F1[f] = F[f]
           /\ \A f, g : f \in DOMAIN F => (IsKid(F, f, g) <=> IsKid(F1, f, g))
           /\ \A c : Holds(F, s, c) => Holds(F1, s, c)
<1>1. GoodIndex(F, s, h, big, n) /\ IndexNode(F[n])
  BY NodeKinds DEF GoodIndex
<1>2. /\ DOMAIN F1 = DOMAIN F /\ \A f \in DOMAIN F \ {n} : F1[f] = F[f]
  OBVIOUS
<1>3. F1[n] = [F[n] EXCEPT !.parent = q]
  BY DEF Parented
<1>4. F1[n] = Index(q, F[n].keys, F[n].kids)
  <2>1. F[n] = Index(F[n].parent, F[n].keys, F[n].kids)
    BY <1>1 DEF IndexNode
  <2>2. PICK a, b, c : a = F[n].parent /\ b = F[n].keys /\ c = F[n].kids
    OBVIOUS
  <2>3. F[n] = Index(a, b, c)
    BY <2>1, <2>2
  <2>4. [Index(a, b, c) EXCEPT !.parent = q] = Index(q, b, c)
    BY DEF Index
  <2> QED  BY <1>3, <2>2, <2>3, <2>4
<1>5. F1[n].parent = q /\ F1[n].type = "index" /\ F1[n].keys = F[n].keys /\ F1[n].kids = F[n].kids
      /\ F1[n] = Index(F1[n].parent, F1[n].keys, F1[n].kids)
  BY <1>4 DEF Index
<1> HIDE <1>3, <1>4
<1>6. IndexNode(F1[n])
  BY <1>1, <1>5 DEF IndexNode
<1>7. \A i \in 1..Len(F1[n].kids) : Leads(F1, s, h, n, i)
  <2> TAKE i \in 1..Len(F1[n].kids)
  <2>1. Leads(F, s, h, n, i)
    BY <1>1, <1>5 DEF GoodIndex
  <2>2. Span(F1[n], s[n], i) = Span(F[n], s[n], i)
    BY <1>5, ChildAtSame DEF Span
  <2> QED  BY <1>2, <1>5, <2>1, <2>2 DEF Leads
<1>8. Good(F1, s, h, big, n)
  BY <1>1, <1>5, <1>6, <1>7 DEF Good, GoodIndex
<1>9. \A f, g : f \in DOMAIN F => (IsKid(F, f, g) <=> IsKid(F1, f, g))
  <2> TAKE f, g
  <2>1. f \in DOMAIN F => F1[f].type = F[f].type /\ F1[f].kids = F[f].kids
    BY <1>2, <1>5
  <2> QED  BY <2>1 DEF IsKid
<1>10. Tree(F1, root, s, h, big)
  <2>1. \A f : IsKid(F, n, f) => IsKid(F1, n, f)
    BY <1>9
  <2>2. \A f \in big : f \in big \/ f = n
    OBVIOUS
  <2> QED  BY <1>2, <1>8, <2>1, <2>2, NodeSet
<1>11. \A c : Holds(F, s, c) => Holds(F1, s, c)
  BY <1>2, <1>5 DEF Holds
<1> QED  BY <1>2, <1>5, <1>9, <1>10, <1>11

(* Blocks that hold what the blocks they came from held.                          *)
LEMMA HoldsKept ==
    ASSUME NEW F, NEW s, NEW c, Holds(F, s, c), NEW F1, NEW s1,
           \A f \in DOMAIN F1 : F1[f].type = "block" =>
              \E g \in DOMAIN F : /\ F[g].type = "block" /\ s1[f] \subseteq s[g]
                                  /\ \A k \in Keys : k \in s1[f] => ValueIn(F1[f], k) = ValueIn(F[g], k)
    PROVE  Holds(F1, s1, c)
<1> SUFFICES ASSUME NEW f \in DOMAIN F1, F1[f].type = "block", NEW k \in Keys, k \in s1[f]
             PROVE  ValueIn(F1[f], k) = c[k]
  BY DEF Holds
<1>1. PICK g \in DOMAIN F : /\ F[g].type = "block" /\ s1[f] \subseteq s[g]
                            /\ \A j \in Keys : j \in s1[f] => ValueIn(F1[f], j) = ValueIn(F[g], j)
  OBVIOUS
<1> QED  BY <1>1 DEF Holds

-----------------------------------------------------------------------------
(* The invariant.  F is the tree as it stands when what op holds is taken to be   *)
(* written: whole nodes, of which one (op.node) may be overfull while it is being *)
(* split.  G are the files a process that does not die leaves.                    *)

(* The stages of an operation: on the way down; with a block to be moved into *)
(* place; with an index that is to have one key more, which may be in two     *)
(* halves; with a new master.                                                 *)
Descending == op.at \in { "descend", "unlink", "rename", "renameextra" }
Moving == op.at \in { "unlink", "rename", "renameextra" }
Rising == op.at \in { "addkey", "putindex", "putnewdex", "crtmaster" }
Halving == op.at \in { "putindex", "putnewdex", "crtmaster" }
Topping == op.at \in { "newmaster", "writemaster" }

(* The root of the tree F, and its node with one key too many.                *)
Root == IF op.at = "newmaster" THEN op.node ELSE kmem.mkey

Big == IF Moving \/ Rising THEN { op.node } ELSE {}

(* What crtindex writes.                                                      *)
Empty == Index(NoParent, << >>, << >>)

(* All files but that of op.node are those of the tree.                       *)
Elsewhere(G, F) == \A f \in DOMAIN F \ {op.node} : G[f] = F[f]

(* An index whose links all go down in the tree from where n is.                  *)
Under(ix, F, h, n) ==
    IndexNode(ix) /\ \A i \in 1..Len(ix.kids) : ix.kids[i] \in DOMAIN F /\ h[ix.kids[i]] < h[n]

(* The files against the tree, stage by stage: at rest and on the way down    *)
(* they are the same.                                                         *)
AtRest(G, F) == G = F

(* While a block is moved into place the tree has the block already, whole.   *)
MovingFiles(G, F) ==
    /\ DOMAIN G = DOMAIN F /\ Elsewhere(G, F)
    /\ F[op.node].type = "block"
    /\ op.right = Bad =>
         op.at # "renameextra" /\ op.left = F[op.node] /\ Len(F[op.node].keys) <= NORECS - 1
    /\ op.right # Bad =>
         /\ Len(F[op.node].keys) = NORECS
         /\ op.left = LeftBlock(F[op.node]) /\ op.right = RightBlock(F[op.node])
         /\ op.sep = RightBlock(F[op.node]).keys[1] /\ op.extra \notin DOMAIN F
    /\ op.at = "unlink" => BlockNode(G[op.node])
    /\ op.at = "rename" => G[op.node] = Bad
    /\ op.at = "renameextra" => G[op.node] = op.left

(* Before addkey writes an index the tree has the separator in it already.    *)
AddingFiles(G, F) ==
    /\ DOMAIN G = DOMAIN F /\ Elsewhere(G, F)
    /\ F[op.node] = KeyInserted(G[op.node], op.sep, op.extra)
    /\ Len(F[op.node].keys) = Len(G[op.node].keys) + 1 /\ ~Contains(G[op.node].keys, op.sep)

(* While an index is written in halves the tree has it whole, and not yet the *)
(* new file.                                                                  *)
HalvingFiles(G, F) ==
    /\ op.extra \notin DOMAIN F /\ DOMAIN G = DOMAIN F \cup { op.extra } /\ Elsewhere(G, F)
    /\ Len(F[op.node].keys) = NOENTS - 1
    /\ op.left = LeftIndex(F[op.node]) /\ op.right = RightIndex(F[op.node])
    /\ op.sep = F[op.node].keys[Half + 1]
    /\ op.at # "putindex" => G[op.node] = op.left
    /\ G[op.extra] = IF op.at = "crtmaster" THEN op.right ELSE Empty

(* Until the new master is written its file is an empty index.                *)
ToppingFiles(G, F) ==
    /\ DOMAIN G = DOMAIN F /\ Elsewhere(G, F)
    /\ F[op.node] = op.left /\ G[op.node] = Empty

(* What each stage says of the files.                                         *)
OnDisk(G, F, h) ==
    /\ op.at \in { "idle", "descend" } => AtRest(G, F)
    /\ Moving => MovingFiles(G, F)
    /\ op.at = "addkey" => AddingFiles(G, F)
    /\ op.at \in { "addkey", "putindex" } => Under(G[op.node], F, h, op.node)
    /\ Halving => HalvingFiles(G, F)
    /\ Topping => ToppingFiles(G, F)

(* The indexes that the descent came through.                                     *)
Steps == [node : Fkeys, span : SUBSET Keys]

OnTrail(F, s, h, root, path, i) ==
    LET p == path[i].node
    IN  /\ p \in DOMAIN F /\ F[p].type = "index"
        /\ F[p].parent = IF i = 1 THEN NoParent ELSE path[i - 1].node
        /\ path[i].span = s[p] \cap Keys
        /\ h[p] + i = h[root] + 1
        /\ i = 1 => p = root
        /\ i > 1 => IsKid(F, path[i - 1].node, p)

Trail(F, s, h, root, path) ==
    /\ path \in Seq(Steps)
    /\ \A i \in 1..Len(path) : OnTrail(F, s, h, root, path, i)

(* Where a descent along path is.                                                 *)
Reached(F, h, root, path, n) ==
    /\ h[n] + Len(path) = h[root]
    /\ path = << >> => n = root
    /\ path # << >> => IsKid(F, path[Len(path)].node, n)

Where(F, s, h) ==
    /\ Descending \/ Rising =>
         /\ op.node \in DOMAIN F /\ Trail(F, s, h, kmem.mkey, op.path)
         /\ op.span = s[op.node] \cap Keys /\ op.key \in s[op.node]
    /\ Descending => Reached(F, h, kmem.mkey, op.path, op.node)
    /\ Rising => op.path # << >> /\ op.node = op.path[Len(op.path)].node
    /\ op.at = "addkey" => op.sep \in op.span
    /\ op.at = "crtmaster" => op.node = kmem.mkey
    /\ Topping => op.node \in DOMAIN F /\ op.span = Keys

(* What is stored, once the block is taken to be written.                         *)
After == IF op.at = "descend" THEN op.before ELSE [op.before EXCEPT ![op.key] = Stored(op.rec)]

(* The operation has a key and a record to store, and the blocks of the tree  *)
(* hold them already.                                                         *)
Stores(F, s) ==
    op.at # "idle" =>
       /\ op.key \in Keys /\ op.rec \in Records \cup {DELE}
       /\ op.before = [k \in Keys |-> op.before[k]]
       /\ Holds(F, s, After)

(* A tree that the files stand for, with the descent and what is stored in    *)
(* it.                                                                        *)
Sound(G, F, s, h) ==
    /\ Tree(F, Root, s, h, Big)
    /\ OnDisk(G, F, h)
    /\ Where(F, s, h)
    /\ Stores(F, s)

(* The stages there are.                                                      *)
Stages ==
    /\ op.at = "idle" \/ Descending \/ Rising \/ Topping
    /\ op.at = "idle" => op = Idle
    /\ op.at = "descend" => op.right = Bad

(* The words in memory and in the file "key".                                 *)
Words ==
    /\ up \in BOOLEAN /\ crashed \in BOOLEAN /\ (crashed => ~up)
    /\ kmem.mkey \in Fkeys /\ keyfile \in [mkey : Fkeys, fkey : Fkeys]
    /\ op.node \in Fkeys /\ IsNode(op.left) /\ IsNode(op.right)

(* A process that died may have truncated the node it was writing.                *)
Left(G) ==
    \/ files = G
    \/ crashed /\ op.at # "idle" /\ op.node \in DOMAIN G /\ files = [G EXCEPT ![op.node] = Bad]

TreeInv ==
    /\ FileInv /\ Words /\ Stages
    /\ \E G, F, s, h : Left(G) /\ Sound(G, F, s, h)

(* The stages, by name.                                                       *)
LEMMA StageNames ==
    /\ Descending <=> op.at = "descend" \/ Moving
    /\ Rising <=> op.at = "addkey" \/ Halving
    /\ Moving => Descending
    /\ Halving => Rising
BY DEF Descending, Moving, Rising, Halving

(* What Idle holds: no file, no descent, nothing to be written.               *)
LEMMA IdleFacts ==
    /\ Idle.at = "idle" /\ Idle.node = NoParent /\ Idle.left = Bad /\ Idle.right = Bad
    /\ Idle.extra = NoParent /\ Idle.path = << >> /\ Idle.span = {}
    /\ NoParent \in Fkeys /\ IsNode(Bad)
BY DEF Idle, NoParent, Fkeys, IsNode

(* Whole blocks and indexes are nodes, and so is an empty index.              *)
LEMMA BlockIsNode == \A b : BlockNode(b) => IsNode(b)
<1> SUFFICES ASSUME NEW b, BlockNode(b) PROVE IsNode(b)
  OBVIOUS
<1>1. b.type = "block" /\ b.keys \in Seq(Keys) /\ b.recs \in Seq(Records \cup {DELE}) /\ Len(b.keys) = Len(b.recs)
  BY DEF BlockNode, Block
<1> QED  BY <1>1 DEF IsNode

(* A whole index is a node.                                                   *)
LEMMA IndexIsNode == \A ix : IndexNode(ix) => IsNode(ix)
<1> SUFFICES ASSUME NEW ix, IndexNode(ix) PROVE IsNode(ix)
  OBVIOUS
<1>1. /\ ix.type = "index" /\ ix.parent \in Fkeys /\ ix.keys \in Seq(Keys) /\ ix.kids \in Seq(Fkeys)
      /\ Len(ix.kids) = Len(ix.keys) + 1 /\ Len(ix.keys) \in Nat
  BY IndexFacts
<1>2. ix.kids # << >>
  <2>1. Len(ix.kids) # 0
    BY <1>1
  <2> QED  BY <2>1
<1> QED  BY <1>1, <1>2 DEF IsNode

(* An empty index is a node.                                                  *)
LEMMA EmptyIsNode == IsNode(Empty)
<1>1. Empty.type = "index" /\ Empty.parent = NoParent /\ Empty.keys = << >> /\ Empty.kids = << >>
  BY DEF Empty, Index
<1>2. NoParent \in Fkeys
  BY DEF NoParent, Fkeys
<1> QED  BY <1>1, <1>2 DEF IsNode

(* The files of a tree are nodes.                                             *)
LEMMA TreeNodes ==
    ASSUME NEW F, NEW root, NEW s, NEW h, NEW big, Tree(F, root, s, h, big), NEW f \in DOMAIN F
    PROVE  IsNode(F[f])
BY NodeKinds, BlockIsNode, IndexIsNode DEF GoodBlock, GoodIndex

-----------------------------------------------------------------------------
(* What the invariant says of each state.                                        *)

(* Every file is a node.                                                          *)
LEMMA FilesAreNodes ==
    ASSUME NEW G, NEW F, NEW s, NEW h, Sound(G, F, s, h), Words, Stages, Left(G)
    PROVE  \A f \in DOMAIN files : IsNode(files[f])
<1>1. \A f \in DOMAIN F : IsNode(F[f])
  BY TreeNodes DEF Sound
<1>2. \A f \in DOMAIN G : IsNode(G[f])
  <2>1. CASE op.at = "idle" \/ op.at = "descend"
    BY <1>1, <2>1 DEF Sound, OnDisk, AtRest
  <2>2. CASE Moving
    <3>1. MovingFiles(G, F)
      BY <2>2 DEF Sound, OnDisk
    <3>2. op.at = "unlink" \/ op.at = "rename" \/ op.at = "renameextra"
      BY <2>2 DEF Moving
    <3>3. IsNode(G[op.node])
      BY <3>1, <3>2, BlockIsNode, IdleFacts DEF MovingFiles, Words
    <3> QED  BY <1>1, <3>1, <3>3 DEF MovingFiles, Elsewhere
  <2>3. CASE op.at = "addkey"
    <3>1. AddingFiles(G, F) /\ IndexNode(G[op.node])
      BY <2>3 DEF Sound, OnDisk, Under
    <3> QED  BY <1>1, <3>1, IndexIsNode DEF AddingFiles, Elsewhere
  <2>4. CASE Halving
    <3>1. HalvingFiles(G, F) /\ (op.at = "putindex" => IndexNode(G[op.node]))
      BY <2>4 DEF Sound, OnDisk, Under
    <3>2. IsNode(G[op.node]) /\ IsNode(G[op.extra])
      BY <3>1, IndexIsNode, EmptyIsNode DEF HalvingFiles, Words
    <3> QED  BY <1>1, <3>1, <3>2 DEF HalvingFiles, Elsewhere
  <2>5. CASE Topping
    <3>1. ToppingFiles(G, F)
      BY <2>5 DEF Sound, OnDisk
    <3> QED  BY <1>1, <3>1, EmptyIsNode DEF ToppingFiles, Elsewhere
  <2> QED  BY <2>1, <2>2, <2>3, <2>4, <2>5, StageNames DEF Stages
<1> QED  BY <1>2, IdleFacts DEF Left

(* The invariant has the types.                                               *)
LEMMA InvTypes == TreeInv => TypeOK
<1> SUFFICES ASSUME TreeInv PROVE TypeOK
  OBVIOUS
<1>1. PICK G, F, s, h : Left(G) /\ Sound(G, F, s, h)
  BY DEF TreeInv
<1>2. \A f \in DOMAIN files : IsNode(files[f])
  BY <1>1, FilesAreNodes DEF TreeInv
<1>3. kmem \in [mkey : Fkeys, fkey : Fkeys]
  BY DEF TreeInv, FileInv, KeyWords, NextFile, Words
<1> QED  BY <1>2, <1>3 DEF TypeOK, TreeInv, FileInv, FilesBefore, ExtraBefore, Words

(* Between operations the files are the tree, which is balanced.              *)
LEMMA InvBalanced == TreeInv => Balanced
<1> SUFFICES ASSUME TreeInv PROVE Balanced
  OBVIOUS
<1>1. PICK G, F, s, h : Left(G) /\ Sound(G, F, s, h)
  BY DEF TreeInv
<1>2. TypeOK
  BY InvTypes
<1>3. ASSUME op = Idle
      PROVE  Tree(files, kmem.mkey, s, h, Big)
  <2>1. op.at = "idle"
    BY <1>3, IdleFacts
  <2>2. files = F
    BY <1>1, <2>1 DEF Left, Sound, OnDisk, AtRest
  <2> QED  BY <1>1, <2>1, <2>2 DEF Sound, Root
<1>4. ASSUME op = Idle
      PROVE  /\ Links(kmem.mkey) = {}
             /\ \A f \in DOMAIN files \ {kmem.mkey} : Cardinality(Links(f)) = 1
             /\ Cardinality(Depths) = 1
  BY <1>3, <1>4, TreeBalanced
<1> QED  BY <1>2, <1>4 DEF Balanced

(* No check of the code fails: the block the descent ends in has room for one *)
(* key, and so has the index that addkey is given, in which the separator     *)
(* belongs.                                                                   *)
LEMMA InvNoFatal == TreeInv => NoFatal
<1> SUFFICES ASSUME TreeInv PROVE NoFatal
  OBVIOUS
<1>1. PICK G, F, s, h : Left(G) /\ Sound(G, F, s, h)
  BY DEF TreeInv
<1>2. ASSUME op.at = "descend", files[op.node].type = "block"
      PROVE  Len(files[op.node].keys) < NORECS
  <2>1. G = F /\ op.node \in DOMAIN F /\ Tree(F, Root, s, h, Big) /\ op.node \notin Big
    BY <1>1, <1>2 DEF Sound, OnDisk, AtRest, Where, Descending, Big, Moving, Rising
  <2>2. files[op.node] # Bad
    BY <1>2 DEF Bad
  <2>3. files[op.node] = F[op.node]
    BY <1>1, <2>1, <2>2 DEF Left
  <2>4. Len(F[op.node].keys) \in Nat /\ Len(F[op.node].keys) <= NORECS - 1
    BY <1>2, <2>1, <2>3, BigBounds
  <2> QED  BY <2>3, <2>4, SizesAssumption
<1>3. ASSUME op.at = "addkey"
      PROVE  /\ op.path # << >> /\ op.node = Last(op.path).node /\ op.sep \in op.span
  <2>1. Rising /\ op.path # << >> /\ op.node = op.path[Len(op.path)].node /\ op.sep \in op.span
    BY <1>1, <1>3 DEF Sound, Where, Rising
  <2> QED  BY <2>1 DEF Last
<1>4. ASSUME op.at = "addkey", up
      PROVE  Len(files[op.node].keys) < NOENTS - 1 /\ ~Contains(files[op.node].keys, op.sep)
  <2>1. files = G
    BY <1>1, <1>4 DEF Left, TreeInv, Words
  <2>2. /\ AddingFiles(G, F) /\ op.node \in DOMAIN F /\ Tree(F, Root, s, h, Big)
        /\ IndexNode(G[op.node]) /\ F[op.node].type = "index"
    <3>1. /\ AddingFiles(G, F) /\ op.node \in DOMAIN F /\ Tree(F, Root, s, h, Big)
          /\ IndexNode(G[op.node])
      BY <1>1, <1>4 DEF Sound, OnDisk, Where, Rising, Under
    <3>2. F[op.node].type = "index"
      BY <3>1 DEF AddingFiles, KeyInserted, Index
    <3> QED  BY <3>1, <3>2
  <2>3. Len(F[op.node].keys) <= NOENTS - 1
    BY <2>2, BigBounds
  <2>4. Len(G[op.node].keys) \in Nat /\ Len(F[op.node].keys) = Len(G[op.node].keys) + 1 /\ ~Contains(G[op.node].keys, op.sep)
    BY <2>2, IndexFacts DEF AddingFiles
  <2> QED  BY <2>1, <2>3, <2>4, SizesAssumption
<1> QED  BY <1>2, <1>3, <1>4 DEF NoFatal

(* Together: the invariant has the shape and the checks.                      *)
LEMMA InvTreeSound == TreeInv => TreeSound
BY InvBalanced, InvNoFatal DEF TreeSound

(* Nodes that lead nowhere, or down from where n is in the tree.                  *)
Low(nd, F, h, n) == nd.type = "index" /\ nd.kids # << >> => Under(nd, F, h, n)

(* A search at such an index goes down.                                       *)
LEMMA UnderDown ==
    ASSUME NEW ix, NEW F, NEW h, NEW n, Under(ix, F, h, n), NEW k \in Nat
    PROVE  ix.kids[ChildAt(ix, k)] \in DOMAIN F /\ h[ix.kids[ChildAt(ix, k)]] < h[n]
<1>1. ChildAt(ix, k) \in 1..Len(ix.kids)
  BY IndexFacts DEF Under
<1> QED  BY <1>1 DEF Under

(* The files lead somewhere although one of them is not what it will be.          *)
LEMMA DescendsApart ==
    ASSUME NEW F, NEW root, NEW s, NEW h, NEW big, Tree(F, root, s, h, big), NEW n \in DOMAIN F,
           NEW G, NEW e, DOMAIN F \subseteq DOMAIN G, DOMAIN G \subseteq DOMAIN F \cup {e},
           \A f \in DOMAIN F \ {n} : G[f] = F[f],
           Low(G[n], F, h, n), e \in DOMAIN G \ DOMAIN F => Low(G[e], F, h, n),
           NEW k \in Nat
    PROVE  \E d : Descends(G, k, d)
<1> DEFINE rk == [ f \in DOMAIN G |-> IF f \in DOMAIN F THEN h[f] ELSE h[n] ]
<1>1. \A f \in DOMAIN F : rk[f] = h[f]
  OBVIOUS
<1>2. e \in DOMAIN G \ DOMAIN F => rk[e] = h[n]
  OBVIOUS
<1> HIDE DEF rk
<1>3. root \in DOMAIN F /\ \A f \in DOMAIN F : h[f] \in Nat /\ h[f] <= h[root]
  BY NodeKinds DEF Tree, Frame
<1>4. \A f \in DOMAIN G : rk[f] \in Nat /\ rk[f] < h[root] + 1
  BY <1>1, <1>2, <1>3
<1>5. ASSUME NEW f \in DOMAIN G, Inner(G, f)
      PROVE  Down(G, k, f) \in DOMAIN G /\ rk[Down(G, k, f)] < rk[f]
  <2>1. CASE f \in DOMAIN F \ {n}
    <3>1. F[f].type = "index" /\ G[f] = F[f]
      BY <1>5, <2>1 DEF Inner
    <3>2. Down(F, k, f) \in DOMAIN F /\ h[Down(F, k, f)] + 1 = h[f]
      BY <2>1, <3>1, DownIs DEF Down
    <3>3. Down(G, k, f) = Down(F, k, f)
      BY <3>1 DEF Down
    <3> QED  BY <1>1, <1>3, <2>1, <3>2, <3>3
  <2>2. CASE f = n \/ f \notin DOMAIN F
    <3>1. Low(G[f], F, h, n) /\ rk[f] = h[n]
      BY <1>1, <1>2, <2>2
    <3>2. Under(G[f], F, h, n)
      BY <1>5, <3>1 DEF Low, Inner
    <3>3. Down(G, k, f) \in DOMAIN F /\ h[Down(G, k, f)] < h[n]
      BY <3>2, UnderDown DEF Down
    <3> QED  BY <1>1, <3>1, <3>3
  <2> QED  BY <2>1, <2>2
<1>6. LeadsDown(G, k, rk)
  BY <1>4, <1>5 DEF LeadsDown
<1>7. h[root] + 1 \in Nat
  BY <1>3
<1> QED  BY <1>4, <1>6, <1>7, SomeDescends

(* All nodes of a tree are such.                                              *)
LEMMA TreeLow ==
    ASSUME NEW F, NEW root, NEW s, NEW h, NEW big, Tree(F, root, s, h, big), NEW n \in DOMAIN F
    PROVE  /\ Low(F[n], F, h, n)
           /\ F[n].type = "index" => Under(F[n], F, h, n) /\ IndexNode(F[n])
<1> SUFFICES ASSUME F[n].type = "index" PROVE Under(F[n], F, h, n)
  BY DEF Low, Under
<1>1. IndexNode(F[n])
  BY NodeKinds DEF GoodIndex
<1>2. ASSUME NEW i \in 1..Len(F[n].kids)
      PROVE  F[n].kids[i] \in DOMAIN F /\ h[F[n].kids[i]] < h[n]
  <2>1. F[n].kids[i] \in DOMAIN F /\ h[F[n].kids[i]] + 1 = h[n]
    BY KidIs
  <2>2. h[F[n].kids[i]] \in Nat
    BY <2>1, NodeKinds
  <2> QED  BY <2>1, <2>2
<1> QED  BY <1>1, <1>2 DEF Under

(* So are missing files, empty indexes and blocks.                            *)
LEMMA LowOthers ==
    \A F, h, n : Low(Bad, F, h, n) /\ Low(Empty, F, h, n) /\ \A b : b.type = "block" => Low(b, F, h, n)
BY DEF Low, Bad, Empty, Index

(* So are the halves of an index.                                             *)
LEMMA HalvesLow ==
    ASSUME NEW F, NEW root, NEW s, NEW h, NEW big, Tree(F, root, s, h, big), NEW n \in DOMAIN F,
           F[n].type = "index", Len(F[n].keys) = NOENTS - 1
    PROVE  Under(LeftIndex(F[n]), F, h, n) /\ Under(RightIndex(F[n]), F, h, n)
<1>1. Under(F[n], F, h, n) /\ IndexNode(F[n]) /\ Len(F[n].kids) \in Nat
  <2>1. Under(F[n], F, h, n) /\ IndexNode(F[n])
    BY TreeLow
  <2>2. Len(F[n].keys) \in Nat /\ Len(F[n].kids) = Len(F[n].keys) + 1
    BY <2>1, IndexFacts
  <2> QED  BY <2>1, <2>2
<1> DEFINE l == LeftIndex(F[n])
           r == RightIndex(F[n])
<1>2. /\ IndexNode(l) /\ Len(l.kids) = Half + 1 /\ \A i \in 1..Len(l.kids) : l.kids[i] = F[n].kids[i]
      /\ IndexNode(r) /\ Len(r.kids) = Len(F[n].kids) - (Half + 1)
      /\ \A i \in 1..Len(r.kids) : r.kids[i] = F[n].kids[Half + 1 + i]
      /\ Half \in Nat /\ Half + 1 \in 1..Len(F[n].keys)
  BY <1>1, IndexHalves
<1>3. Len(F[n].kids) = Len(F[n].keys) + 1 /\ Len(F[n].keys) \in Nat
  BY <1>1, IndexFacts
<1> HIDE DEF l, r
<1>4. \A i \in 1..Len(l.kids) : i \in 1..Len(F[n].kids)
  BY <1>2, <1>3
<1>5. \A i \in 1..Len(r.kids) : Half + 1 + i \in 1..Len(F[n].kids)
  BY <1>1, <1>2
<1>6. Under(l, F, h, n)
  BY <1>1, <1>2, <1>4 DEF Under
<1>7. Under(r, F, h, n)
  BY <1>1, <1>2, <1>5 DEF Under
<1> QED  BY <1>6, <1>7 DEF l, r

(* The files as the operation has left them, against the tree they stand for.     *)
LEMMA FilesApart ==
    ASSUME NEW G, NEW F, NEW s, NEW h, Sound(G, F, s, h), Stages, Descending \/ Rising
    PROVE  /\ op.node \in DOMAIN F /\ Elsewhere(G, F)
           /\ DOMAIN F \subseteq DOMAIN G /\ DOMAIN G \subseteq DOMAIN F \cup { op.extra }
           /\ Low(G[op.node], F, h, op.node)
           /\ op.extra \in DOMAIN G \ DOMAIN F => Low(G[op.extra], F, h, op.node)
<1>1. op.node \in DOMAIN F /\ Tree(F, Root, s, h, Big)
  BY DEF Sound, Where
<1>2. CASE op.at = "descend"
  <2>1. G = F
    BY <1>2 DEF Sound, OnDisk, AtRest
  <2> QED  BY <1>1, <2>1, TreeLow DEF Elsewhere
<1>3. CASE Moving
  <2>1. MovingFiles(G, F)
    BY <1>3 DEF Sound, OnDisk
  <2>2. op.at = "unlink" \/ op.at = "rename" \/ op.at = "renameextra"
    BY <1>3 DEF Moving
  <2>3. G[op.node] = Bad \/ G[op.node].type = "block"
    <3>1. CASE op.at = "unlink"
      BY <2>1, <3>1 DEF MovingFiles, BlockNode, Block
    <3>2. CASE op.at = "rename"
      BY <2>1, <3>2 DEF MovingFiles
    <3>3. CASE op.at = "renameextra"
      BY <2>1, <3>3 DEF MovingFiles, LeftBlock, Block
    <3> QED  BY <2>2, <3>1, <3>2, <3>3
  <2>4. Low(G[op.node], F, h, op.node)
    BY <2>3, LowOthers
  <2> QED  BY <1>1, <2>1, <2>4 DEF MovingFiles
<1>4. CASE op.at = "addkey"
  <2>1. AddingFiles(G, F) /\ Under(G[op.node], F, h, op.node)
    BY <1>4 DEF Sound, OnDisk
  <2> QED  BY <1>1, <2>1 DEF AddingFiles, Low
<1>5. CASE Halving
  <2>1. /\ HalvingFiles(G, F) /\ (op.at = "putindex" => Under(G[op.node], F, h, op.node))
        /\ Rising /\ op.path # << >> /\ op.node = op.path[Len(op.path)].node
        /\ Trail(F, s, h, kmem.mkey, op.path)
    BY <1>5, StageNames DEF Sound, OnDisk, Where
  <2>2. F[op.node].type = "index"
    <3>1. Len(op.path) \in 1..Len(op.path)
      <4>1. op.path \in Seq(Steps)
        BY <2>1 DEF Trail
      <4> QED  BY <2>1, <4>1
    <3> QED  BY <2>1, <3>1 DEF Trail, OnTrail
  <2>3. Under(LeftIndex(F[op.node]), F, h, op.node) /\ Under(RightIndex(F[op.node]), F, h, op.node)
    BY <1>1, <2>1, <2>2, HalvesLow DEF HalvingFiles
  <2>4. Low(G[op.node], F, h, op.node)
    BY <2>1, <2>3 DEF HalvingFiles, Low
  <2>5. Low(G[op.extra], F, h, op.node)
    BY <2>1, <2>3, LowOthers DEF HalvingFiles, Low
  <2> QED  BY <1>1, <2>1, <2>4, <2>5 DEF HalvingFiles
<1> QED  BY <1>2, <1>3, <1>4, <1>5, StageNames

(* The invariant confines the damage: what a process that died left of the    *)
(* tree differs from it in op.node and in new files, and no key outside the   *)
(* span of op.node leads there.                                               *)
LEMMA InvDamage == TreeInv => DamageConfined
<1> SUFFICES ASSUME TreeInv, crashed, keyfile.mkey = kmem.mkey, NEW k \in Keys \ op.span
             PROVE  Lookup(keyfile.mkey, k) = Promised[k]
  BY DEF DamageConfined
<1>1. PICK G, F, s, h : Left(G) /\ Sound(G, F, s, h)
  BY DEF TreeInv
<1>2. Lookup(keyfile.mkey, k) = ValueIn(LeafIn(files, kmem.mkey, k), k)
  BY LookupIs
<1>3. CASE op.at = "idle"
  <2>1. Promised = Contents(kmem.mkey)
    BY <1>3 DEF Promised, TreeInv, Stages
  <2>2. Promised[k] = Lookup(kmem.mkey, k)
    BY <2>1 DEF Contents
  <2> QED  BY <2>2
<1>4. CASE Topping
  BY <1>1, <1>4 DEF Sound, Where
<1>5. CASE Descending \/ Rising
  <2>1. /\ op.node \in DOMAIN F /\ Elsewhere(G, F)
        /\ DOMAIN F \subseteq DOMAIN G /\ DOMAIN G \subseteq DOMAIN F \cup { op.extra }
        /\ Low(G[op.node], F, h, op.node)
        /\ op.extra \in DOMAIN G \ DOMAIN F => Low(G[op.extra], F, h, op.node)
    BY <1>1, <1>5, FilesApart DEF TreeInv
  <2>2. op.at # "idle" /\ op.at # "newmaster"
    BY <1>5 DEF Descending, Rising
  <2>3. Tree(F, kmem.mkey, s, h, Big) /\ op.span = s[op.node] \cap Keys /\ op.key \in s[op.node]
        /\ op.key \in Keys /\ Holds(F, s, After) /\ op.before = [j \in Keys |-> op.before[j]]
    BY <1>1, <1>5, <2>2 DEF Sound, Where, Stores, Root
  <2>4. k \in Nat /\ k \in Keys /\ k \notin s[op.node] /\ k # op.key
    BY <2>3, KeysAreNumbers
  <2>5. /\ DOMAIN F \subseteq DOMAIN files /\ DOMAIN files \subseteq DOMAIN F \cup { op.extra }
        /\ \A f \in DOMAIN F \ {op.node} : files[f] = F[f]
        /\ Low(files[op.node], F, h, op.node)
        /\ op.extra \in DOMAIN files \ DOMAIN F => Low(files[op.extra], F, h, op.node)
    <3>1. CASE files = G
      BY <2>1, <3>1 DEF Elsewhere
    <3>2. CASE files = [G EXCEPT ![op.node] = Bad]
      BY <2>1, <3>2, LowOthers DEF Elsewhere
    <3> QED  BY <1>1, <3>1, <3>2 DEF Left
  <2>6. \E d : Descends(files, k, d)
    BY <2>1, <2>3, <2>4, <2>5, DescendsApart
  <2>7. \A f \in DOMAIN F : k \in s[f] => files[f] = F[f]
    BY <2>4, <2>5
  <2>8. ValueIn(LeafIn(files, kmem.mkey, k), k) = After[k]
    BY <2>3, <2>4, <2>5, <2>6, <2>7, LeafHolds
  <2>9. After[k] = op.before[k]
    BY <2>3, <2>4 DEF After
  <2>10. Promised = op.before
    BY <2>2, IdleFacts DEF Promised
  <2> QED  BY <1>2, <2>8, <2>9, <2>10
<1> QED  BY <1>3, <1>4, <1>5 DEF TreeInv, Stages

-----------------------------------------------------------------------------
(* A database that was just created is a tree of a master and an empty block.    *)

(* A master with one empty block is a tree.                                   *)
LEMMA NewTree ==
    ASSUME NEW m \in Fkeys, NEW b \in Fkeys, m # b,
           NEW F, DOMAIN F = { m, b },
           F[m] = Index(NoParent, << >>, << b >>), F[b] = Block(<< >>, << >>)
    PROVE  \E s, h : Tree(F, m, s, h, {})
<1> DEFINE s == [ f \in { m, b } |-> Nat ]
           h == [ f \in { m, b } |-> IF f = m THEN 1 ELSE 0 ]
<1>1. s[m] = Nat /\ s[b] = Nat /\ h[m] = 1 /\ h[b] = 0 /\ s \in [{m, b} -> SUBSET Nat] /\ h \in [{m, b} -> Nat]
  OBVIOUS
<1> HIDE DEF s, h
<1>2. Frame(DOMAIN F, m, s, h)
  BY <1>1 DEF Frame, Spread
<1>3. Good(F, s, h, {}, b)
  <2>1. F[b].keys = << >> /\ F[b].recs = << >> /\ F[b] = Block(F[b].keys, F[b].recs)
    BY DEF Block
  <2>2. Len(<< >>) = 0 /\ << >> \in Seq(Keys) /\ << >> \in Seq(Records \cup {DELE})
    OBVIOUS
  <2>3. BlockNode(F[b]) /\ Within(F[b].keys, s[b])
    <3>1. /\ F[b].keys \in Seq(Keys) /\ F[b].recs \in Seq(Records \cup {DELE})
          /\ Len(F[b].recs) = 0 /\ Len(F[b].keys) = 0 /\ \A i \in 1..0 : FALSE
      <4>1. \A i \in 1..0 : FALSE
        OBVIOUS
      <4> QED  BY <2>1, <2>2, <4>1
    <3> QED  BY <2>1, <3>1 DEF BlockNode, Within, Ascending
  <2>4. Room({}, b, Len(F[b].keys) - (NORECS - 1))
    BY <2>1, <2>2, SizesAssumption DEF Room
  <2> QED  BY <1>1, <2>3, <2>4 DEF Good, GoodBlock
<1>4. Good(F, s, h, {}, m)
  <2>1. /\ F[m].keys = << >> /\ F[m].kids = << b >> /\ F[m].parent = NoParent
        /\ F[m] = Index(F[m].parent, F[m].keys, F[m].kids)
    BY DEF Index
  <2>2. Len(<< >>) = 0 /\ << >> \in Seq(Keys) /\ << b >> \in Seq(Fkeys) /\ Len(<< b >>) = 1 /\ << b >>[1] = b
    OBVIOUS
  <2>3. IndexNode(F[m]) /\ Within(F[m].keys, s[m]) /\ Above(F[m].keys, s[m])
    <3>1. /\ F[m].keys \in Seq(Keys) /\ F[m].kids \in Seq(Fkeys) /\ F[m].parent \in Fkeys
          /\ Len(F[m].kids) = 1 /\ Len(F[m].keys) = 0 /\ \A i \in 1..0 : FALSE
      <4>1. \A i \in 1..0 : FALSE
        OBVIOUS
      <4> QED  BY <2>1, <2>2, <4>1, IdleFacts
    <3>2. \A i \in 1..Len(F[m].keys) : FALSE
      BY <3>1
    <3>3. Ascending(F[m].keys) /\ Within(F[m].keys, s[m]) /\ Above(F[m].keys, s[m])
      BY <3>2 DEF Within, Above, Ascending
    <3>4. Len(F[m].kids) = Len(F[m].keys) + 1
      <4>1. 1 = 0 + 1
        OBVIOUS
      <4> QED  BY <3>1, <4>1, Zenon
    <3> QED  BY <2>1, <3>1, <3>3, <3>4 DEF IndexNode
  <2>4. Room({}, m, Len(F[m].keys) - (NOENTS - 2))
    BY <2>1, <2>2, SizesAssumption DEF Room
  <2>5. \A n \in Nat : ChildAt(F[m], n) = 1
    BY <2>1, <2>2 DEF ChildAt
  <2>6. Leads(F, s, h, m, 1)
    BY <1>1, <2>1, <2>2, <2>5 DEF Leads, Span
  <2>7. \A i \in 1..Len(F[m].kids) : Leads(F, s, h, m, i)
    <3>1. Len(F[m].kids) = 1
      BY <2>1, <2>2
    <3>2. \A i \in 1..1 : i = 1
      OBVIOUS
    <3> QED  BY <2>6, <3>1, <3>2
  <2> QED  BY <2>3, <2>4, <2>7 DEF Good, GoodIndex
<1>5. Linked(F, m)
  <2>1. F[m].type = "index" /\ F[m].kids = << b >>
    BY DEF Index
  <2>2. Len(F[m].kids) = 1 /\ F[m].kids[1] = b
    BY <2>1
  <2>3. IsKid(F, m, b)
    BY <2>1, <2>2 DEF IsKid
  <2> QED  BY <2>3 DEF Linked
<1> QED  BY <1>2, <1>3, <1>4, <1>5 DEF Tree

(* The invariant holds of a database that was just created.                   *)
LEMMA TreeInit == Init => TreeInv
<1> SUFFICES ASSUME Init PROVE TreeInv
  OBVIOUS
<1>1. /\ up = TRUE /\ crashed = FALSE /\ op = Idle
      /\ kmem = [mkey |-> << 0, 0 >>, fkey |-> << 1, 1 >>] /\ keyfile = kmem
  BY DEF Init
<1>2. << 0, 0 >> \in Fkeys /\ << 1, 0 >> \in Fkeys /\ << 1, 1 >> \in Fkeys /\ << 0, 0 >> # << 1, 0 >>
  BY DEF Fkeys
<1>3. FileInv /\ Words /\ Stages
  <2>1. kmem.mkey \in Fkeys /\ keyfile \in [mkey : Fkeys, fkey : Fkeys]
    BY <1>1, <1>2
  <2> QED  BY <1>1, <2>1, FileInvInit, IdleFacts DEF Words, Stages
<1>4. PICK s, h : Tree(files, kmem.mkey, s, h, {})
  <2>1. DOMAIN files = { << 0, 0 >>, << 1, 0 >> }
        /\ files[<< 0, 0 >>] = Index(NoParent, << >>, << << 1, 0 >> >>)
        /\ files[<< 1, 0 >>] = Block(<< >>, << >>)
    BY <1>2 DEF Init
  <2> QED  BY <1>1, <1>2, <2>1, NewTree
<1>5. op.at = "idle"
  BY <1>1, IdleFacts
<1>6. Sound(files, files, s, h)
  BY <1>4, <1>5 DEF Sound, Root, Big, OnDisk, Where, Stores, AtRest, Moving, Rising, Halving, Topping, Descending
<1> QED  BY <1>3, <1>6 DEF TreeInv, Left

-----------------------------------------------------------------------------
(* The steps.                                                                    *)

(* While the process lives the files are those it left.                       *)
LEMMA UpFiles ==
    ASSUME TreeInv, up
    PROVE  ~crashed /\ \E F, s, h : Sound(files, F, s, h)
<1>1. PICK G, F, s, h : Left(G) /\ Sound(G, F, s, h)
  BY DEF TreeInv
<1>2. ~crashed /\ files = G
  BY <1>1 DEF TreeInv, Words, Left
<1> QED  BY <1>1, <1>2

(* What a step of a living process has to keep.                               *)
LEMMA UpAgain ==
    ASSUME TreeInv, [Next]_vars, Words', Stages', \E F, s, h : Sound(files, F, s, h)'
    PROVE  TreeInv'
<1>1. FileInv'
  BY FileInvNext DEF TreeInv
<1> QED  BY <1>1 DEF TreeInv, Left

(* The stages of an operation exclude each other.                                *)
LEMMA AtStage ==
    /\ op.at = "idle" => ~Descending /\ ~Moving /\ ~Rising /\ ~Halving /\ ~Topping
    /\ op.at = "descend" => Descending /\ ~Moving /\ ~Rising /\ ~Halving /\ ~Topping
    /\ Moving => Descending /\ ~Rising /\ ~Halving /\ ~Topping
    /\ op.at = "addkey" => Rising /\ ~Descending /\ ~Moving /\ ~Halving /\ ~Topping
    /\ Halving => Rising /\ ~Descending /\ ~Moving /\ ~Topping
    /\ Topping => ~Descending /\ ~Moving /\ ~Rising /\ ~Halving
BY DEF Descending, Moving, Rising, Halving, Topping

(* The fields of the operation in progress.                                   *)
LEMMA OpFields ==
    FileInv => { "at", "key", "rec", "before", "path", "node", "span", "left", "right", "extra", "sep" } = DOMAIN op
BY DEF FileInv, ExtraBefore, Idle

(* bt_addrecord begins: the tree is at rest, and the descent at the master.   *)
LEMMA StoreTree ==
    ASSUME TreeInv, NEW k \in Keys, NEW r \in Records \cup {DELE}, Store(k, r)
    PROVE  TreeInv'
<1> DEFINE c == Contents(kmem.mkey)
<1>1. /\ up /\ op = Idle
      /\ op' = [Idle EXCEPT !.at = "descend", !.key = k, !.rec = r, !.before = c,
                            !.node = kmem.mkey, !.span = Keys]
      /\ up' = up /\ crashed' = crashed /\ kmem' = kmem /\ keyfile' = keyfile /\ files' = files
  BY DEF Store
<1>2. PICK F, s, h : Sound(files, F, s, h)
  BY <1>1, UpFiles
<1>3. files = F /\ Tree(F, kmem.mkey, s, h, {}) /\ op.at = "idle"
  BY <1>1, <1>2, IdleFacts, AtStage DEF Sound, OnDisk, AtRest, Root, Big
<1>4. c = ContentsIn(F, kmem.mkey) /\ c = [j \in Keys |-> c[j]]
  BY <1>3, ContentsIsIn DEF ContentsIn
<1>5. Holds(F, s, c)
  BY <1>3, <1>4, ContentsHold
<1> HIDE DEF c
<1>6. /\ op'.at = "descend" /\ op'.key = k /\ op'.rec = r /\ op'.before = c /\ op'.node = kmem.mkey
      /\ op'.span = Keys /\ op'.path = << >> /\ op'.left = Bad /\ op'.right = Bad
  BY <1>1 DEF Idle
<1>7. kmem.mkey \in DOMAIN F /\ s[kmem.mkey] = Nat /\ h[kmem.mkey] \in Nat
  BY <1>3, FrameFacts DEF Tree
<1>8. Trail(F, s, h, kmem.mkey, << >>) /\ Reached(F, h, kmem.mkey, << >>, kmem.mkey)
  BY <1>7 DEF Trail, Reached
<1>10. Sound(files, F, s, h)'
  <2>1. Tree(F, Root, s, h, Big)'
    BY <1>1, <1>3, <1>6 DEF Root, Big, Moving, Rising
  <2>2. OnDisk(files, F, h)'
    BY <1>1, <1>3, <1>6 DEF OnDisk, AtRest, Moving, Halving, Topping
  <2>3. Where(F, s, h)'
    BY <1>1, <1>6, <1>7, <1>8, KeysAreNumbers DEF Where, Descending, Rising, Topping
  <2>4. Stores(F, s)'
    BY <1>4, <1>5, <1>6 DEF Stores, After
  <2> QED  BY <2>1, <2>2, <2>3, <2>4 DEF Sound
<1>11. Words' /\ Stages'
  BY <1>1, <1>6, IdleFacts DEF TreeInv, Words, Stages, Descending
<1> QED  BY <1>10, <1>11, UpAgain DEF Next

(* A descent is kept by a change that leaves its indexes, and their parents,  *)
(* as they are for it.                                                        *)
LEMMA TrailKept ==
    ASSUME NEW F, NEW s, NEW h, NEW root, NEW path, Trail(F, s, h, root, path),
           NEW F1, NEW s1, NEW h1, DOMAIN F \subseteq DOMAIN F1, h1[root] = h[root],
           \A i \in 1..Len(path) :
              LET p == path[i].node
              IN  /\ F1[p].type = "index" /\ F1[p].parent = F[p].parent
                  /\ s1[p] = s[p] /\ h1[p] = h[p]
                  /\ \A g : IsKid(F, p, g) => IsKid(F1, p, g)
    PROVE  Trail(F1, s1, h1, root, path)
<1>1. path \in Seq(Steps) /\ Len(path) \in Nat
  BY DEF Trail
<1>2. ASSUME NEW i \in 1..Len(path)
      PROVE  OnTrail(F1, s1, h1, root, path, i)
  <2>1. OnTrail(F, s, h, root, path, i)
    BY DEF Trail
  <2>2. i > 1 => i - 1 \in 1..Len(path)
    BY <1>1
  <2> QED  BY <2>1, <2>2 DEF OnTrail
<1> QED  BY <1>1, <1>2 DEF Trail

(* The indexes of the descent are above the node it is at.                    *)
LEMMA TrailAbove ==
    ASSUME NEW F, NEW root, NEW s, NEW h, NEW big, Tree(F, root, s, h, big), NEW path, Trail(F, s, h, root, path),
           NEW n \in DOMAIN F, NEW m \in Nat, h[n] + Len(path) <= h[root] + m, NEW i \in 1..(Len(path) - m)
    PROVE  path[i].node # n /\ path[i].node \in DOMAIN F
<1>1. Len(path) \in Nat /\ i \in 1..Len(path)
  BY DEF Trail
<1>2. path[i].node \in DOMAIN F /\ h[path[i].node] + i = h[root] + 1
  BY <1>1 DEF Trail, OnTrail
<1>3. h[n] \in Nat /\ h[root] \in Nat
  BY NodeKinds DEF Tree, Frame
<1>4. path[i].node # n
  BY <1>1, <1>2, <1>3
<1> QED  BY <1>2, <1>4

(* One index more on the descent: its parent is where it was reached from,    *)
(* now that Descend has noted it.                                             *)
LEMMA TrailLonger ==
    ASSUME NEW F, NEW root, NEW s, NEW h, NEW path, Trail(F, s, h, root, path),
           NEW n \in DOMAIN F, n \in Fkeys, F[n].type = "index", F[n].parent = LastNode(path),
           h[n] \in Nat, h[root] \in Nat, Reached(F, h, root, path, n)
    PROVE  Trail(F, s, h, root, Append(path, [node |-> n, span |-> s[n] \cap Keys]))
<1> DEFINE e == [node |-> n, span |-> s[n] \cap Keys]
           q == Append(path, e)
<1>1. path \in Seq(Steps) /\ Len(path) \in Nat /\ \A i \in 1..Len(path) : OnTrail(F, s, h, root, path, i)
  BY DEF Trail
<1>2. e \in Steps /\ e.node = n /\ e.span = s[n] \cap Keys
  BY DEF Steps
<1> HIDE DEF e
<1>3. /\ q \in Seq(Steps) /\ Len(q) = Len(path) + 1 /\ q[Len(path) + 1] = e
      /\ \A i \in 1..Len(path) : q[i] = path[i]
  BY <1>1, <1>2
<1> HIDE DEF q
<1>4. ASSUME NEW i \in 1..Len(path)
      PROVE  OnTrail(F, s, h, root, q, i)
  <2>1. q[i] = path[i] /\ (i > 1 => q[i - 1] = path[i - 1]) /\ OnTrail(F, s, h, root, path, i)
    BY <1>1, <1>3
  <2> QED  BY <2>1 DEF OnTrail
<1>5. OnTrail(F, s, h, root, q, Len(path) + 1)
  <2>1. /\ h[n] + (Len(path) + 1) = h[root] + 1
        /\ path = << >> => n = root
        /\ path # << >> => IsKid(F, path[Len(path)].node, n)
    BY <1>1 DEF Reached
  <2>2. CASE path = << >>
    <3>1. Len(path) = 0 /\ ~(0 + 1 > 1) /\ 0 + 1 = 1
      BY <2>2
    <3>2. F[n].parent = NoParent
      BY <2>2 DEF LastNode
    <3> QED  BY <1>2, <1>3, <2>1, <2>2, <3>1, <3>2 DEF OnTrail
  <2>3. CASE path # << >>
    <3>1. Len(path) \in 1..Len(path) /\ Len(path) + 1 # 1 /\ (Len(path) + 1) - 1 = Len(path)
      BY <1>1, <2>3
    <3>2. F[n].parent = path[Len(path)].node /\ q[Len(path)] = path[Len(path)]
      BY <1>3, <2>3, <3>1 DEF LastNode, Last
    <3> QED  BY <1>2, <1>3, <2>1, <2>3, <3>1, <3>2 DEF OnTrail
  <2> QED  BY <2>2, <2>3
<1>6. \A i \in 1..Len(q) : OnTrail(F, s, h, root, q, i)
  <2>1. \A i \in 1..Len(q) : i \in 1..Len(path) \/ i = Len(path) + 1
    BY <1>1, <1>3
  <2> QED  BY <1>4, <1>5, <2>1
<1>7. Trail(F, s, h, root, q)
  BY <1>3, <1>6 DEF Trail
<1> QED  BY <1>7 DEF q, e

(* The parent that Descend notes is a file key.                               *)
LEMMA LastIsFkey ==
    ASSUME NEW F, NEW root, NEW s, NEW h, NEW big, Tree(F, root, s, h, big), NEW path, Trail(F, s, h, root, path)
    PROVE  LastNode(path) \in Fkeys /\ (path # << >> => LastNode(path) = path[Len(path)].node)
<1>1. CASE path = << >>
  BY <1>1, IdleFacts DEF LastNode
<1>2. CASE path # << >>
  <2>1. Len(path) \in 1..Len(path)
    <3>1. path \in Seq(Steps)
      BY DEF Trail
    <3> QED  BY <1>2, <3>1
  <2>2. path[Len(path)].node \in DOMAIN F
    BY <2>1 DEF Trail, OnTrail
  <2> QED  BY <1>2, <2>2, NodeKinds DEF LastNode, Last
<1> QED  BY <1>1, <1>2

(* Descend keeps the invariant: it notes a parent, and goes to the child      *)
(* whose span has the key.                                                    *)
LEMMA DescendTree == TreeInv /\ Descend => TreeInv'
<1> SUFFICES ASSUME TreeInv, Descend PROVE TreeInv'
  OBVIOUS
<1> DEFINE n == op.node
           root == kmem.mkey
           c == ChildAt(files[n], op.key)
           n1 == files[n].kids[c]
           sp == { k \in op.span : ChildAt(files[n], k) = c }
           pa == Append(op.path, [node |-> n, span |-> op.span])
           q == LastNode(op.path)
<1>1. /\ up /\ op.at = "descend" /\ files[n].type = "index"
      /\ op' = [op EXCEPT !.node = n1, !.span = sp, !.path = pa]
      /\ files' = [files EXCEPT ![n].parent = q]
      /\ up' = up /\ crashed' = crashed /\ kmem' = kmem /\ keyfile' = keyfile
  BY DEF Descend
<1>2. PICK F, s, h : Sound(files, F, s, h)
  BY <1>1, UpFiles
<1>3. /\ files = F /\ Tree(F, root, s, h, {}) /\ n \in DOMAIN F
      /\ Trail(F, s, h, root, op.path) /\ Reached(F, h, root, op.path, n)
      /\ op.span = s[n] \cap Keys /\ op.key \in s[n]
      /\ op.key \in Keys /\ op.rec \in Records \cup {DELE} /\ op.before = [k \in Keys |-> op.before[k]]
      /\ Holds(F, s, op.before)
  BY <1>1, <1>2, AtStage DEF Sound, OnDisk, AtRest, Root, Big, Where, Stores, After
<1>4. op.key \in Nat /\ Keys \subseteq Nat
  BY <1>3, KeysAreNumbers
<1>5. /\ n1 \in DOMAIN F /\ h[n1] + 1 = h[n] /\ op.key \in s[n1] /\ s[n1] = Span(F[n], s[n], c)
      /\ c \in 1..Len(F[n].kids)
  BY <1>1, <1>3, <1>4, DownIs
<1>6. sp = s[n1] \cap Keys
  BY <1>3, <1>5 DEF Span
<1>7. IsKid(F, n, n1)
  BY <1>1, <1>3, <1>5 DEF IsKid
<1> HIDE DEF c, n1, sp
<1>8. n \in Fkeys /\ q \in Fkeys /\ h[n] \in Nat /\ h[root] \in Nat /\ h[n1] \in Nat /\ n1 \in Fkeys
  <2>1. q \in Fkeys
    BY <1>3, LastIsFkey
  <2> QED  BY <1>3, <1>5, <2>1, NodeKinds DEF Tree, Frame
<1>9. PICK F1 : F1 = [F EXCEPT ![n].parent = q]
  OBVIOUS
<1> HIDE DEF q
<1>10. /\ Tree(F1, root, s, h, {})
       /\ F1[n].parent = q /\ F1[n].type = "index"
       /\ DOMAIN F1 = DOMAIN F /\ \A f \in DOMAIN F \ {n} : F1[f] = F[f]
       /\ \A f, g : f \in DOMAIN F => (IsKid(F, f, g) <=> IsKid(F1, f, g))
       /\ Holds(F1, s, op.before)
  <2>1. F[n].type = "index" /\ n \in DOMAIN F /\ q \in Fkeys
    BY <1>1, <1>3, <1>8
  <2>2. Tree(F, root, s, h, {}) /\ Holds(F, s, op.before)
    BY <1>3
  <2> HIDE DEF n, root
  <2>3. /\ Tree(F1, root, s, h, {})
        /\ F1[n].parent = q /\ F1[n].type = "index"
        /\ DOMAIN F1 = DOMAIN F /\ \A f \in DOMAIN F \ {n} : F1[f] = F[f]
        /\ \A f, g : f \in DOMAIN F => (IsKid(F, f, g) <=> IsKid(F1, f, g))
        /\ \A x : Holds(F, s, x) => Holds(F1, s, x)
    <3>1. DOMAIN F1 = DOMAIN F /\ (\A f \in DOMAIN F \ {n} : F1[f] = F[f]) /\ F1[n] = Parented(F[n], q)
      BY <1>9, <2>1 DEF Parented
    <3> HIDE <1>9
    <3> QED  BY <2>1, <2>2, <3>1, Reparent
  <2> QED  BY <2>2, <2>3
<1>11. files' = F1
  BY <1>1, <1>3, <1>9
<1>12. Trail(F1, s, h, root, op.path)
  <2>1. ASSUME NEW i \in 1..Len(op.path)
        PROVE  op.path[i].node # n /\ op.path[i].node \in DOMAIN F /\ F[op.path[i].node].type = "index"
    <3>1. h[n] + Len(op.path) <= h[root] + 0 /\ Len(op.path) - 0 = Len(op.path)
      BY <1>3, <1>8 DEF Reached, Trail
    <3>2. op.path[i].node # n /\ op.path[i].node \in DOMAIN F
      <4> HIDE DEF n, root
      <4> QED  BY <1>3, <3>1, TrailAbove
    <3> QED  BY <1>3, <3>2 DEF Trail, OnTrail
  <2> HIDE DEF n, root
  <2> QED  BY <1>3, <1>10, <2>1, TrailKept
<1>13. Reached(F1, h, root, op.path, n)
  <2>1. op.path # << >> => op.path[Len(op.path)].node \in DOMAIN F
    <3>1. op.path # << >> => Len(op.path) \in 1..Len(op.path)
      BY <1>3 DEF Trail
    <3> QED  BY <1>3, <3>1 DEF Trail, OnTrail
  <2> QED  BY <1>3, <1>10, <2>1 DEF Reached
<1>14. Trail(F1, s, h, root, pa)
  <2>1. F1[n].parent = LastNode(op.path)
    BY <1>10 DEF q
  <2>2. Trail(F1, s, h, root, Append(op.path, [node |-> n, span |-> s[n] \cap Keys]))
    <3> HIDE DEF n, root
    <3> QED  BY <1>3, <1>8, <1>10, <1>12, <1>13, <2>1, TrailLonger
  <2> QED  BY <1>3, <2>2
<1>15. Len(pa) = Len(op.path) + 1 /\ pa # << >> /\ pa[Len(pa)].node = n /\ Len(op.path) \in Nat
  <2>1. op.path \in Seq(Steps)
    BY <1>3 DEF Trail
  <2>2. [node |-> n, span |-> op.span] \in Steps
    BY <1>3, <1>8 DEF Steps
  <2>3. Len(pa) = Len(op.path) + 1 /\ pa[Len(op.path) + 1] = [node |-> n, span |-> op.span] /\ Len(op.path) \in Nat
    BY <2>1, <2>2
  <2>4. Len(pa) # 0
    BY <2>3
  <2> QED  BY <2>3, <2>4
<1> HIDE DEF pa
<1>16. Reached(F1, h, root, pa, n1)
  <2>1. h[n1] + Len(pa) = h[root]
    <3>1. h[n] + Len(op.path) = h[root] /\ h[n1] + 1 = h[n] /\ Len(pa) = Len(op.path) + 1
      BY <1>3, <1>5, <1>15 DEF Reached
    <3>2. h[n1] \in Nat /\ h[n] \in Nat /\ h[root] \in Nat /\ Len(op.path) \in Nat
      BY <1>8, <1>15
    <3> HIDE DEF n, root
    <3> QED  BY <3>1, <3>2
  <2>2. IsKid(F1, n, n1)
    BY <1>3, <1>7, <1>10
  <2> QED  BY <1>15, <2>1, <2>2 DEF Reached
<1>17. /\ op'.at = "descend" /\ op'.key = op.key /\ op'.rec = op.rec /\ op'.before = op.before
       /\ op'.node = n1 /\ op'.span = sp /\ op'.path = pa /\ op'.left = op.left /\ op'.right = op.right
  BY <1>1, OpFields DEF TreeInv
<1>18. Sound(files, F1, s, h)'
  <2>1. Tree(F1, Root, s, h, Big)'
    BY <1>1, <1>10, <1>17 DEF Root, Big, Moving, Rising
  <2>2. OnDisk(files, F1, h)'
    BY <1>11, <1>17 DEF OnDisk, AtRest, Moving, Halving, Topping
  <2>3. Where(F1, s, h)'
    BY <1>1, <1>5, <1>6, <1>10, <1>14, <1>16, <1>17 DEF Where, Descending, Rising, Topping
  <2>4. Stores(F1, s)'
    BY <1>3, <1>10, <1>17 DEF Stores, After
  <2> QED  BY <2>1, <2>2, <2>3, <2>4 DEF Sound
<1>19. Words' /\ Stages'
  BY <1>1, <1>8, <1>17 DEF TreeInv, Words, Stages, Descending
<1> QED  BY <1>18, <1>19, UpAgain DEF Next, Step

(* The next file key names no file (the invariant of the file keys).          *)
LEMMA NextFileIsNew == FileInv => kmem.fkey \notin DOMAIN files /\ kmem.fkey \in Fkeys /\ kmem.fkey # NoParent
<1> SUFFICES ASSUME FileInv PROVE kmem.fkey \notin DOMAIN files /\ kmem.fkey \in Fkeys /\ kmem.fkey # NoParent
  OBVIOUS
<1>1. kmem.fkey \in Fkeys /\ kmem.fkey # NoParent
  BY DEF FileInv, NextFile
<1>2. ~Before(kmem.fkey, kmem.fkey)
  BY <1>1, OrderTypes
<1> QED  BY <1>1, <1>2 DEF FileInv, FilesBefore

(* The tree with the record in the block that the descent came to.                *)
BlockFilled(F, s, h) ==
    /\ DOMAIN F = DOMAIN files /\ \A f \in DOMAIN files \ {op.node} : F[f] = files[f]
    /\ op.node \in DOMAIN F /\ F[op.node] = Updated(files[op.node], op.key, op.rec)
    /\ BlockNode(files[op.node]) /\ BlockNode(F[op.node]) /\ F[op.node].type = "block"
    /\ Len(F[op.node].keys) \in Nat
    /\ MustSplit(files[op.node], op.key) => Len(F[op.node].keys) = NORECS
    /\ ~MustSplit(files[op.node], op.key) => Len(F[op.node].keys) <= NORECS - 1
    /\ Tree(F, kmem.mkey, s, h, {op.node})
    /\ Trail(F, s, h, kmem.mkey, op.path) /\ Reached(F, h, kmem.mkey, op.path, op.node)
    /\ op.span = s[op.node] \cap Keys /\ op.key \in s[op.node]
    /\ op.key \in Keys /\ op.rec \in Records \cup {DELE} /\ op.before = [k \in Keys |-> op.before[k]]
    /\ Holds(F, s, [op.before EXCEPT ![op.key] = Stored(op.rec)])

(* At the end of the descent the record goes into a block that may have one   *)
(* key too many.                                                              *)
LEMMA BlockReached ==
    ASSUME TreeInv, up, op.at = "descend", files[op.node].type = "block"
    PROVE  \E F, s, h : BlockFilled(F, s, h)
<1> DEFINE n == op.node
           root == kmem.mkey
<1>1. PICK F, s, h : Sound(files, F, s, h)
  BY UpFiles
<1>2. /\ files = F /\ Tree(F, root, s, h, {}) /\ n \in DOMAIN F
      /\ Trail(F, s, h, root, op.path) /\ Reached(F, h, root, op.path, n)
      /\ op.span = s[n] \cap Keys /\ op.key \in s[n]
      /\ op.key \in Keys /\ op.rec \in Records \cup {DELE} /\ op.before = [k \in Keys |-> op.before[k]]
      /\ Holds(F, s, op.before)
  BY <1>1, AtStage DEF Sound, OnDisk, AtRest, Root, Big, Where, Stores, After
<1>3. F[n].type = "block" /\ BlockNode(F[n])
  <2>1. F[n].type = "block" /\ F[n].type # "index"
    BY <1>2
  <2> QED  BY <1>2, <2>1, NodeKinds DEF GoodBlock
<1>4. PICK F1 : F1 = [F EXCEPT ![n] = Updated(F[n], op.key, op.rec)]
  OBVIOUS
<1>5. /\ DOMAIN F1 = DOMAIN F /\ \A f \in DOMAIN F \ {n} : F1[f] = F[f]
      /\ F1[n] = Updated(F[n], op.key, op.rec)
  BY <1>2, <1>4
<1> HIDE <1>4
<1>6. /\ Tree(F1, root, s, h, {n})
      /\ BlockNode(F1[n]) /\ F1[n].type = "block" /\ Len(F1[n].keys) \in Nat
      /\ MustSplit(F[n], op.key) => Len(F1[n].keys) = NORECS
      /\ ~MustSplit(F[n], op.key) => Len(F1[n].keys) <= NORECS - 1
      /\ \A c : Holds(F, s, c) /\ c = [j \in Keys |-> c[j]] => Holds(F1, s, [c EXCEPT ![op.key] = Stored(op.rec)])
  <2> HIDE DEF n, root
  <2> QED  BY <1>2, <1>3, <1>5, BlockSet
<1>7. Holds(F1, s, [op.before EXCEPT ![op.key] = Stored(op.rec)])
  BY <1>2, <1>6
<1>8. h[n] \in Nat /\ h[root] \in Nat
  BY <1>2, NodeKinds DEF Tree, Frame
<1>9. \A i \in 1..Len(op.path) : op.path[i].node # n /\ op.path[i].node \in DOMAIN F /\ F[op.path[i].node].type = "index"
  <2> TAKE i \in 1..Len(op.path)
  <2>1. h[n] + Len(op.path) <= h[root] + 0 /\ Len(op.path) - 0 = Len(op.path)
    BY <1>2, <1>8 DEF Reached, Trail
  <2>2. op.path[i].node # n /\ op.path[i].node \in DOMAIN F
    <3> HIDE DEF n, root
    <3> QED  BY <1>2, <2>1, TrailAbove
  <2> QED  BY <1>2, <2>2 DEF Trail, OnTrail
<1>10. \A f \in DOMAIN F \ {n} : \A g : IsKid(F, f, g) => IsKid(F1, f, g)
  BY <1>5 DEF IsKid
<1>11. Trail(F1, s, h, root, op.path)
  <2> HIDE DEF n, root
  <2> QED  BY <1>2, <1>5, <1>9, <1>10, TrailKept
<1>12. Reached(F1, h, root, op.path, n)
  <2>1. op.path # << >> => Len(op.path) \in 1..Len(op.path)
    BY <1>2 DEF Trail
  <2> QED  BY <1>2, <1>9, <1>10, <2>1 DEF Reached
<1>13. BlockFilled(F1, s, h)
  BY <1>2, <1>3, <1>5, <1>6, <1>7, <1>11, <1>12 DEF BlockFilled
<1> QED  BY <1>13

(* RewriteBlock keeps the invariant: the block with the record fits.          *)
LEMMA RewriteBlockTree == TreeInv /\ RewriteBlock => TreeInv'
<1> SUFFICES ASSUME TreeInv, RewriteBlock PROVE TreeInv'
  OBVIOUS
<1> DEFINE n == op.node
           u == Updated(files[n], op.key, op.rec)
<1>1. /\ up /\ op.at = "descend" /\ files[n].type = "block" /\ ~MustSplit(files[n], op.key)
      /\ op' = [op EXCEPT !.at = "unlink", !.left = u]
      /\ up' = up /\ crashed' = crashed /\ kmem' = kmem /\ keyfile' = keyfile /\ files' = files
  BY DEF RewriteBlock
<1>0. PICK F, s, h : BlockFilled(F, s, h)
  BY <1>1, BlockReached
<1>2. /\ DOMAIN F = DOMAIN files /\ \A f \in DOMAIN files \ {op.node} : F[f] = files[f]
      /\ op.node \in DOMAIN F /\ F[op.node] = Updated(files[op.node], op.key, op.rec)
      /\ BlockNode(files[op.node]) /\ BlockNode(F[op.node]) /\ F[op.node].type = "block"
      /\ Len(F[op.node].keys) \in Nat
      /\ MustSplit(files[op.node], op.key) => Len(F[op.node].keys) = NORECS
      /\ ~MustSplit(files[op.node], op.key) => Len(F[op.node].keys) <= NORECS - 1
      /\ Tree(F, kmem.mkey, s, h, {op.node})
      /\ Trail(F, s, h, kmem.mkey, op.path) /\ Reached(F, h, kmem.mkey, op.path, op.node)
      /\ op.span = s[op.node] \cap Keys /\ op.key \in s[op.node]
      /\ op.key \in Keys /\ op.rec \in Records \cup {DELE} /\ op.before = [k \in Keys |-> op.before[k]]
      /\ Holds(F, s, [op.before EXCEPT ![op.key] = Stored(op.rec)])
  BY <1>0 DEF BlockFilled
<1>3. op.right = Bad
  BY <1>1 DEF TreeInv, Stages
<1> HIDE DEF u
<1>4. /\ op'.at = "unlink" /\ op'.key = op.key /\ op'.rec = op.rec /\ op'.before = op.before
      /\ op'.node = n /\ op'.span = op.span /\ op'.path = op.path /\ op'.left = u /\ op'.right = Bad
  BY <1>1, <1>3, OpFields DEF TreeInv
<1>5. u = F[n]
  BY <1>2 DEF u
<1>6. Sound(files, F, s, h)'
  <2>1. Tree(F, Root, s, h, Big)'
    BY <1>1, <1>2, <1>4 DEF Root, Big, Moving, Rising
  <2>2. MovingFiles(files, F)'
    BY <1>1, <1>2, <1>4, <1>5 DEF MovingFiles, Elsewhere
  <2>3. OnDisk(files, F, h)'
    BY <1>4, <2>2 DEF OnDisk, AtRest, Moving, Halving, Topping
  <2>4. Where(F, s, h)'
    BY <1>1, <1>2, <1>4 DEF Where, Descending, Rising, Topping
  <2>5. Stores(F, s)'
    BY <1>2, <1>4 DEF Stores, After
  <2> QED  BY <2>1, <2>3, <2>4, <2>5 DEF Sound
<1>7. IsNode(u) /\ IsNode(Bad)
  BY <1>2, <1>5, BlockIsNode, IdleFacts
<1>8. Words' /\ Stages'
  BY <1>1, <1>4, <1>7 DEF TreeInv, Words, Stages, Descending
<1> QED  BY <1>6, <1>8, UpAgain DEF Next, Step

(* SplitBlock keeps the invariant: the block with the record is overfull and  *)
(* will be written in halves.                                                 *)
LEMMA SplitBlockTree == TreeInv /\ SplitBlock => TreeInv'
<1> SUFFICES ASSUME TreeInv, SplitBlock PROVE TreeInv'
  OBVIOUS
<1> DEFINE n == op.node
           u == Updated(files[n], op.key, op.rec)
           l == LeftBlock(u)
           r == RightBlock(u)
           sep == r.keys[1]
<1>1. /\ up /\ op.at = "descend" /\ files[n].type = "block" /\ MustSplit(files[n], op.key)
      /\ op' = [op EXCEPT !.at = "unlink", !.left = l, !.right = r, !.extra = kmem.fkey, !.sep = sep]
      /\ kmem' = [kmem EXCEPT !.fkey = NextFkey(@)] /\ keyfile' = kmem
      /\ up' = up /\ crashed' = crashed /\ files' = files
  BY DEF SplitBlock, TakeFile, WriteKeyFile
<1>0. PICK F, s, h : BlockFilled(F, s, h)
  BY <1>1, BlockReached
<1>2. /\ DOMAIN F = DOMAIN files /\ \A f \in DOMAIN files \ {op.node} : F[f] = files[f]
      /\ op.node \in DOMAIN F /\ F[op.node] = Updated(files[op.node], op.key, op.rec)
      /\ BlockNode(files[op.node]) /\ BlockNode(F[op.node]) /\ F[op.node].type = "block"
      /\ Len(F[op.node].keys) \in Nat
      /\ MustSplit(files[op.node], op.key) => Len(F[op.node].keys) = NORECS
      /\ ~MustSplit(files[op.node], op.key) => Len(F[op.node].keys) <= NORECS - 1
      /\ Tree(F, kmem.mkey, s, h, {op.node})
      /\ Trail(F, s, h, kmem.mkey, op.path) /\ Reached(F, h, kmem.mkey, op.path, op.node)
      /\ op.span = s[op.node] \cap Keys /\ op.key \in s[op.node]
      /\ op.key \in Keys /\ op.rec \in Records \cup {DELE} /\ op.before = [k \in Keys |-> op.before[k]]
      /\ Holds(F, s, [op.before EXCEPT ![op.key] = Stored(op.rec)])
  BY <1>0 DEF BlockFilled
<1>3. kmem'.mkey = kmem.mkey /\ kmem \in [mkey : Fkeys, fkey : Fkeys] /\ kmem.fkey \notin DOMAIN F
  BY <1>1, <1>2, NextFileIsNew DEF TreeInv, FileInv, KeyWords, Words
<1>4. l = LeftBlock(F[n]) /\ r = RightBlock(F[n]) /\ sep = RightBlock(F[n]).keys[1] /\ Len(F[n].keys) = NORECS
  BY <1>1, <1>2
<1>5. BlockNode(l) /\ BlockNode(r)
  BY <1>2, <1>4, BlockHalves
<1>6. IsNode(l) /\ IsNode(r) /\ r # Bad
  <2>1. r.type = "block"
    BY DEF RightBlock, Block
  <2> QED  BY <1>5, <2>1, BlockIsNode DEF Bad
<1> HIDE DEF l, r, sep, u
<1>7. /\ op'.at = "unlink" /\ op'.key = op.key /\ op'.rec = op.rec /\ op'.before = op.before
      /\ op'.node = n /\ op'.span = op.span /\ op'.path = op.path /\ op'.left = l /\ op'.right = r
      /\ op'.extra = kmem.fkey /\ op'.sep = sep
  BY <1>1, OpFields DEF TreeInv
<1>8. Sound(files, F, s, h)'
  <2>1. Tree(F, Root, s, h, Big)'
    BY <1>2, <1>3, <1>7 DEF Root, Big, Moving, Rising
  <2>2. MovingFiles(files, F)'
    BY <1>1, <1>2, <1>3, <1>4, <1>6, <1>7 DEF MovingFiles, Elsewhere
  <2>3. OnDisk(files, F, h)'
    BY <1>7, <2>2 DEF OnDisk, AtRest, Moving, Halving, Topping
  <2>4. Where(F, s, h)'
    BY <1>2, <1>3, <1>7 DEF Where, Descending, Rising, Topping
  <2>5. Stores(F, s)'
    BY <1>2, <1>7 DEF Stores, After
  <2> QED  BY <2>1, <2>3, <2>4, <2>5 DEF Sound
<1>9. Words' /\ Stages'
  BY <1>1, <1>3, <1>6, <1>7 DEF TreeInv, Words, Stages, Descending, Moving
<1> QED  BY <1>8, <1>9, UpAgain DEF Next, Step

(* Trees are equal when their files are.                                      *)
LEMMA SameFiles ==
    ASSUME NEW F, NEW root, NEW s, NEW h, NEW big, Tree(F, root, s, h, big), NEW c, Holds(F, s, c),
           NEW F1, DOMAIN F1 = DOMAIN F, \A f \in DOMAIN F : F1[f] = F[f]
    PROVE  Tree(F1, root, s, h, big) /\ Holds(F1, s, c)
<1>1. \A f \in DOMAIN F : Good(F1, s, h, big, f)
  BY NodeKept DEF Tree
<1>2. \A f \in DOMAIN F : \A g : IsKid(F, f, g) => IsKid(F1, f, g)
  BY DEF IsKid
<1>3. Tree(F1, root, s, h, big)
  BY <1>1, <1>2 DEF Tree, Linked
<1>4. Holds(F1, s, c)
  BY DEF Holds
<1> QED  BY <1>3, <1>4

(* ContentsIsIn, after a step.                                                *)
LEMMA ContentsNext == (\A root : Contents(root) = ContentsIn(files, root))'
BY ContentsIsIn, PTL

(* An operation that ends leaves a tree with what it was to store.                *)
LEMMA Ended ==
    ASSUME TreeInv, [Next]_vars, up, up' = up, crashed' = crashed, op' = Idle, keyfile' = keyfile,
           kmem' = kmem, NEW s, NEW h, Tree(files', kmem.mkey, s, h, {}),
           NEW c, c = [k \in Keys |-> c[k]], Holds(files', s, c)
    PROVE  TreeInv' /\ Promised' = c
<1>1. op'.at = "idle" /\ op'.node = NoParent /\ op'.left = Bad /\ op'.right = Bad
  BY IdleFacts
<1>2. PICK F : F = files'
  OBVIOUS
<1>3. Sound(files, F, s, h)'
  <2>1. Tree(F, Root, s, h, Big)'
    BY <1>1, <1>2 DEF Root, Big, Moving, Rising
  <2> QED  BY <1>1, <1>2, <2>1 DEF Sound, OnDisk, Where, Stores, AtRest, Moving, Rising, Halving, Topping, Descending
<1>4. Words' /\ Stages'
  BY <1>1, IdleFacts DEF TreeInv, Words, Stages
<1>5. TreeInv'
  BY <1>3, <1>4, UpAgain
<1>6. Promised' = c
  <2>1. Promised' = Contents(kmem.mkey)'
    BY DEF Promised
  <2>2. Contents(kmem.mkey)' = ContentsIn(files', kmem.mkey)
    BY ContentsNext
  <2>3. ContentsIn(F, kmem.mkey) = c
    <3>1. Tree(F, kmem.mkey, s, h, {}) /\ Holds(F, s, c)
      BY <1>2
    <3> QED  BY <3>1, ContentsAre
  <2> QED  BY <1>2, <2>1, <2>2, <2>3
<1> QED  BY <1>5, <1>6

(* Unlink keeps the invariant: the file of the block is missing.              *)
LEMMA UnlinkTree == TreeInv /\ Unlink => TreeInv'
<1> SUFFICES ASSUME TreeInv, Unlink PROVE TreeInv'
  OBVIOUS
<1> DEFINE n == op.node
<1>1. /\ up /\ op.at = "unlink"
      /\ files' = [files EXCEPT ![n] = Bad]
      /\ op' = [op EXCEPT !.at = "rename"]
      /\ up' = up /\ crashed' = crashed /\ kmem' = kmem /\ keyfile' = keyfile
  BY DEF Unlink
<1>2. PICK F, s, h : Sound(files, F, s, h)
  BY <1>1, UpFiles
<1>3. MovingFiles(files, F) /\ Tree(F, kmem.mkey, s, h, { n }) /\ Where(F, s, h) /\ Stores(F, s)
  BY <1>1, <1>2 DEF Sound, OnDisk, Root, Big, Moving
<1>4. /\ op'.at = "rename" /\ op'.key = op.key /\ op'.rec = op.rec /\ op'.before = op.before
      /\ op'.node = n /\ op'.span = op.span /\ op'.path = op.path /\ op'.left = op.left /\ op'.right = op.right
      /\ op'.extra = op.extra /\ op'.sep = op.sep
  BY <1>1, OpFields DEF TreeInv
<1>5. n \in DOMAIN F
  BY <1>1, <1>3 DEF Where, Descending
<1>6. Sound(files, F, s, h)'
  <2>1. Tree(F, Root, s, h, Big)'
    BY <1>1, <1>3, <1>4 DEF Root, Big, Moving, Rising
  <2>2. MovingFiles(files, F)'
    BY <1>1, <1>3, <1>4, <1>5 DEF MovingFiles, Elsewhere
  <2>3. OnDisk(files, F, h)'
    BY <1>4, <2>2 DEF OnDisk, AtRest, Moving, Halving, Topping
  <2>4. Where(F, s, h)'
    BY <1>1, <1>3, <1>4 DEF Where, Descending, Rising, Topping
  <2>5. Stores(F, s)'
    BY <1>1, <1>3, <1>4 DEF Stores, After
  <2> QED  BY <2>1, <2>3, <2>4, <2>5 DEF Sound
<1>7. Words' /\ Stages'
  BY <1>1, <1>4 DEF TreeInv, Words, Stages, Descending
<1> QED  BY <1>6, <1>7, UpAgain DEF Next, Step

(* Rename keeps the invariant, and ends the operation unless there is a       *)
(* second half.                                                               *)
LEMMA RenameTree ==
    ASSUME TreeInv, Rename
    PROVE  /\ TreeInv'
           /\ op.right # Bad => op' # Idle /\ op'.before = op.before
           /\ op.right = Bad => /\ op' = Idle /\ op.key \in Keys /\ op.rec \in Records \cup {DELE}
                                /\ Promised' = [op.before EXCEPT ![op.key] = Stored(op.rec)]
<1> DEFINE n == op.node
<1>1. /\ up /\ op.at = "rename"
      /\ files' = [files EXCEPT ![n] = op.left]
      /\ op' = IF op.right = Bad THEN Idle ELSE [op EXCEPT !.at = "renameextra"]
      /\ up' = up /\ crashed' = crashed /\ kmem' = kmem /\ keyfile' = keyfile
  BY DEF Rename
<1>2. PICK F, s, h : Sound(files, F, s, h)
  BY <1>1, UpFiles
<1>3. MovingFiles(files, F) /\ Tree(F, kmem.mkey, s, h, { n }) /\ Where(F, s, h) /\ Stores(F, s)
  BY <1>1, <1>2 DEF Sound, OnDisk, Root, Big, Moving
<1>4. n \in DOMAIN F
  BY <1>1, <1>3 DEF Where, Descending
<1>5. ASSUME op.right = Bad
      PROVE  /\ TreeInv' /\ op' = Idle /\ op.key \in Keys /\ op.rec \in Records \cup {DELE}
             /\ Promised' = [op.before EXCEPT ![op.key] = Stored(op.rec)]
  <2> DEFINE c == [op.before EXCEPT ![op.key] = Stored(op.rec)]
  <2>1. F[n].type = "block" /\ op.left = F[n] /\ Len(F[n].keys) <= NORECS - 1
    BY <1>3, <1>5 DEF MovingFiles
  <2>2. Tree(F, kmem.mkey, s, h, {})
    <3> HIDE DEF n
    <3> QED  BY <1>3, <1>4, <2>1, RelaxBig
  <2>3. Holds(F, s, c) /\ op.key \in Keys /\ op.rec \in Records \cup {DELE} /\ op.before = [k \in Keys |-> op.before[k]]
    BY <1>1, <1>3 DEF Stores, After
  <2>4. c = [k \in Keys |-> c[k]]
    BY <2>3
  <2> HIDE DEF c
  <2>5. PICK F1 : F1 = files'
    OBVIOUS
  <2>6. DOMAIN F1 = DOMAIN F /\ \A f \in DOMAIN F : F1[f] = F[f]
    BY <1>1, <1>3, <2>1, <2>5 DEF MovingFiles, Elsewhere
  <2>7. Tree(F1, kmem.mkey, s, h, {}) /\ Holds(F1, s, c)
    BY <2>2, <2>3, <2>6, SameFiles
  <2>8. op' = Idle
    BY <1>1, <1>5
  <2>9. TreeInv' /\ Promised' = c
    BY <1>1, <2>4, <2>5, <2>7, <2>8, Ended DEF Next, Step
  <2> QED  BY <2>3, <2>8, <2>9 DEF c
<1>6. ASSUME op.right # Bad
      PROVE  TreeInv' /\ op' # Idle /\ op'.before = op.before
  <2>1. op' = [op EXCEPT !.at = "renameextra"]
    BY <1>1, <1>6
  <2>2. /\ op'.at = "renameextra" /\ op'.key = op.key /\ op'.rec = op.rec /\ op'.before = op.before
        /\ op'.node = n /\ op'.span = op.span /\ op'.path = op.path /\ op'.left = op.left /\ op'.right = op.right
        /\ op'.extra = op.extra /\ op'.sep = op.sep
    BY <2>1, OpFields DEF TreeInv
  <2>3. Sound(files, F, s, h)'
    <3>1. Tree(F, Root, s, h, Big)'
      BY <1>1, <1>3, <2>2 DEF Root, Big, Moving, Rising
    <3>2. MovingFiles(files, F)'
      BY <1>1, <1>3, <1>4, <1>6, <2>2 DEF MovingFiles, Elsewhere
    <3>3. OnDisk(files, F, h)'
      BY <2>2, <3>2 DEF OnDisk, AtRest, Moving, Halving, Topping
    <3>4. Where(F, s, h)'
      BY <1>1, <1>3, <2>2 DEF Where, Descending, Rising, Topping
    <3>5. Stores(F, s)'
      BY <1>1, <1>3, <2>2 DEF Stores, After
    <3> QED  BY <3>1, <3>3, <3>4, <3>5 DEF Sound
  <2>4. Words' /\ Stages'
    BY <1>1, <2>2 DEF TreeInv, Words, Stages, Descending
  <2>5. TreeInv'
    BY <2>3, <2>4, UpAgain DEF Next, Step
  <2>6. op' # Idle
    BY <2>2, IdleFacts
  <2> QED  BY <2>2, <2>5, <2>6
<1> QED  BY <1>5, <1>6

(* The last index of the descent is p.                                        *)
Ends(path, p) == path # << >> /\ path[Len(path)].node = p

(* A node n of a tree, reached along path, of which e is to be split off at   *)
(* sep; its parent is p.                                                      *)
SplitFrom(F, root, s, h, n, path, e, sep, p) ==
    /\ Tree(F, root, s, h, {n}) /\ n \in DOMAIN F /\ n # root
    /\ Trail(F, s, h, root, path) /\ Reached(F, h, root, path, n) /\ Ends(path, p)
    /\ e \in Fkeys /\ e \notin DOMAIN F /\ Divides(s[n], sep)

(* The files after the split, with the separator in p.                        *)
SplitInto(F, root, s, h, n, e, sep, p, F1, s1, h1) ==
    /\ DOMAIN F1 = DOMAIN F \cup {e} /\ F1[p] = KeyInserted(F[p], sep, e)
    /\ \A f \in DOMAIN F \ {n, p} : F1[f] = F[f]
    /\ Frame(DOMAIN F \cup {e}, root, s1, h1) /\ SpansSplit(DOMAIN F, s, h, n, e, sep, s1, h1)
    /\ Parted(F, n, e, F1, s1, h1)

(* They are a tree in which p may be overfull, and the descent ends in p.     *)
SplitUp(F, root, s, n, path, sep, p, F1, s1, h1) ==
    /\ p \in DOMAIN F /\ path[Len(path)].span = s1[p] \cap Keys
    /\ Tree(F1, root, s1, h1, {p}) /\ Trail(F1, s1, h1, root, path)
    /\ Under(F[p], F1, h1, p) /\ F1[p].type = "index"
    /\ Len(F1[p].keys) = Len(F[p].keys) + 1 /\ ~Contains(F[p].keys, sep)
    /\ sep \in s1[p] \cap Keys /\ s[n] \subseteq s1[p]

(* A node n split off e below the last index of path: the tree with the separator *)
(* in that index.                                                                 *)
LEMMA SplitBelow ==
    ASSUME NEW F, NEW root, NEW s, NEW h, NEW n, NEW path, NEW e, NEW sep, NEW p,
           SplitFrom(F, root, s, h, n, path, e, sep, p),
           NEW F1, NEW s1, NEW h1, SplitInto(F, root, s, h, n, e, sep, p, F1, s1, h1)
    PROVE  SplitUp(F, root, s, n, path, sep, p, F1, s1, h1)
<1>a. /\ Tree(F, root, s, h, {n}) /\ n \in DOMAIN F /\ n # root
      /\ Trail(F, s, h, root, path) /\ Reached(F, h, root, path, n) /\ Ends(path, p)
      /\ e \in Fkeys /\ e \notin DOMAIN F /\ Divides(s[n], sep)
  BY DEF SplitFrom
<1>b. /\ DOMAIN F1 = DOMAIN F \cup {e} /\ F1[p] = KeyInserted(F[p], sep, e)
      /\ \A f \in DOMAIN F \ {n, p} : F1[f] = F[f]
      /\ Frame(DOMAIN F \cup {e}, root, s1, h1) /\ SpansSplit(DOMAIN F, s, h, n, e, sep, s1, h1)
      /\ Parted(F, n, e, F1, s1, h1)
  BY DEF SplitInto
<1> USE <1>a, <1>b
<1>1. path # << >> /\ IsKid(F, p, n) /\ Len(path) \in Nat /\ Len(path) \in 1..Len(path)
  <2>1. path # << >> /\ IsKid(F, p, n)
    BY DEF Reached, Ends
  <2>2. path \in Seq(Steps)
    BY DEF Trail
  <2> QED  BY <2>1, <2>2
<1>2. OnTrail(F, s, h, root, path, Len(path))
  BY <1>1 DEF Trail
<1>3. p \in DOMAIN F /\ F[p].type = "index" /\ path[Len(path)].span = s[p] \cap Keys /\ p # e
  BY <1>2 DEF OnTrail, Ends
<1>4. p # n /\ s[n] \subseteq s[p]
  <2>1. PICK i \in 1..Len(F[p].kids) : F[p].kids[i] = n
    BY <1>1 DEF IsKid
  <2> QED  BY <1>3, <2>1, KidIs
<1>5. /\ F1[p].type = "index" /\ F1[p].parent = F[p].parent
      /\ Len(F1[p].keys) = Len(F[p].keys) + 1 /\ ~Contains(F[p].keys, sep)
  <2>1. IsKid(F, p, n) /\ p \in DOMAIN F
    BY <1>1, <1>3
  <2>2. /\ Good(F1, s1, h1, {p}, p)
        /\ \A f : IsKid(F, p, f) => IsKid(F1, p, f)
        /\ IsKid(F1, p, e)
        /\ F1[p].type = "index" /\ F1[p].parent = F[p].parent /\ F[p].type = "index"
        /\ Len(F1[p].keys) = Len(F[p].keys) + 1 /\ ~Contains(F[p].keys, sep)
    BY <2>1, ParentGood
  <2> QED  BY <2>2
<1>6. /\ Tree(F1, root, s1, h1, {p})
      /\ \A f \in DOMAIN F \ {n} : \A g : IsKid(F, f, g) => IsKid(F1, f, g)
  BY <1>1, <1>3, SplitUnder
<1>7. /\ \A f \in DOMAIN F \ {n} : s1[f] = s[f]
      /\ \A f \in DOMAIN F : h1[f] = h[f]
  BY DEF SpansSplit
<1>8. root \in DOMAIN F /\ h[root] \in Nat /\ h[n] \in Nat
  BY NodeKinds DEF Tree, Frame
<1>9. ASSUME NEW i \in 1..Len(path)
      PROVE  /\ path[i].node # n /\ path[i].node \in DOMAIN F
             /\ F1[path[i].node].type = "index" /\ F1[path[i].node].parent = F[path[i].node].parent
  <2>1. h[n] + Len(path) <= h[root] + 0 /\ Len(path) - 0 = Len(path)
    BY <1>1, <1>8 DEF Reached
  <2>2. path[i].node # n /\ path[i].node \in DOMAIN F
    BY <2>1, TrailAbove
  <2>3. F[path[i].node].type = "index"
    BY DEF Trail, OnTrail
  <2> QED  BY <1>5, <2>2, <2>3
<1>10. Trail(F1, s1, h1, root, path)
  BY <1>6, <1>7, <1>8, <1>9, TrailKept
<1>11. Under(F[p], F1, h1, p)
  <2>1. Under(F[p], F, h, p)
    BY <1>3, TreeLow
  <2> QED  BY <1>3, <1>7, <2>1 DEF Under
<1>12. sep \in s1[p] \cap Keys /\ s[n] \subseteq s1[p]
  BY <1>3, <1>4, <1>7 DEF Divides
<1>13. path[Len(path)].span = s1[p] \cap Keys
  BY <1>3, <1>4, <1>7
<1> QED  BY <1>3, <1>5, <1>6, <1>10, <1>11, <1>12, <1>13 DEF SplitUp

(* RenameExtra keeps the invariant: both halves of the block are there, and   *)
(* the tree is now the one with the separator in the parent.                  *)
LEMMA RenameExtraTree ==
    ASSUME TreeInv, RenameExtra
    PROVE  TreeInv' /\ op' # Idle /\ op'.before = op.before
<1> DEFINE n == op.node
           root == kmem.mkey
           e == op.extra
           sep == op.sep
           path == op.path
           p == path[Len(path)].node
<1>1. /\ up /\ op.at = "renameextra"
      /\ files' = WithFile(e, op.right)
      /\ op' = [op EXCEPT !.at = "addkey", !.node = LastNode(path), !.span = Last(path).span]
      /\ up' = up /\ crashed' = crashed /\ kmem' = kmem /\ keyfile' = keyfile
  BY DEF RenameExtra
<1>2. PICK F, s, h : Sound(files, F, s, h)
  BY <1>1, UpFiles
<1>3. MovingFiles(files, F) /\ Tree(F, root, s, h, { n }) /\ Where(F, s, h) /\ Stores(F, s)
  BY <1>1, <1>2 DEF Sound, OnDisk, Root, Big, Moving
<1>4. /\ n \in DOMAIN F /\ Trail(F, s, h, root, path) /\ Reached(F, h, root, path, n)
      /\ op.key \in s[n]
  BY <1>1, <1>3 DEF Where, Descending
<1>5. /\ DOMAIN files = DOMAIN F /\ Elsewhere(files, F) /\ F[n].type = "block" /\ Len(F[n].keys) = NORECS
      /\ op.right = RightBlock(F[n]) /\ files[n] = LeftBlock(F[n]) /\ sep = RightBlock(F[n]).keys[1]
      /\ e \notin DOMAIN F /\ e \in Fkeys
  <2>1. op.right # Bad
    BY <1>1, <1>3 DEF MovingFiles
  <2>2. e \in Fkeys
    BY DEF TreeInv, FileInv, ExtraBefore
  <2> QED  BY <1>1, <1>3, <2>1, <2>2 DEF MovingFiles
<1>6. /\ op.key \in Keys /\ op.rec \in Records \cup {DELE} /\ op.before = [k \in Keys |-> op.before[k]]
      /\ Holds(F, s, [op.before EXCEPT ![op.key] = Stored(op.rec)])
  BY <1>1, <1>3 DEF Stores, After
<1>7. Divides(s[n], sep) /\ n # root
  <2>1. h[n] = 0 /\ h[root] # 0
    <3>1. F[n].type # "index"
      BY <1>5
    <3>2. h[n] = 0
      BY <1>3, <1>4, <3>1, NodeKinds
    <3> QED  BY <1>3, <3>2 DEF Tree, Frame
  <2>2. Divides(s[n], RightBlock(F[n]).keys[1])
    <3> HIDE DEF n, root, e, sep, path
    <3> QED  BY <1>3, <1>4, <1>5, SplitsBlock
  <2> QED  BY <1>5, <2>1, <2>2
<1>8. PICK s1, h1 : Frame(DOMAIN F \cup {e}, root, s1, h1) /\ SpansSplit(DOMAIN F, s, h, n, e, sep, s1, h1)
  <2>1. Frame(DOMAIN F, root, s, h)
    BY <1>3 DEF Tree
  <2>2. n \in DOMAIN F /\ n # root /\ e \in Fkeys /\ e \notin DOMAIN F /\ Divides(s[n], sep)
    BY <1>4, <1>5, <1>7
  <2> HIDE DEF n, root, e, sep, path
  <2> QED  BY <2>1, <2>2, FrameSplit
<1>9. p \in DOMAIN F /\ p # n /\ F[p].type = "index" /\ path # << >> /\ LastNode(path) = p /\ Last(path) = path[Len(path)]
  <2>1. path # << >> /\ IsKid(F, p, n)
    BY <1>4, <1>7 DEF Reached
  <2>2. Len(path) \in 1..Len(path)
    BY <1>4, <2>1 DEF Trail
  <2>3. p \in DOMAIN F /\ F[p].type = "index"
    BY <1>4, <2>2 DEF Trail, OnTrail
  <2> QED  BY <1>5, <2>1, <2>3 DEF LastNode, Last
<1> HIDE DEF p
<1>10. PICK F1 : F1 = [ f \in DOMAIN F \cup {e} |->
                         IF f = n THEN LeftBlock(F[n]) ELSE IF f = e THEN RightBlock(F[n])
                         ELSE IF f = p THEN KeyInserted(F[p], sep, e) ELSE F[f] ]
  OBVIOUS
<1>11. /\ DOMAIN F1 = DOMAIN F \cup {e} /\ F1[n] = LeftBlock(F[n]) /\ F1[e] = RightBlock(F[n])
       /\ F1[p] = KeyInserted(F[p], sep, e) /\ \A f \in DOMAIN F \ {n, p} : F1[f] = F[f]
  BY <1>4, <1>5, <1>9, <1>10
<1> HIDE <1>10
<1>12. /\ Parted(F, n, e, F1, s1, h1) /\ F1[n].type = "block" /\ F1[e].type = "block"
       /\ \A k \in Keys : (k \in s1[n] => ValueIn(F1[n], k) = ValueIn(F[n], k))
                          /\ (k \in s1[e] => ValueIn(F1[e], k) = ValueIn(F[n], k))
  <2>1. /\ Tree(F, root, s, h, {n}) /\ n \in DOMAIN F /\ F[n].type = "block" /\ Len(F[n].keys) = NORECS
        /\ F1[n] = LeftBlock(F[n]) /\ F1[e] = RightBlock(F[n]) /\ sep = RightBlock(F[n]).keys[1]
        /\ SpansSplit(DOMAIN F, s, h, n, e, sep, s1, h1)
    BY <1>3, <1>4, <1>5, <1>8, <1>11
  <2> HIDE DEF n, root, e, sep, path
  <2> QED  BY <2>1, PartsBlock
<1>13. /\ path[Len(path)].span = s1[p] \cap Keys
       /\ Tree(F1, root, s1, h1, {p}) /\ Trail(F1, s1, h1, root, path)
       /\ Under(F[p], F1, h1, p) /\ F1[p].type = "index"
       /\ Len(F1[p].keys) = Len(F[p].keys) + 1 /\ ~Contains(F[p].keys, sep)
       /\ sep \in s1[p] \cap Keys /\ s[n] \subseteq s1[p]
  <2>1. SplitFrom(F, root, s, h, n, path, e, sep, p)
    BY <1>3, <1>4, <1>5, <1>7, <1>9 DEF SplitFrom, Ends, p
  <2>2. SplitInto(F, root, s, h, n, e, sep, p, F1, s1, h1)
    BY <1>8, <1>11, <1>12 DEF SplitInto
  <2>3. SplitUp(F, root, s, n, path, sep, p, F1, s1, h1)
    <3> HIDE DEF n, root, e, sep, path
    <3> QED  BY <2>1, <2>2, SplitBelow
  <2> QED  BY <2>3 DEF SplitUp
<1>14. Holds(F1, s1, [op.before EXCEPT ![op.key] = Stored(op.rec)])
  <2> DEFINE c == [op.before EXCEPT ![op.key] = Stored(op.rec)]
  <2>1. ASSUME NEW f \in DOMAIN F1, F1[f].type = "block"
        PROVE  \E g \in DOMAIN F : /\ F[g].type = "block" /\ s1[f] \subseteq s[g]
                                   /\ \A k \in Keys : k \in s1[f] => ValueIn(F1[f], k) = ValueIn(F[g], k)
    <3>1. CASE f = n \/ f = e
      <4>1. s1[f] \subseteq s[n]
        BY <1>8, <3>1 DEF SpansSplit, Lower, Upper
      <4> QED  BY <1>4, <1>5, <1>12, <3>1, <4>1
    <3>2. CASE f # n /\ f # e
      <4>1. f # p
        BY <1>13, <2>1
      <4>2. F1[f] = F[f] /\ f \in DOMAIN F /\ s1[f] = s[f]
        BY <1>8, <1>11, <3>2, <4>1 DEF SpansSplit
      <4> QED  BY <2>1, <4>2
    <3> QED  BY <3>1, <3>2
  <2>2. Holds(F, s, c)
    BY <1>6
  <2> HIDE DEF c, n, e, p
  <2>3. Holds(F1, s1, c)
    BY <2>1, <2>2, HoldsKept
  <2> QED  BY <2>3 DEF c
<1>15. /\ op'.at = "addkey" /\ op'.key = op.key /\ op'.rec = op.rec /\ op'.before = op.before
       /\ op'.node = p /\ op'.span = path[Len(path)].span /\ op'.path = path
       /\ op'.left = op.left /\ op'.right = op.right /\ op'.extra = e /\ op'.sep = sep
  BY <1>1, <1>9, OpFields DEF TreeInv
<1>16. /\ DOMAIN files' = DOMAIN F1 /\ files'[p] = F[p] /\ \A f \in DOMAIN F1 \ {p} : files'[f] = F1[f]
  <2>1. /\ DOMAIN files' = DOMAIN F \cup {e} /\ files'[e] = RightBlock(F[n])
        /\ \A f \in DOMAIN F : files'[f] = files[f]
    BY <1>1, <1>5 DEF WithFile
  <2>2. files'[n] = LeftBlock(F[n]) /\ \A f \in DOMAIN F \ {n} : files'[f] = F[f]
    BY <1>4, <1>5, <2>1 DEF Elsewhere
  <2> QED  BY <1>9, <1>11, <2>1, <2>2
<1>17. Sound(files, F1, s1, h1)'
  <2>1. Tree(F1, Root, s1, h1, Big)'
    BY <1>1, <1>13, <1>15 DEF Root, Big, Moving, Rising
  <2>2. AddingFiles(files, F1)'
    BY <1>11, <1>13, <1>15, <1>16 DEF AddingFiles, Elsewhere
  <2>3. Under(files[op.node], F1, h1, op.node)'
    BY <1>13, <1>15, <1>16
  <2>4. OnDisk(files, F1, h1)'
    BY <1>15, <2>2, <2>3 DEF OnDisk, AtRest, Moving, Halving, Topping
  <2>5. Where(F1, s1, h1)'
    BY <1>1, <1>4, <1>9, <1>11, <1>13, <1>15 DEF Where, Descending, Rising, Topping, p
  <2>6. Stores(F1, s1)'
    BY <1>6, <1>14, <1>15 DEF Stores, After
  <2> QED  BY <2>1, <2>4, <2>5, <2>6 DEF Sound
<1>18. Words' /\ Stages'
  <2>1. p \in Fkeys
    BY <1>3, <1>9, NodeKinds
  <2> QED  BY <1>1, <1>15, <2>1 DEF TreeInv, Words, Stages, Rising
<1>19. TreeInv'
  BY <1>17, <1>18, UpAgain DEF Next, Step
<1>20. op' # Idle
  BY <1>15, IdleFacts
<1> QED  BY <1>15, <1>19, <1>20

(* What the invariant says while an index has a key to be given.                  *)
LEMMA RisingFacts ==
    ASSUME NEW F, NEW s, NEW h, NEW G, Sound(G, F, s, h), Rising
    PROVE  /\ Tree(F, kmem.mkey, s, h, { op.node }) /\ op.node \in DOMAIN F /\ F[op.node].type = "index"
           /\ Trail(F, s, h, kmem.mkey, op.path) /\ op.path # << >> /\ Len(op.path) \in 1..Len(op.path)
           /\ op.node = op.path[Len(op.path)].node
           /\ op.span = s[op.node] \cap Keys /\ op.key \in s[op.node]
           /\ op.key \in Keys /\ op.rec \in Records \cup {DELE} /\ op.before = [k \in Keys |-> op.before[k]]
           /\ Holds(F, s, [op.before EXCEPT ![op.key] = Stored(op.rec)])
<1>1. op.at # "idle" /\ op.at # "descend" /\ op.at # "newmaster"
  BY DEF Rising
<1>2. /\ Tree(F, kmem.mkey, s, h, { op.node }) /\ op.node \in DOMAIN F
      /\ Trail(F, s, h, kmem.mkey, op.path) /\ op.path # << >>
      /\ op.node = op.path[Len(op.path)].node
      /\ op.span = s[op.node] \cap Keys /\ op.key \in s[op.node]
      /\ op.key \in Keys /\ op.rec \in Records \cup {DELE} /\ op.before = [k \in Keys |-> op.before[k]]
      /\ Holds(F, s, [op.before EXCEPT ![op.key] = Stored(op.rec)])
  BY <1>1 DEF Sound, Root, Big, Where, Stores, After
<1>3. Len(op.path) \in 1..Len(op.path)
  <2>1. op.path \in Seq(Steps)
    BY <1>2 DEF Trail
  <2> QED  BY <1>2, <2>1
<1>4. F[op.node].type = "index"
  BY <1>2, <1>3 DEF Trail, OnTrail
<1> QED  BY <1>2, <1>3, <1>4

(* AddKey keeps the invariant and ends the operation: the index has room.     *)
LEMMA AddKeyTree ==
    ASSUME TreeInv, AddKey
    PROVE  /\ TreeInv' /\ op' = Idle /\ op.key \in Keys /\ op.rec \in Records \cup {DELE}
           /\ Promised' = [op.before EXCEPT ![op.key] = Stored(op.rec)]
<1> DEFINE n == op.node
           c == [op.before EXCEPT ![op.key] = Stored(op.rec)]
<1>1. /\ up /\ op.at = "addkey" /\ ~Overfull(WithKey(files[n]))
      /\ files' = [files EXCEPT ![n] = WithKey(files[n])]
      /\ op' = Idle
      /\ up' = up /\ crashed' = crashed /\ kmem' = kmem /\ keyfile' = keyfile
  BY DEF AddKey
<1>2. PICK F, s, h : Sound(files, F, s, h)
  BY <1>1, UpFiles
<1>3. AddingFiles(files, F)
  BY <1>1, <1>2 DEF Sound, OnDisk
<1>4. Rising
  BY <1>1 DEF Rising
<1>5. /\ Tree(F, kmem.mkey, s, h, { n }) /\ n \in DOMAIN F /\ F[n].type = "index"
      /\ op.key \in Keys /\ op.rec \in Records \cup {DELE} /\ op.before = [k \in Keys |-> op.before[k]]
      /\ Holds(F, s, c)
  BY <1>2, <1>4, RisingFacts
<1>6. F[n] = WithKey(files[n])
  BY <1>3, WithKeyIs DEF AddingFiles
<1>7. Len(F[n].keys) \in Nat /\ Len(F[n].keys) <= NOENTS - 2
  <2>1. Len(F[n].keys) \in Nat
    <3> HIDE DEF n, c
    <3> QED  BY <1>5, BigBounds
  <2>2. ~(Len(F[n].keys) >= NOENTS - 1)
    BY <1>1, <1>6 DEF Overfull
  <2> QED  BY <2>1, <2>2, SizesAssumption
<1>8. Tree(F, kmem.mkey, s, h, {})
  <2> HIDE DEF n, c
  <2> QED  BY <1>5, <1>7, RelaxBig
<1>9. c = [k \in Keys |-> c[k]]
  BY <1>5
<1>10. PICK F1 : F1 = files'
  OBVIOUS
<1>11. DOMAIN F1 = DOMAIN F /\ \A f \in DOMAIN F : F1[f] = F[f]
  BY <1>1, <1>3, <1>5, <1>6, <1>10 DEF AddingFiles, Elsewhere
<1> HIDE DEF c
<1>12. Tree(F1, kmem.mkey, s, h, {}) /\ Holds(F1, s, c)
  BY <1>5, <1>8, <1>11, SameFiles
<1>13. TreeInv' /\ Promised' = c
  BY <1>1, <1>9, <1>10, <1>12, Ended DEF Next, Step
<1> QED  BY <1>1, <1>5, <1>13 DEF c

(* SplitIndex keeps the invariant: the index with the separator is overfull   *)
(* and will be written in halves.                                             *)
LEMMA SplitIndexTree ==
    ASSUME TreeInv, SplitIndex
    PROVE  TreeInv' /\ op' # Idle /\ op'.before = op.before
<1> DEFINE n == op.node
           ix == WithKey(files[n])
           l == LeftIndex(ix)
           r == RightIndex(ix)
           sep == ix.keys[Half + 1]
<1>1. /\ up /\ op.at = "addkey" /\ Overfull(ix)
      /\ kmem' = [kmem EXCEPT !.fkey = NextFkey(@)] /\ keyfile' = kmem
      /\ files' = WithFile(kmem.fkey, Empty)
      /\ op' = [op EXCEPT !.at = "putindex", !.left = l, !.right = r, !.extra = kmem.fkey, !.sep = sep]
      /\ up' = up /\ crashed' = crashed
  BY DEF SplitIndex, CreateIndex, TakeFile, WriteKeyFile, Empty
<1>2. PICK F, s, h : Sound(files, F, s, h)
  BY <1>1, UpFiles
<1>3. AddingFiles(files, F) /\ Under(files[n], F, h, n)
  BY <1>1, <1>2 DEF Sound, OnDisk
<1>4. Rising
  BY <1>1 DEF Rising
<1>5. /\ Tree(F, kmem.mkey, s, h, { n }) /\ n \in DOMAIN F /\ F[n].type = "index"
      /\ Trail(F, s, h, kmem.mkey, op.path) /\ op.path # << >> /\ n = op.path[Len(op.path)].node
      /\ op.span = s[n] \cap Keys /\ op.key \in s[n]
      /\ op.key \in Keys /\ op.rec \in Records \cup {DELE} /\ op.before = [k \in Keys |-> op.before[k]]
      /\ Holds(F, s, [op.before EXCEPT ![op.key] = Stored(op.rec)])
  BY <1>2, <1>4, RisingFacts
<1>6. F[n] = ix
  BY <1>3, WithKeyIs DEF AddingFiles
<1>7. Len(F[n].keys) = NOENTS - 1 /\ IndexNode(F[n])
  <2>1. Len(F[n].keys) \in Nat /\ Len(F[n].keys) <= NOENTS - 1
    <3> HIDE DEF n, ix
    <3> QED  BY <1>5, BigBounds
  <2>2. Len(F[n].keys) >= NOENTS - 1
    BY <1>1, <1>6 DEF Overfull
  <2>3. IndexNode(F[n])
    <3> HIDE DEF n, ix
    <3> QED  BY <1>5, TreeLow
  <2> QED  BY <2>1, <2>2, <2>3, SizesAssumption
<1>8. /\ l = LeftIndex(F[n]) /\ r = RightIndex(F[n]) /\ sep = F[n].keys[Half + 1]
      /\ IsNode(l) /\ IsNode(r)
  <2>1. IndexNode(LeftIndex(F[n])) /\ IndexNode(RightIndex(F[n]))
    <3> HIDE DEF n, ix
    <3> QED  BY <1>7, IndexHalves
  <2> QED  BY <1>6, <2>1, IndexIsNode
<1>9. kmem'.mkey = kmem.mkey /\ kmem \in [mkey : Fkeys, fkey : Fkeys] /\ kmem.fkey \notin DOMAIN files
  BY <1>1, NextFileIsNew DEF TreeInv, FileInv, KeyWords, Words
<1>10. kmem.fkey \notin DOMAIN F /\ DOMAIN files = DOMAIN F
  BY <1>3, <1>9 DEF AddingFiles
<1> HIDE DEF l, r, sep, ix
<1>11. /\ op'.at = "putindex" /\ op'.key = op.key /\ op'.rec = op.rec /\ op'.before = op.before
       /\ op'.node = n /\ op'.span = op.span /\ op'.path = op.path /\ op'.left = l /\ op'.right = r
       /\ op'.extra = kmem.fkey /\ op'.sep = sep
  BY <1>1, OpFields DEF TreeInv
<1>12. /\ DOMAIN files' = DOMAIN F \cup { kmem.fkey } /\ files'[kmem.fkey] = Empty
       /\ \A f \in DOMAIN F : files'[f] = files[f]
  BY <1>1, <1>10 DEF WithFile
<1>13. Sound(files, F, s, h)'
  <2>1. Tree(F, Root, s, h, Big)'
    BY <1>5, <1>9, <1>11 DEF Root, Big, Moving, Rising
  <2>2. HalvingFiles(files, F)'
    <3>1. \A f \in DOMAIN F \ {n} : files'[f] = F[f]
      BY <1>3, <1>12 DEF AddingFiles, Elsewhere
    <3> QED  BY <1>7, <1>8, <1>10, <1>11, <1>12, <3>1 DEF HalvingFiles, Elsewhere
  <2>3. Under(files[op.node], F, h, op.node)'
    BY <1>3, <1>5, <1>11, <1>12
  <2>4. OnDisk(files, F, h)'
    BY <1>11, <2>2, <2>3 DEF OnDisk, AtRest, Moving, Halving, Topping
  <2>5. Where(F, s, h)'
    BY <1>5, <1>9, <1>11 DEF Where, Descending, Rising, Topping
  <2>6. Stores(F, s)'
    BY <1>5, <1>11 DEF Stores, After
  <2> QED  BY <2>1, <2>4, <2>5, <2>6 DEF Sound
<1>14. Words' /\ Stages'
  BY <1>1, <1>8, <1>9, <1>11 DEF TreeInv, Words, Stages, Rising
<1>15. TreeInv'
  BY <1>13, <1>14, UpAgain DEF Next, Step
<1>16. op' # Idle
  BY <1>11, IdleFacts
<1> QED  BY <1>11, <1>15, <1>16

(* PutIndex keeps the invariant: the left half is in place.                   *)
LEMMA PutIndexTree ==
    ASSUME TreeInv, PutIndex
    PROVE  TreeInv' /\ op' # Idle /\ op'.before = op.before
<1> DEFINE n == op.node
<1>1. /\ up /\ op.at = "putindex"
      /\ files' = [files EXCEPT ![n] = op.left]
      /\ op' = [op EXCEPT !.at = "putnewdex"]
      /\ up' = up /\ crashed' = crashed /\ kmem' = kmem /\ keyfile' = keyfile
  BY DEF PutIndex
<1>2. PICK F, s, h : Sound(files, F, s, h)
  BY <1>1, UpFiles
<1>3. Halving /\ Rising
  BY <1>1 DEF Halving, Rising
<1>4. HalvingFiles(files, F) /\ Where(F, s, h) /\ Stores(F, s)
  BY <1>2, <1>3 DEF Sound, OnDisk
<1>5. Tree(F, kmem.mkey, s, h, { n }) /\ n \in DOMAIN F
  BY <1>2, <1>3, RisingFacts
<1>6. /\ op'.at = "putnewdex" /\ op'.key = op.key /\ op'.rec = op.rec /\ op'.before = op.before
      /\ op'.node = n /\ op'.span = op.span /\ op'.path = op.path /\ op'.left = op.left /\ op'.right = op.right
      /\ op'.extra = op.extra /\ op'.sep = op.sep
  BY <1>1, OpFields DEF TreeInv
<1>7. Sound(files, F, s, h)'
  <2>1. Tree(F, Root, s, h, Big)'
    BY <1>1, <1>5, <1>6 DEF Root, Big, Moving, Rising
  <2>2. HalvingFiles(files, F)'
    BY <1>1, <1>4, <1>5, <1>6 DEF HalvingFiles, Elsewhere
  <2>3. OnDisk(files, F, h)'
    BY <1>6, <2>2 DEF OnDisk, AtRest, Moving, Halving, Topping
  <2>4. Where(F, s, h)'
    BY <1>1, <1>3, <1>4, <1>6 DEF Where, Descending, Rising, Topping
  <2>5. Stores(F, s)'
    BY <1>1, <1>4, <1>6 DEF Stores, After
  <2> QED  BY <2>1, <2>3, <2>4, <2>5 DEF Sound
<1>8. Words' /\ Stages'
  BY <1>1, <1>6 DEF TreeInv, Words, Stages, Rising
<1>9. TreeInv'
  BY <1>7, <1>8, UpAgain DEF Next, Step
<1> QED  BY <1>6, <1>9, IdleFacts

(* The indexes above the last one, and what it has noted of them.                  *)
LEMMA TrailFront ==
    ASSUME NEW F, NEW s, NEW h, NEW root, NEW path, Trail(F, s, h, root, path),
           NEW n, Ends(path, n), n # root, h[n] \in Nat, h[root] \in Nat
    PROVE  /\ Trail(F, s, h, root, Front(path)) /\ Reached(F, h, root, Front(path), n)
           /\ Front(path) # << >> /\ Len(Front(path)) \in 1..Len(Front(path))
           /\ Ends(Front(path), F[n].parent)
<1> DEFINE q == Front(path)
<1>1. path \in Seq(Steps) /\ Len(path) \in Nat /\ Len(path) # 0
  BY DEF Trail, Ends
<1> DEFINE m == Len(path)
<1>a. m \in Nat /\ m # 0
  BY <1>1
<1>2. OnTrail(F, s, h, root, path, Len(path)) /\ path[Len(path)].node = n
  BY <1>1 DEF Trail, Ends
<1>3. Len(path) # 1
  BY <1>2 DEF OnTrail
<1>4. q \in Seq(Steps) /\ Len(q) = Len(path) - 1 /\ \A i \in 1..(Len(path) - 1) : q[i] = path[i]
  <2>1. /\ SubSeq(path, 1, Len(path) - 1) \in Seq(Steps)
        /\ Len(SubSeq(path, 1, Len(path) - 1)) = (Len(path) - 1) - 1 + 1
        /\ \A j \in 1..((Len(path) - 1) - 1 + 1) : SubSeq(path, 1, Len(path) - 1)[j] = path[1 + j - 1]
    <3>1. 1 \in 1..(m + 1) /\ m - 1 \in 0..m /\ 1 <= (m - 1) + 1
      <4> HIDE DEF m
      <4> QED  BY <1>a
    <3>2. path \in Seq(Steps)
      BY <1>1
    <3> QED  BY <3>1, <3>2, SubSeqIs
  <2>2. q = SubSeq(path, 1, Len(path) - 1)
    BY DEF Front
  <2>3. (Len(path) - 1) - 1 + 1 = Len(path) - 1 /\ \A j \in 1..(Len(path) - 1) : 1 + j - 1 = j
    BY <1>1
  <2> HIDE DEF q
  <2> QED  BY <2>1, <2>2, <2>3
<1> HIDE DEF q
<1>5. Len(q) \in 1..Len(q) /\ q # << >> /\ q[Len(q)] = path[Len(path) - 1]
  <2>1. Len(q) \in 1..Len(q) /\ q[Len(q)] = path[Len(path) - 1]
    BY <1>1, <1>3, <1>4
  <2>2. Len(q) # 0
    BY <1>1, <1>3, <1>4
  <2> QED  BY <2>1, <2>2
<1>6. ASSUME NEW i \in 1..Len(q)
      PROVE  OnTrail(F, s, h, root, q, i)
  <2>1. i \in 1..Len(path) /\ q[i] = path[i] /\ (i > 1 => q[i - 1] = path[i - 1])
    BY <1>1, <1>4
  <2>2. OnTrail(F, s, h, root, path, i)
    BY <2>1 DEF Trail
  <2> QED  BY <2>1, <2>2 DEF OnTrail
<1>7. Trail(F, s, h, root, q)
  BY <1>4, <1>6 DEF Trail
<1>8. F[n].parent = path[Len(path) - 1].node /\ IsKid(F, path[Len(path) - 1].node, n) /\ h[n] + Len(path) = h[root] + 1
  <2>1. m > 1
    <3>1. m # 1
      BY <1>3
    <3> HIDE DEF m
    <3> QED  BY <1>a, <3>1
  <2> QED  BY <1>2, <1>3, <2>1 DEF OnTrail
<1>9. Reached(F, h, root, q, n)
  <2>1. h[n] + Len(q) = h[root]
    <3>1. Len(q) = m - 1 /\ h[n] + m = h[root] + 1
      BY <1>4, <1>8
    <3> HIDE DEF m
    <3> QED  BY <1>a, <3>1
  <2> QED  BY <1>5, <1>8, <2>1 DEF Reached
<1>10. Ends(q, F[n].parent)
  BY <1>5, <1>8 DEF Ends
<1> QED  BY <1>5, <1>7, <1>9, <1>10 DEF q

(* PutNewdex keeps the invariant where the index that was split is the        *)
(* master.                                                                    *)
LEMMA NewMasterNext ==
    ASSUME TreeInv, PutNewdex, op.node = kmem.mkey
    PROVE  TreeInv' /\ op' # Idle /\ op'.before = op.before
<1> DEFINE n == op.node
<1>1. /\ up /\ op.at = "putnewdex"
      /\ files' = [files EXCEPT ![op.extra] = op.right]
      /\ op' = [op EXCEPT !.at = "crtmaster"]
      /\ up' = up /\ crashed' = crashed /\ kmem' = kmem /\ keyfile' = keyfile
  BY DEF PutNewdex
<1>2. PICK F, s, h : Sound(files, F, s, h)
  BY <1>1, UpFiles
<1>3. Halving /\ Rising
  BY <1>1 DEF Halving, Rising
<1>4. HalvingFiles(files, F) /\ Where(F, s, h) /\ Stores(F, s)
  BY <1>2, <1>3 DEF Sound, OnDisk
<1>5. Tree(F, kmem.mkey, s, h, { n }) /\ n \in DOMAIN F
  BY <1>2, <1>3, RisingFacts
<1>6. /\ op'.at = "crtmaster" /\ op'.key = op.key /\ op'.rec = op.rec /\ op'.before = op.before
      /\ op'.node = n /\ op'.span = op.span /\ op'.path = op.path /\ op'.left = op.left /\ op'.right = op.right
      /\ op'.extra = op.extra /\ op'.sep = op.sep
  BY <1>1, OpFields DEF TreeInv
<1>7. Sound(files, F, s, h)'
  <2>1. Tree(F, Root, s, h, Big)'
    BY <1>1, <1>5, <1>6 DEF Root, Big, Moving, Rising
  <2>2. HalvingFiles(files, F)'
    BY <1>1, <1>4, <1>5, <1>6 DEF HalvingFiles, Elsewhere
  <2>3. OnDisk(files, F, h)'
    BY <1>6, <2>2 DEF OnDisk, AtRest, Moving, Halving, Topping
  <2>4. Where(F, s, h)'
    BY <1>1, <1>3, <1>4, <1>6 DEF Where, Descending, Rising, Topping
  <2>5. Stores(F, s)'
    BY <1>1, <1>4, <1>6 DEF Stores, After
  <2> QED  BY <2>1, <2>3, <2>4, <2>5 DEF Sound
<1>8. Words' /\ Stages'
  BY <1>1, <1>6 DEF TreeInv, Words, Stages, Rising
<1>9. TreeInv'
  BY <1>7, <1>8, UpAgain DEF Next, Step
<1> QED  BY <1>6, <1>9, IdleFacts

(* PutNewdex keeps the invariant where it is not: the parent kept in the      *)
(* index, which addkey follows, is the index it was reached from.             *)
LEMMA KeyGoesUp ==
    ASSUME TreeInv, PutNewdex, op.node # kmem.mkey
    PROVE  TreeInv' /\ op' # Idle /\ op'.before = op.before
<1> DEFINE n == op.node
           root == kmem.mkey
           e == op.extra
           sep == op.sep
           above == Front(op.path)
           p == op.left.parent
<1>1. /\ up /\ op.at = "putnewdex"
      /\ files' = [files EXCEPT ![e] = op.right]
      /\ op' = [op EXCEPT !.at = "addkey", !.node = p, !.path = above,
                          !.span = IF above = << >> THEN {} ELSE Last(above).span]
      /\ up' = up /\ crashed' = crashed /\ kmem' = kmem /\ keyfile' = keyfile
  BY DEF PutNewdex
<1>2. PICK F, s, h : Sound(files, F, s, h)
  BY <1>1, UpFiles
<1>3. Halving /\ Rising
  BY <1>1 DEF Halving, Rising
<1>4. /\ Tree(F, root, s, h, { n }) /\ n \in DOMAIN F /\ F[n].type = "index"
      /\ Trail(F, s, h, root, op.path) /\ Ends(op.path, n) /\ op.key \in s[n]
      /\ op.key \in Keys /\ op.rec \in Records \cup {DELE} /\ op.before = [k \in Keys |-> op.before[k]]
      /\ Holds(F, s, [op.before EXCEPT ![op.key] = Stored(op.rec)])
  BY <1>2, <1>3, RisingFacts DEF Ends
<1>5. /\ e \notin DOMAIN F /\ e \in Fkeys /\ DOMAIN files = DOMAIN F \cup {e} /\ Elsewhere(files, F)
      /\ Len(F[n].keys) = NOENTS - 1 /\ sep = F[n].keys[Half + 1]
      /\ op.right = RightIndex(F[n]) /\ op.left = LeftIndex(F[n]) /\ files[n] = LeftIndex(F[n])
  <2>1. e \in Fkeys
    BY DEF TreeInv, FileInv, ExtraBefore
  <2>2. HalvingFiles(files, F)
    BY <1>2, <1>3 DEF Sound, OnDisk
  <2> QED  BY <1>1, <2>1, <2>2 DEF HalvingFiles
<1>6. n # root /\ h[n] \in Nat /\ h[root] \in Nat
  BY <1>4, NodeKinds DEF Tree, Frame
<1>7. /\ Trail(F, s, h, root, above) /\ Reached(F, h, root, above, n)
      /\ above # << >> /\ Len(above) \in 1..Len(above) /\ Ends(above, F[n].parent)
  <2> HIDE DEF n, root, above
  <2>1. Front(op.path) = above
    BY DEF above
  <2> QED  BY <1>4, <1>6, <2>1, TrailFront
<1>8. p = F[n].parent
  BY <1>5 DEF LeftIndex, Index
<1>9. Ends(above, p) /\ p = above[Len(above)].node /\ p \in DOMAIN F /\ F[p].type = "index" /\ p # n /\ Last(above) = above[Len(above)]
  <2>1. Ends(above, p) /\ p = above[Len(above)].node
    BY <1>7, <1>8 DEF Ends
  <2>2. OnTrail(F, s, h, root, above, Len(above))
    BY <1>7 DEF Trail
  <2>3. p \in DOMAIN F /\ F[p].type = "index" /\ h[p] + Len(above) = h[root] + 1
    BY <2>1, <2>2 DEF OnTrail
  <2>4. p # n
    <3>1. h[n] + Len(above) = h[root]
      BY <1>7 DEF Reached
    <3>2. h[n] \in Nat /\ h[root] \in Nat /\ Len(above) \in Nat
      BY <1>6, <1>7 DEF Trail
    <3> HIDE DEF n, root, above, p
    <3> QED  BY <2>3, <3>1, <3>2
  <2> QED  BY <2>1, <2>3, <2>4 DEF Last
<1> HIDE DEF p, above
<1>10. Divides(s[n], sep)
  <2>1. Divides(s[n], F[n].keys[Half + 1])
    <3> HIDE DEF n, root, e, sep
    <3> QED  BY <1>4, <1>5, SplitsIndex
  <2> QED  BY <1>5, <2>1
<1>11. PICK s1, h1 : Frame(DOMAIN F \cup {e}, root, s1, h1) /\ SpansSplit(DOMAIN F, s, h, n, e, sep, s1, h1)
  <2>1. Frame(DOMAIN F, root, s, h)
    BY <1>4 DEF Tree
  <2>2. n \in DOMAIN F /\ n # root /\ e \in Fkeys /\ e \notin DOMAIN F /\ Divides(s[n], sep)
    BY <1>4, <1>5, <1>6, <1>10
  <2> HIDE DEF n, root, e, sep
  <2> QED  BY <2>1, <2>2, FrameSplit
<1>12. PICK F1 : F1 = [ f \in DOMAIN F \cup {e} |->
                         IF f = n THEN LeftIndex(F[n]) ELSE IF f = e THEN RightIndex(F[n])
                         ELSE IF f = p THEN KeyInserted(F[p], sep, e) ELSE F[f] ]
  OBVIOUS
<1>13. /\ DOMAIN F1 = DOMAIN F \cup {e} /\ F1[n] = LeftIndex(F[n]) /\ F1[e] = RightIndex(F[n])
       /\ F1[p] = KeyInserted(F[p], sep, e) /\ \A f \in DOMAIN F \ {n, p} : F1[f] = F[f]
  BY <1>4, <1>5, <1>9, <1>12
<1> HIDE <1>12
<1>14. Parted(F, n, e, F1, s1, h1) /\ F1[n].type = "index" /\ F1[e].type = "index"
  <2>1. /\ Tree(F, root, s, h, {n}) /\ n \in DOMAIN F /\ F[n].type = "index" /\ Len(F[n].keys) = NOENTS - 1
        /\ e \notin DOMAIN F /\ DOMAIN F \subseteq DOMAIN F1
        /\ F1[n] = LeftIndex(F[n]) /\ F1[e] = RightIndex(F[n])
        /\ SpansSplit(DOMAIN F, s, h, n, e, F[n].keys[Half + 1], s1, h1)
    BY <1>4, <1>5, <1>11, <1>13
  <2> HIDE DEF n, root, e, sep
  <2> QED  BY <2>1, PartsIndex
<1>15. SplitUp(F, root, s, n, above, sep, p, F1, s1, h1)
  <2>1. SplitFrom(F, root, s, h, n, above, e, sep, p)
    BY <1>4, <1>5, <1>6, <1>7, <1>9, <1>10 DEF SplitFrom
  <2>2. SplitInto(F, root, s, h, n, e, sep, p, F1, s1, h1)
    BY <1>11, <1>13, <1>14 DEF SplitInto
  <2> HIDE DEF n, root, e, sep
  <2> QED  BY <2>1, <2>2, SplitBelow
<1>16. /\ above[Len(above)].span = s1[p] \cap Keys
       /\ Tree(F1, root, s1, h1, {p}) /\ Trail(F1, s1, h1, root, above)
       /\ Under(F[p], F1, h1, p) /\ F1[p].type = "index"
       /\ Len(F1[p].keys) = Len(F[p].keys) + 1 /\ ~Contains(F[p].keys, sep)
       /\ sep \in s1[p] \cap Keys /\ s[n] \subseteq s1[p]
  BY <1>15 DEF SplitUp
<1>17. Holds(F1, s1, [op.before EXCEPT ![op.key] = Stored(op.rec)])
  <2> DEFINE c == [op.before EXCEPT ![op.key] = Stored(op.rec)]
  <2>1. ASSUME NEW f \in DOMAIN F1, F1[f].type = "block"
        PROVE  \E g \in DOMAIN F : /\ F[g].type = "block" /\ s1[f] \subseteq s[g]
                                   /\ \A k \in Keys : k \in s1[f] => ValueIn(F1[f], k) = ValueIn(F[g], k)
    <3>1. f # n /\ f # e /\ f # p
      BY <1>14, <1>16, <2>1
    <3>2. F1[f] = F[f] /\ f \in DOMAIN F /\ s1[f] = s[f]
      BY <1>11, <1>13, <3>1 DEF SpansSplit
    <3> QED  BY <2>1, <3>2
  <2>2. Holds(F, s, c)
    BY <1>4
  <2> HIDE DEF c, n, e
  <2>3. Holds(F1, s1, c)
    BY <2>1, <2>2, HoldsKept
  <2> QED  BY <2>3 DEF c
<1>18. /\ op'.at = "addkey" /\ op'.key = op.key /\ op'.rec = op.rec /\ op'.before = op.before
       /\ op'.node = p /\ op'.span = above[Len(above)].span /\ op'.path = above
       /\ op'.left = op.left /\ op'.right = op.right /\ op'.extra = e /\ op'.sep = sep
  <2>1. op' = [op EXCEPT !.at = "addkey", !.node = p, !.path = above, !.span = above[Len(above)].span]
    BY <1>1, <1>7, <1>9
  <2> QED  BY <2>1, OpFields DEF TreeInv
<1>19. /\ DOMAIN files' = DOMAIN F1 /\ files'[p] = F[p] /\ \A f \in DOMAIN F1 \ {p} : files'[f] = F1[f]
  <2>1. /\ DOMAIN files' = DOMAIN F \cup {e} /\ files'[e] = RightIndex(F[n])
        /\ \A f \in DOMAIN F : files'[f] = files[f]
    BY <1>1, <1>5
  <2>2. files'[n] = LeftIndex(F[n]) /\ \A f \in DOMAIN F \ {n} : files'[f] = F[f]
    BY <1>4, <1>5, <2>1 DEF Elsewhere
  <2> QED  BY <1>9, <1>13, <2>1, <2>2
<1>20. Sound(files, F1, s1, h1)'
  <2>1. Tree(F1, Root, s1, h1, Big)'
    BY <1>1, <1>16, <1>18 DEF Root, Big, Moving, Rising
  <2>2. AddingFiles(files, F1)'
    BY <1>13, <1>16, <1>18, <1>19 DEF AddingFiles, Elsewhere
  <2>3. Under(files[op.node], F1, h1, op.node)'
    BY <1>16, <1>18, <1>19
  <2>4. OnDisk(files, F1, h1)'
    BY <1>18, <2>2, <2>3 DEF OnDisk, AtRest, Moving, Halving, Topping
  <2>5. Where(F1, s1, h1)'
    BY <1>1, <1>4, <1>7, <1>9, <1>13, <1>16, <1>18 DEF Where, Descending, Rising, Topping
  <2>6. Stores(F1, s1)'
    BY <1>4, <1>17, <1>18 DEF Stores, After
  <2> QED  BY <2>1, <2>4, <2>5, <2>6 DEF Sound
<1>21. Words' /\ Stages'
  <2>1. p \in Fkeys
    BY <1>4, <1>9, NodeKinds
  <2> QED  BY <1>1, <1>18, <2>1 DEF TreeInv, Words, Stages, Rising
<1>22. TreeInv'
  BY <1>20, <1>21, UpAgain DEF Next, Step
<1>23. op' # Idle
  BY <1>18, IdleFacts
<1> QED  BY <1>18, <1>22, <1>23

(* A root n that is to be split, and the spans with a new root r.             *)
AboveRoot(D, n, s, h, e, r, sep) ==
    /\ n \in D /\ Frame(D, n, s, h)
    /\ e \in Fkeys /\ e \notin D /\ r \in Fkeys /\ r \notin D /\ e # r /\ Divides(s[n], sep)

RootAdded(D, n, s, h, e, r, sep, s1, h1) ==
    /\ Frame(D \cup {e, r}, r, s1, h1) /\ SpansSplit(D, s, h, n, e, sep, s1, h1)
    /\ s1[r] = Nat /\ h1[r] = h[n] + 1

(* There are such spans.                                                      *)
LEMMA SomeRoot ==
    ASSUME NEW D, NEW n, NEW s, NEW h, NEW e, NEW r, NEW sep, AboveRoot(D, n, s, h, e, r, sep)
    PROVE  \E s1, h1 : RootAdded(D, n, s, h, e, r, sep, s1, h1)
<1> DEFINE s1 == RootSpans(D, s, n, e, r, sep)
           h1 == RootRanks(D, h, n, e, r)
<1>1. /\ Frame(D, n, s, h)
      /\ e \in Fkeys /\ e \notin D /\ r \in Fkeys /\ r \notin D /\ e # r /\ Divides(s[n], sep)
  BY DEF AboveRoot
<1>2. /\ Frame(D \cup {e, r}, r, s1, h1) /\ SpansSplit(D, s, h, n, e, sep, s1, h1)
      /\ s1[r] = Nat /\ h1[r] = h[n] + 1
  BY <1>1, FrameRoot
<1>3. RootAdded(D, n, s, h, e, r, sep, s1, h1)
  BY <1>2 DEF RootAdded
<1> QED  BY <1>3

(* CreateMaster keeps the invariant: the tree is now the one with the new     *)
(* master above the halves.                                                   *)
LEMMA CreateMasterTree ==
    ASSUME TreeInv, CreateMaster
    PROVE  TreeInv' /\ op' # Idle /\ op'.before = op.before
<1> DEFINE n == op.node
           e == op.extra
           r == kmem.fkey
           sep == op.sep
           m == MasterOver(n, e)
<1>1. /\ up /\ op.at = "crtmaster"
      /\ kmem' = [kmem EXCEPT !.fkey = NextFkey(@)] /\ keyfile' = kmem
      /\ files' = WithFile(r, Empty)
      /\ op' = [op EXCEPT !.at = "newmaster", !.left = m, !.node = r]
      /\ up' = up /\ crashed' = crashed
  BY DEF CreateMaster, CreateIndex, TakeFile, WriteKeyFile, Empty
<1>2. PICK F, s, h : Sound(files, F, s, h)
  BY <1>1, UpFiles
<1>3. Halving /\ Rising
  BY <1>1 DEF Halving, Rising
<1>4. /\ Tree(F, n, s, h, { n }) /\ n \in DOMAIN F /\ F[n].type = "index" /\ n = kmem.mkey
      /\ op.key \in Keys /\ op.rec \in Records \cup {DELE} /\ op.before = [k \in Keys |-> op.before[k]]
      /\ Holds(F, s, [op.before EXCEPT ![op.key] = Stored(op.rec)])
      /\ op.span = s[n] \cap Keys
  <2>1. n = kmem.mkey
    BY <1>1, <1>2 DEF Sound, Where
  <2> QED  BY <1>2, <1>3, <2>1, RisingFacts
<1>5. /\ e \notin DOMAIN F /\ e \in Fkeys /\ DOMAIN files = DOMAIN F \cup {e} /\ Elsewhere(files, F)
      /\ Len(F[n].keys) = NOENTS - 1 /\ sep = F[n].keys[Half + 1]
      /\ files[n] = LeftIndex(F[n]) /\ files[e] = RightIndex(F[n])
  <2>1. e \in Fkeys
    BY DEF TreeInv, FileInv, ExtraBefore
  <2>2. HalvingFiles(files, F)
    BY <1>2, <1>3 DEF Sound, OnDisk
  <2> QED  BY <1>1, <2>1, <2>2 DEF HalvingFiles
<1>6. /\ r \in Fkeys /\ r \notin DOMAIN F /\ r # e /\ r \notin DOMAIN files
      /\ kmem'.mkey = kmem.mkey /\ kmem \in [mkey : Fkeys, fkey : Fkeys]
  BY <1>1, <1>5, NextFileIsNew DEF TreeInv, FileInv, KeyWords, Words
<1>7. m = Index(NoParent, << sep >>, << n, e >>)
  BY DEF MasterOver
<1> HIDE DEF m
<1>8. Divides(s[n], sep)
  <2>1. Divides(s[n], F[n].keys[Half + 1])
    <3> HIDE DEF n, e, r, sep
    <3> QED  BY <1>4, <1>5, SplitsIndex
  <2> QED  BY <1>5, <2>1
<1>9. PICK s1, h1 : /\ Frame(DOMAIN F \cup {e, r}, r, s1, h1) /\ SpansSplit(DOMAIN F, s, h, n, e, sep, s1, h1)
                    /\ s1[r] = Nat /\ h1[r] = h[n] + 1
  <2>1. Frame(DOMAIN F, n, s, h)
    BY <1>4 DEF Tree
  <2>2. e \in Fkeys /\ e \notin DOMAIN F /\ r \in Fkeys /\ r \notin DOMAIN F /\ e # r /\ Divides(s[n], sep) /\ n \in DOMAIN F
    BY <1>4, <1>5, <1>6, <1>8
  <2>3. AboveRoot(DOMAIN F, n, s, h, e, r, sep)
    BY <2>1, <2>2 DEF AboveRoot
  <2>4. PICK s1, h1 : RootAdded(DOMAIN F, n, s, h, e, r, sep, s1, h1)
    <3> HIDE DEF n, e, r, sep
    <3> QED  BY <2>3, SomeRoot
  <2> QED  BY <2>4 DEF RootAdded
<1>10. PICK F1 : F1 = [ f \in DOMAIN F \cup {e, r} |->
                         IF f = n THEN LeftIndex(F[n]) ELSE IF f = e THEN RightIndex(F[n])
                         ELSE IF f = r THEN m ELSE F[f] ]
  OBVIOUS
<1>11. /\ DOMAIN F1 = DOMAIN F \cup {e, r} /\ F1[n] = LeftIndex(F[n]) /\ F1[e] = RightIndex(F[n])
       /\ F1[r] = m /\ \A f \in DOMAIN F \ {n} : F1[f] = F[f]
  BY <1>4, <1>5, <1>6, <1>10
<1> HIDE <1>10
<1>12. Parted(F, n, e, F1, s1, h1) /\ F1[n].type = "index" /\ F1[e].type = "index"
  <2>1. /\ Tree(F, n, s, h, {n}) /\ n \in DOMAIN F /\ F[n].type = "index" /\ Len(F[n].keys) = NOENTS - 1
        /\ e \notin DOMAIN F /\ DOMAIN F \subseteq DOMAIN F1
        /\ F1[n] = LeftIndex(F[n]) /\ F1[e] = RightIndex(F[n])
        /\ SpansSplit(DOMAIN F, s, h, n, e, F[n].keys[Half + 1], s1, h1)
    BY <1>4, <1>5, <1>9, <1>11
  <2> HIDE DEF n, e, r, sep
  <2> QED  BY <2>1, PartsIndex
<1>13. Tree(F1, r, s1, h1, {})
  <2>1. RootFrom(F, s, h, n, e, r, sep)
    BY <1>4, <1>5, <1>6, <1>8 DEF RootFrom
  <2>2. RootInto(F, s, h, n, e, r, sep, F1, s1, h1)
    BY <1>7, <1>9, <1>11, <1>12 DEF RootInto
  <2> HIDE DEF n, e, r, sep
  <2> QED  BY <2>1, <2>2, SplitRoot
<1>14. Holds(F1, s1, [op.before EXCEPT ![op.key] = Stored(op.rec)])
  <2> DEFINE c == [op.before EXCEPT ![op.key] = Stored(op.rec)]
  <2>1. ASSUME NEW f \in DOMAIN F1, F1[f].type = "block"
        PROVE  \E g \in DOMAIN F : /\ F[g].type = "block" /\ s1[f] \subseteq s[g]
                                   /\ \A k \in Keys : k \in s1[f] => ValueIn(F1[f], k) = ValueIn(F[g], k)
    <3>1. f # n /\ f # e /\ f # r
      <4>1. F1[r].type = "index"
        BY <1>7, <1>11 DEF Index
      <4> QED  BY <1>12, <2>1, <4>1
    <3>2. F1[f] = F[f] /\ f \in DOMAIN F /\ s1[f] = s[f]
      BY <1>9, <1>11, <3>1 DEF SpansSplit
    <3> QED  BY <2>1, <3>2
  <2>2. Holds(F, s, c)
    BY <1>4
  <2> HIDE DEF c, n, e, r
  <2>3. Holds(F1, s1, c)
    BY <2>1, <2>2, HoldsKept
  <2> QED  BY <2>3 DEF c
<1>15. /\ op'.at = "newmaster" /\ op'.key = op.key /\ op'.rec = op.rec /\ op'.before = op.before
       /\ op'.node = r /\ op'.span = op.span /\ op'.left = m /\ op'.right = op.right
  BY <1>1, OpFields DEF TreeInv
<1>16. op.span = Keys
  <2>1. s[n] = Nat
    BY <1>4 DEF Tree, Frame
  <2> QED  BY <1>4, <2>1, KeysAreNumbers
<1>17. DOMAIN files' = DOMAIN F1 /\ files'[r] = Empty /\ \A f \in DOMAIN F1 \ {r} : files'[f] = F1[f]
  <2>1. /\ DOMAIN files' = DOMAIN F \cup {e, r} /\ files'[r] = Empty
        /\ \A f \in DOMAIN F \cup {e} : files'[f] = files[f]
    BY <1>1, <1>5, <1>6 DEF WithFile
  <2> QED  BY <1>4, <1>5, <1>11, <2>1 DEF Elsewhere
<1>18. Sound(files, F1, s1, h1)'
  <2>1. Tree(F1, Root, s1, h1, Big)'
    BY <1>13, <1>15 DEF Root, Big, Moving, Rising
  <2>2. ToppingFiles(files, F1)'
    BY <1>11, <1>15, <1>17 DEF ToppingFiles, Elsewhere
  <2>3. OnDisk(files, F1, h1)'
    BY <1>15, <2>2 DEF OnDisk, AtRest, Moving, Halving, Topping
  <2>4. Where(F1, s1, h1)'
    BY <1>11, <1>15, <1>16 DEF Where, Descending, Rising, Topping
  <2>5. Stores(F1, s1)'
    BY <1>4, <1>14, <1>15 DEF Stores, After
  <2> QED  BY <2>1, <2>3, <2>4, <2>5 DEF Sound
<1>19. Words' /\ Stages'
  <2>1. IsNode(m)
    BY <1>11, <1>13, TreeNodes
  <2> QED  BY <1>1, <1>6, <1>15, <2>1 DEF TreeInv, Words, Stages, Topping
<1>20. TreeInv'
  BY <1>18, <1>19, UpAgain DEF Next, Step
<1>21. op' # Idle
  BY <1>15, IdleFacts
<1> QED  BY <1>15, <1>20, <1>21

(* What the invariant says while a new master is put in place.                *)
LEMMA ToppingFacts ==
    ASSUME NEW F, NEW s, NEW h, NEW G, Sound(G, F, s, h), Topping
    PROVE  /\ Tree(F, Root, s, h, {}) /\ ToppingFiles(G, F) /\ op.node \in DOMAIN F /\ op.span = Keys
           /\ op.key \in Keys /\ op.rec \in Records \cup {DELE} /\ op.before = [k \in Keys |-> op.before[k]]
           /\ Holds(F, s, [op.before EXCEPT ![op.key] = Stored(op.rec)])
<1>1. op.at # "idle" /\ op.at # "descend" /\ ~Moving /\ ~Rising
  BY DEF Topping, Moving, Rising
<1> QED  BY <1>1 DEF Sound, Big, OnDisk, Where, Stores, After

(* NewMaster keeps the invariant: the tree is read from the new master.       *)
LEMMA NewMasterTree ==
    ASSUME TreeInv, NewMaster
    PROVE  TreeInv' /\ op' # Idle /\ op'.before = op.before
<1>1. /\ up /\ op.at = "newmaster"
      /\ kmem' = [kmem EXCEPT !.mkey = op.node] /\ keyfile' = kmem
      /\ op' = [op EXCEPT !.at = "writemaster"]
      /\ up' = up /\ crashed' = crashed /\ files' = files
  BY DEF NewMaster, WriteKeyFile
<1>2. PICK F, s, h : Sound(files, F, s, h)
  BY <1>1, UpFiles
<1>3. Topping /\ Root = op.node
  BY <1>1 DEF Topping, Root
<1>4. /\ Tree(F, op.node, s, h, {}) /\ ToppingFiles(files, F) /\ op.node \in DOMAIN F /\ op.span = Keys
      /\ op.key \in Keys /\ op.rec \in Records \cup {DELE} /\ op.before = [k \in Keys |-> op.before[k]]
      /\ Holds(F, s, [op.before EXCEPT ![op.key] = Stored(op.rec)])
  BY <1>2, <1>3, ToppingFacts
<1>5. /\ op'.at = "writemaster" /\ op'.key = op.key /\ op'.rec = op.rec /\ op'.before = op.before
      /\ op'.node = op.node /\ op'.span = op.span /\ op'.left = op.left /\ op'.right = op.right
  BY <1>1, OpFields DEF TreeInv
<1>6. kmem'.mkey = op.node /\ kmem \in [mkey : Fkeys, fkey : Fkeys] /\ op.node \in Fkeys
  BY <1>1, NextFileIsNew DEF TreeInv, FileInv, KeyWords, Words
<1>7. Sound(files, F, s, h)'
  <2>1. Tree(F, Root, s, h, Big)'
    BY <1>4, <1>5, <1>6 DEF Root, Big, Moving, Rising
  <2>2. ToppingFiles(files, F)'
    BY <1>1, <1>4, <1>5 DEF ToppingFiles, Elsewhere
  <2>3. OnDisk(files, F, h)'
    BY <1>5, <2>2 DEF OnDisk, AtRest, Moving, Halving, Topping
  <2>4. Where(F, s, h)'
    BY <1>4, <1>5 DEF Where, Descending, Rising, Topping
  <2>5. Stores(F, s)'
    BY <1>4, <1>5 DEF Stores, After
  <2> QED  BY <2>1, <2>3, <2>4, <2>5 DEF Sound
<1>8. Words' /\ Stages'
  BY <1>1, <1>5, <1>6 DEF TreeInv, Words, Stages, Topping
<1>9. TreeInv'
  BY <1>7, <1>8, UpAgain DEF Next, Step
<1> QED  BY <1>5, <1>9, IdleFacts

(* WriteMaster keeps the invariant and ends the operation.                    *)
LEMMA WriteMasterTree ==
    ASSUME TreeInv, WriteMaster
    PROVE  /\ TreeInv' /\ op' = Idle /\ op.key \in Keys /\ op.rec \in Records \cup {DELE}
           /\ Promised' = [op.before EXCEPT ![op.key] = Stored(op.rec)]
<1> DEFINE c == [op.before EXCEPT ![op.key] = Stored(op.rec)]
<1>1. /\ up /\ op.at = "writemaster"
      /\ files' = [files EXCEPT ![op.node] = op.left]
      /\ op' = Idle
      /\ up' = up /\ crashed' = crashed /\ kmem' = kmem /\ keyfile' = keyfile
  BY DEF WriteMaster
<1>2. PICK F, s, h : Sound(files, F, s, h)
  BY <1>1, UpFiles
<1>3. Topping /\ Root = kmem.mkey
  BY <1>1 DEF Topping, Root
<1>4. /\ Tree(F, kmem.mkey, s, h, {}) /\ ToppingFiles(files, F) /\ op.node \in DOMAIN F
      /\ op.key \in Keys /\ op.rec \in Records \cup {DELE} /\ op.before = [k \in Keys |-> op.before[k]]
      /\ Holds(F, s, c)
  BY <1>2, <1>3, ToppingFacts
<1>5. c = [k \in Keys |-> c[k]]
  BY <1>4
<1>6. PICK F1 : F1 = files'
  OBVIOUS
<1>7. DOMAIN F1 = DOMAIN F /\ \A f \in DOMAIN F : F1[f] = F[f]
  BY <1>1, <1>4, <1>6 DEF ToppingFiles, Elsewhere
<1> HIDE DEF c
<1>8. Tree(F1, kmem.mkey, s, h, {}) /\ Holds(F1, s, c)
  BY <1>4, <1>7, SameFiles
<1>9. TreeInv' /\ Promised' = c
  BY <1>1, <1>5, <1>6, <1>8, Ended DEF Next, Step
<1> QED  BY <1>1, <1>4, <1>9 DEF c

(* The tree is the same as long as the operation and the words in memory are. *)
LEMMA SoundSame ==
    ASSUME op' = op, kmem' = kmem, NEW G, NEW F, NEW s, NEW h, Sound(G, F, s, h)
    PROVE  Sound(G, F, s, h)'
<1>1. Root' = Root /\ Big' = Big
  BY DEF Root, Big, Moving, Rising
<1>2. Tree(F, Root, s, h, Big)'
  BY <1>1 DEF Sound
<1>3. OnDisk(G, F, h)'
  BY DEF Sound, OnDisk, AtRest, Elsewhere, MovingFiles, AddingFiles, HalvingFiles, ToppingFiles, Moving, Halving, Topping
<1>4. Where(F, s, h)'
  BY DEF Sound, Where, Descending, Rising, Topping
<1>5. Stores(F, s)'
  BY DEF Sound, Stores, After
<1> QED  BY <1>2, <1>3, <1>4, <1>5 DEF Sound

(* So are the words and stages.                                               *)
LEMMA WordsSame ==
    ASSUME Words, Stages, op' = op, kmem' = kmem, keyfile' \in { keyfile, kmem },
           kmem \in [mkey : Fkeys, fkey : Fkeys],
           up' \in BOOLEAN, crashed' \in BOOLEAN, crashed' => ~up'
    PROVE  Words' /\ Stages'
BY DEF Words, Stages, Descending, Rising, Topping

(* Closing and opening the tree, and a crash, keep the invariant and what is  *)
(* stored.                                                                    *)
LEMMA SessionTree ==
    ASSUME TreeInv, Close \/ Open \/ Crash \/ UNCHANGED vars
    PROVE  TreeInv' /\ Promised' = Promised
<1>1. kmem \in [mkey : Fkeys, fkey : Fkeys] /\ Words /\ Stages
  BY NextFileIsNew DEF TreeInv, FileInv, KeyWords, Words
<1>2. op' = op /\ kmem' = kmem /\ keyfile' \in { keyfile, kmem }
  <2>1. CASE Close
    BY <2>1 DEF Close
  <2>2. CASE Open
    BY <2>2 DEF Open, TreeInv, FileInv, Flushed
  <2>3. CASE Crash
    BY <2>3 DEF Crash
  <2>4. CASE UNCHANGED vars
    BY <2>4 DEF vars
  <2> QED  BY <2>1, <2>2, <2>3, <2>4
<1>3. up' \in BOOLEAN /\ crashed' \in BOOLEAN /\ (crashed' => ~up')
  <2>1. up \in BOOLEAN /\ crashed \in BOOLEAN /\ (crashed => ~up)
    BY <1>1 DEF Words
  <2>2. CASE Close
    <3>1. up' = FALSE /\ crashed' = crashed
      BY <2>2 DEF Close
    <3> QED  BY <2>1, <3>1
  <2>3. CASE Open
    <3>1. up' = TRUE /\ crashed' = crashed /\ ~crashed
      BY <2>3 DEF Open
    <3> QED  BY <2>1, <3>1
  <2>4. CASE Crash
    <3>1. up' = FALSE /\ crashed' = TRUE
      BY <2>4 DEF Crash
    <3> QED  BY <3>1
  <2>5. CASE UNCHANGED vars
    <3>1. up' = up /\ crashed' = crashed
      BY <2>5 DEF vars
    <3> QED  BY <2>1, <3>1
  <2> QED  BY <2>2, <2>3, <2>4, <2>5
<1>4. Words' /\ Stages'
  BY <1>1, <1>2, <1>3, WordsSame
<1>5. FileInv'
  <2>1. [Next]_vars
    BY DEF Next
  <2> QED  BY <2>1, FileInvNext DEF TreeInv
<1>6. PICK G, F, s, h : Left(G) /\ Sound(G, F, s, h)
  BY DEF TreeInv
<1>7. Sound(G, F, s, h)'
  BY <1>2, <1>6, SoundSame
<1>8. Left(G)'
  <2>1. CASE files' = files /\ (crashed => crashed')
    BY <1>2, <1>6, <2>1 DEF Left
  <2>2. CASE Crash /\ files' # files
    <3>1. up /\ crashed' /\ WritingNext /\ files' = [files EXCEPT ![op.node] = Bad]
      BY <2>2 DEF Crash
    <3>2. files = G
      BY <1>1, <1>6, <3>1 DEF Left, Words
    <3>3. op.at # "idle" /\ (Descending \/ Rising \/ Topping)
      BY <1>1, <3>1 DEF WritingNext, Stages
    <3>4. op.node \in DOMAIN G
      <4>1. CASE Descending \/ Rising
        BY <1>1, <1>6, <4>1, FilesApart
      <4>2. CASE Topping
        BY <1>6, <4>2, ToppingFacts DEF ToppingFiles
      <4> QED  BY <3>3, <4>1, <4>2
    <3> QED  BY <1>2, <3>1, <3>2, <3>3, <3>4 DEF Left
  <2>3. CASE Close
    <3>1. files' = files /\ crashed' = crashed
      BY <2>3 DEF Close
    <3> QED  BY <2>1, <3>1
  <2>4. CASE Open
    <3>1. files' = files /\ crashed' = crashed
      BY <2>4 DEF Open
    <3> QED  BY <2>1, <3>1
  <2>5. CASE Crash
    <3>1. crashed' = TRUE
      BY <2>5 DEF Crash
    <3> QED  BY <2>1, <2>2, <2>5, <3>1
  <2>6. CASE UNCHANGED vars
    <3>1. files' = files /\ crashed' = crashed
      BY <2>6 DEF vars
    <3> QED  BY <2>1, <3>1
  <2> QED  BY <2>3, <2>4, <2>5, <2>6
<1>9. TreeInv'
  BY <1>4, <1>5, <1>7, <1>8 DEF TreeInv
<1>10. Promised' = Promised
  <2>1. CASE op = Idle
    <3>1. op.at = "idle" /\ op'.at = "idle"
      BY <1>2, <2>1, IdleFacts
    <3>2. files = G /\ files' = G
      BY <1>6, <1>8, <3>1 DEF Left
    <3>3. Contents(kmem.mkey) = ContentsIn(files, kmem.mkey)
      BY ContentsIsIn
    <3>4. Contents(kmem.mkey)' = ContentsIn(files', kmem'.mkey)
      BY ContentsNext
    <3> QED  BY <1>2, <2>1, <3>2, <3>3, <3>4 DEF Promised
  <2>2. CASE op # Idle
    BY <1>2, <2>2 DEF Promised
  <2> QED  BY <2>1, <2>2
<1> QED  BY <1>9, <1>10

-----------------------------------------------------------------------------
(* Every step keeps the invariant, and changes what is stored at most under the  *)
(* key of the operation that ends.                                               *)
Puts ==
    \/ Promised' = Promised
    \/ \E k \in Keys, r \in Records \cup {DELE} : Promised' = [Promised EXCEPT ![k] = Stored(r)]

(* So does each step of bt_addrecord, and only the one that ends it changes   *)
(* what is stored.                                                            *)
LEMMA StepOf == TreeInv /\ Step => TreeInv' /\ Puts
<1> SUFFICES ASSUME TreeInv, Step PROVE TreeInv' /\ Puts
  OBVIOUS
<1>1. op # Idle
  <2>1. op.at # "idle"
    BY DEF Step, Descend, RewriteBlock, SplitBlock, Unlink, Rename, RenameExtra, AddKey, SplitIndex,
           PutIndex, PutNewdex, CreateMaster, NewMaster, WriteMaster
  <2> QED  BY <2>1, IdleFacts
<1>2. Promised = op.before
  BY <1>1 DEF Promised
<1>3. ASSUME TreeInv', op' # Idle, op'.before = op.before
      PROVE  TreeInv' /\ Puts
  BY <1>2, <1>3 DEF Puts, Promised
<1>4. ASSUME TreeInv', op.key \in Keys, op.rec \in Records \cup {DELE},
             Promised' = [op.before EXCEPT ![op.key] = Stored(op.rec)]
      PROVE  TreeInv' /\ Puts
  BY <1>2, <1>4 DEF Puts
<1>5. ASSUME op'.at \in { "descend", "unlink" }
      PROVE  op' # Idle
  BY <1>5, IdleFacts
<1>6. CASE Descend
  <2>1. op'.at = "descend" /\ op'.before = op.before
    BY <1>6, OpFields DEF Descend, TreeInv
  <2> QED  BY <1>3, <1>5, <1>6, <2>1, DescendTree
<1>7. CASE RewriteBlock
  <2>1. op'.at = "unlink" /\ op'.before = op.before
    BY <1>7, OpFields DEF RewriteBlock, TreeInv
  <2> QED  BY <1>3, <1>5, <1>7, <2>1, RewriteBlockTree
<1>8. CASE SplitBlock
  <2>1. op'.at = "unlink" /\ op'.before = op.before
    <3>1. PICK l, r, e, x : op' = [op EXCEPT !.at = "unlink", !.left = l, !.right = r, !.extra = e, !.sep = x]
      BY <1>8 DEF SplitBlock
    <3> QED  BY <3>1, OpFields DEF TreeInv
  <2> QED  BY <1>3, <1>5, <1>8, <2>1, SplitBlockTree
<1>9. CASE Unlink
  <2>1. op'.at = "rename" /\ op'.before = op.before
    BY <1>9, OpFields DEF Unlink, TreeInv
  <2> QED  BY <1>3, <1>9, <2>1, UnlinkTree, IdleFacts
<1>10. CASE Rename
  BY <1>3, <1>4, <1>10, RenameTree
<1>11. CASE RenameExtra
  BY <1>3, <1>11, RenameExtraTree
<1>12. CASE AddKey
  BY <1>4, <1>12, AddKeyTree
<1>13. CASE SplitIndex
  BY <1>3, <1>13, SplitIndexTree
<1>14. CASE PutIndex
  BY <1>3, <1>14, PutIndexTree
<1>15. CASE PutNewdex
  BY <1>3, <1>15, NewMasterNext, KeyGoesUp
<1>16. CASE CreateMaster
  BY <1>3, <1>16, CreateMasterTree
<1>17. CASE NewMaster
  BY <1>3, <1>17, NewMasterTree
<1>18. CASE WriteMaster
  BY <1>4, <1>18, WriteMasterTree
<1> QED  BY <1>6, <1>7, <1>8, <1>9, <1>10, <1>11, <1>12, <1>13, <1>14, <1>15, <1>16, <1>17, <1>18 DEF Step

(* To begin an operation does not change what is stored.                      *)
LEMMA StoreKeeps ==
    ASSUME NEW k \in Keys, NEW r \in Records \cup {DELE}, Store(k, r)
    PROVE  Promised' = Promised
<1> DEFINE c == Contents(kmem.mkey)
<1>1. op = Idle /\ op' = [Idle EXCEPT !.at = "descend", !.key = k, !.rec = r, !.before = c,
                                      !.node = kmem.mkey, !.span = Keys]
  BY DEF Store
<1> HIDE DEF c
<1>2. op'.at = "descend" /\ op'.before = c
  BY <1>1 DEF Idle
<1>3. op' # Idle
  BY <1>2, IdleFacts
<1> QED  BY <1>1, <1>2, <1>3 DEF Promised, c

(* The invariant is inductive.                                                *)
LEMMA TreeInvNext == TreeInv /\ [Next]_vars => TreeInv' /\ Puts
<1> SUFFICES ASSUME TreeInv, [Next]_vars PROVE TreeInv' /\ Puts
  OBVIOUS
<1>1. CASE \E k \in Keys, r \in Records \cup {DELE} : Store(k, r)
  BY <1>1, StoreTree, StoreKeeps DEF Puts
<1>2. CASE Step
  BY <1>2, StepOf
<1>3. CASE Close \/ Open \/ Crash \/ UNCHANGED vars
  BY <1>3, SessionTree DEF Puts
<1> QED  BY <1>1, <1>2, <1>3 DEF Next

(* The inductive invariant of the block tree: at every step of bt_addrecord,  *)
(* of a session and of a crash, the files stand for a tree with the record to *)
(* be stored in it.                                                           *)
THEOREM TreeIsKept == Spec => []TreeInv
BY TreeInit, TreeInvNext, PTL DEF Spec

(* The property TreeSound, for every set of keys and records and every size   *)
(* of block and index: no split loses a node, links it twice or unbalances    *)
(* the tree (btree/addkey.c, btree/btrec.c), and the checks of the code that  *)
(* end the program never fail, although the parents that lead a split upwards *)
(* are only brought up to date on the way down.                               *)
THEOREM TreeStaysSound == Spec => []TreeSound
BY TreeIsKept, InvTreeSound, PTL

(* The property DamageConfined: a process that dies in bt_addrecord leaves    *)
(* every record outside the span of the node it was changing to be read as    *)
(* before, unless "key" names an older master.                                *)
THEOREM DamageStaysConfined == Spec => []DamageConfined
BY TreeIsKept, InvDamage, PTL

-----------------------------------------------------------------------------
(* The tree implements the key-value store.                                       *)

(* A database that was just created holds nothing.                            *)
LEMMA NothingStored == Init => KV!Init
<1> SUFFICES ASSUME Init PROVE Promised = [k \in Keys |-> None]
  BY DEF KV!Init
<1> DEFINE c == [k \in Keys |-> None]
<1>1. op = Idle /\ kmem.mkey = << 0, 0 >>
  BY DEF Init
<1>2. << 0, 0 >> \in Fkeys /\ << 1, 0 >> \in Fkeys /\ << 0, 0 >> # << 1, 0 >>
  BY DEF Fkeys
<1>3. /\ DOMAIN files = { << 0, 0 >>, << 1, 0 >> }
      /\ files[<< 0, 0 >>] = Index(NoParent, << >>, << << 1, 0 >> >>)
      /\ files[<< 1, 0 >>] = Block(<< >>, << >>)
  BY <1>2 DEF Init
<1>4. PICK s, h : Tree(files, << 0, 0 >>, s, h, {})
  BY <1>2, <1>3, NewTree
<1>5. Holds(files, s, c)
  <2> SUFFICES ASSUME NEW f \in DOMAIN files, files[f].type = "block", NEW k \in Keys
               PROVE  ValueIn(files[f], k) = None
    BY DEF Holds
  <2>1. files[<< 0, 0 >>].type = "index"
    BY <1>3 DEF Index
  <2>2. files[f] = Block(<< >>, << >>)
    BY <1>3, <2>1
  <2>3. files[f].keys = << >>
    BY <2>2 DEF Block
  <2>4. ~HasKey(files[f], k)
    <3>1. \A i \in 1..Len(<< >>) : FALSE
      OBVIOUS
    <3> QED  BY <2>3, <3>1 DEF HasKey, Contains
  <2> QED  BY <2>4 DEF ValueIn
<1>6. ContentsIn(files, << 0, 0 >>) = c
  <2>1. c = [k \in Keys |-> c[k]]
    OBVIOUS
  <2> HIDE DEF c
  <2> QED  BY <1>4, <1>5, <2>1, ContentsAre
<1> QED  BY <1>1, <1>6, ContentsIsIn DEF Promised

(* A step stores one record, or nothing: it is a step of the key-value store. *)
LEMMA StoresOneKey == TreeInv /\ [Next]_vars => [KV!Next]_Promised
<1> SUFFICES ASSUME TreeInv, [Next]_vars, Promised' # Promised PROVE KV!Next
  OBVIOUS
<1>1. PICK k \in Keys, r \in Records \cup {DELE} : Promised' = [Promised EXCEPT ![k] = Stored(r)]
  BY TreeInvNext DEF Puts
<1>2. Stored(r) \in Records \cup {None}
  BY DEF Stored
<1> QED  BY <1>1, <1>2 DEF KV!Next, KV!Put

(* The block tree implements the key-value store: every bt_addrecord, however *)
(* many files it writes, changes what is stored once, when it ends, and under *)
(* its own key only.                                                          *)
THEOREM TreeIsAStore == Spec => ImplementsKVStore
<1>1. Init => KV!Init
  BY NothingStored
<1>2. TreeInv /\ [Next]_vars => [KV!Next]_Promised
  BY StoresOneKey
<1> QED  BY <1>1, <1>2, TreeIsKept, PTL DEF Spec, ImplementsKVStore, KV!Spec

-----------------------------------------------------------------------------
(* Traversals.                                                                   *)

(* k is in the list t.                                                        *)
Has(t, k) == \E i \in 1..Len(t) : t[i] = k

(* To join two ascending lists, the first of which ends below where the       *)
(* second begins.                                                             *)
LEMMA ConcatAscending ==
    ASSUME NEW a \in Seq(Nat), NEW b \in Seq(Nat), Ascending(a), Ascending(b),
           \A i \in 1..Len(a), j \in 1..Len(b) : a[i] < b[j]
    PROVE  /\ a \o b \in Seq(Nat) /\ Ascending(a \o b)
           /\ \A k : Has(a \o b, k) <=> Has(a, k) \/ Has(b, k)
<1> DEFINE c == a \o b
           m == Len(a)
           n == Len(b)
<1>1. m \in Nat /\ n \in Nat /\ (\A i \in 1..m : a[i] \in Nat) /\ (\A i \in 1..n : b[i] \in Nat)
  OBVIOUS
<1>2. /\ c \in Seq(Nat) /\ Len(c) = m + n
      /\ \A i \in 1..(m + n) : c[i] = IF i <= m THEN a[i] ELSE b[i - m]
  BY ConcatProperties
<1> HIDE DEF c, m, n
<1>3. \A i \in 1..m : i \in 1..(m + n) /\ c[i] = a[i]
  BY <1>1, <1>2
<1>4. \A i \in 1..n : m + i \in 1..(m + n) /\ c[m + i] = b[i]
  <2> TAKE i \in 1..n
  <2>1. m + i \in 1..(m + n) /\ ~(m + i <= m) /\ (m + i) - m = i
    BY <1>1
  <2> QED  BY <1>2, <2>1
<1>5. ASSUME NEW i \in 1..(m + n), NEW j \in 1..(m + n), i < j
      PROVE  c[i] < c[j]
  <2>1. CASE j <= m
    <3>1. i \in 1..m /\ j \in 1..m
      BY <1>1, <1>5, <2>1
    <3>2. a[i] < a[j]
      BY <1>5, <3>1 DEF Ascending, m
    <3> QED  BY <1>3, <3>1, <3>2
  <2>2. CASE i <= m /\ ~(j <= m)
    <3>1. i \in 1..m /\ j - m \in 1..n /\ m + (j - m) = j
      BY <1>1, <2>2
    <3>2. a[i] < b[j - m]
      BY <3>1 DEF m, n
    <3>3. c[j] = b[j - m]
      BY <1>4, <3>1
    <3> QED  BY <1>3, <3>1, <3>2, <3>3
  <2>3. CASE ~(i <= m)
    <3>1. i - m \in 1..n /\ j - m \in 1..n /\ m + (i - m) = i /\ m + (j - m) = j /\ i - m < j - m
      BY <1>1, <1>5, <2>3
    <3>2. b[i - m] < b[j - m]
      BY <3>1 DEF Ascending, n
    <3>3. c[i] = b[i - m] /\ c[j] = b[j - m]
      BY <1>4, <3>1
    <3> QED  BY <3>2, <3>3
  <2> QED  BY <2>1, <2>2, <2>3
<1>6. Ascending(c)
  BY <1>2, <1>5 DEF Ascending
<1>7. ASSUME NEW k
      PROVE  Has(c, k) <=> Has(a, k) \/ Has(b, k)
  <2>1. ASSUME Has(a, k) PROVE Has(c, k)
    <3>1. PICK i \in 1..m : a[i] = k
      BY <2>1 DEF Has, m
    <3> QED  BY <1>2, <1>3, <3>1 DEF Has
  <2>2. ASSUME Has(b, k) PROVE Has(c, k)
    <3>1. PICK i \in 1..n : b[i] = k
      BY <2>2 DEF Has, n
    <3> QED  BY <1>2, <1>4, <3>1 DEF Has
  <2>3. ASSUME Has(c, k) PROVE Has(a, k) \/ Has(b, k)
    <3>1. PICK i \in 1..(m + n) : c[i] = k
      BY <1>2, <2>3 DEF Has
    <3>2. CASE i <= m
      <4>1. i \in 1..m
        BY <1>1, <3>2
      <4> QED  BY <1>3, <3>1, <4>1 DEF Has, m
    <3>3. CASE ~(i <= m)
      <4>1. i - m \in 1..n /\ m + (i - m) = i
        BY <1>1, <3>3
      <4>2. b[i - m] = k
        BY <1>4, <3>1, <4>1
      <4> QED  BY <4>1, <4>2 DEF Has, n
    <3> QED  BY <3>2, <3>3
  <2> QED  BY <2>1, <2>2, <2>3
<1> QED  BY <1>2, <1>6, <1>7 DEF c

(* The recursive function of FlattenSeq, and what solves its equation up to m.    *)
Joined(q, g, i) == IF i = 1 THEN q[i] ELSE g[i - 1] \o q[i]

Flat(q, g) == g = [i \in 1..Len(q) |-> Joined(q, g, i)]

FlatTo(q, g, m) == \A i \in 1..m : g[i] = Joined(q, g, i)

(* FlattenSeq is the solution of that equation.                               *)
LEMMA FlattenIsFlat ==
    ASSUME NEW q, Len(q) # 0
    PROVE  FlattenSeq(q) = (CHOOSE g : Flat(q, g))[Len(q)]
BY DEF FlattenSeq, Flat, Joined

(* It has one: what solves it up to m - 1 can be extended to m.               *)
LEMMA SomeFlat ==
    ASSUME NEW q, NEW n \in Nat, n = Len(q)
    PROVE  \E g : Flat(q, g)
<1> DEFINE bad == { m \in Nat : m <= n /\ ~ \E g : FlatTo(q, g, m) }
<1>1. bad = {}
  <2> SUFFICES ASSUME bad # {} PROVE FALSE
    OBVIOUS
  <2>1. PICK m \in bad : \A x \in bad : m <= x
    <3>1. bad \in SUBSET Nat
      OBVIOUS
    <3> HIDE DEF bad
    <3> QED  BY <3>1, SmallestExists
  <2>2. m \in Nat /\ m <= n /\ ~ \E g : FlatTo(q, g, m)
    BY <2>1
  <2>3. m # 0
    <3>1. \A g : FlatTo(q, g, 0)
      BY DEF FlatTo
    <3> QED  BY <2>2, <3>1
  <2>4. m - 1 \in Nat /\ m - 1 <= n /\ m - 1 \notin bad
    <3> HIDE DEF bad
    <3> QED  BY <2>1, <2>2, <2>3
  <2>5. PICK g : FlatTo(q, g, m - 1)
    BY <2>4
  <2> DEFINE e == [i \in 1..m |-> Joined(q, g, i)]
  <2>6. \A i \in 1..m : e[i] = Joined(q, g, i)
    OBVIOUS
  <2> HIDE DEF e, bad
  <2>7. \A i \in 1..m : i # m => i \in 1..(m - 1)
    BY <2>2
  <2>8. \A i \in 1..m : i # m => e[i] = g[i]
    BY <2>5, <2>6, <2>7 DEF FlatTo
  <2>9. \A i \in 1..m : Joined(q, e, i) = Joined(q, g, i)
    <3> TAKE i \in 1..m
    <3>1. i # 1 => i - 1 \in 1..m /\ i - 1 # m
      BY <2>2
    <3> QED  BY <2>8, <3>1 DEF Joined
  <2>10. FlatTo(q, e, m)
    BY <2>6, <2>9 DEF FlatTo
  <2> QED  BY <2>2, <2>10
<1>2. PICK g : FlatTo(q, g, n)
  BY <1>1
<1> DEFINE e == [i \in 1..n |-> Joined(q, g, i)]
<1>3. \A i \in 1..n : e[i] = g[i]
  BY <1>2 DEF FlatTo
<1>4. \A i \in 1..n : Joined(q, e, i) = Joined(q, g, i)
  <2> HIDE DEF e, bad
  <2> TAKE i \in 1..n
  <2>1. i # 1 => i - 1 \in 1..n
    OBVIOUS
  <2> QED  BY <1>3, <2>1 DEF Joined
<1>5. PICK y : y = e
  OBVIOUS
<1>6. \A i \in 1..n : Joined(q, y, i) = Joined(q, g, i)
  BY <1>4, <1>5
<1>7. e = [i \in 1..n |-> Joined(q, y, i)]
  <2> HIDE <1>5
  <2> QED  BY <1>6
<1> HIDE DEF e
<1> QED  BY <1>5, <1>7 DEF Flat

(* Ascending lists, each of which ends below where the next begins.               *)
InOrder(q) ==
    /\ q \in Seq(Seq(Nat))
    /\ \A i \in 1..Len(q) : Ascending(q[i])
    /\ \A i, j \in 1..Len(q) : i < j => \A a \in 1..Len(q[i]), b \in 1..Len(q[j]) : q[i][a] < q[j][b]

(* t lists what the first m lists of q do, in ascending order.                *)
JoinedTo(q, t, m) ==
    /\ t \in Seq(Nat) /\ Ascending(t)
    /\ \A k : Has(t, k) <=> \E i \in 1..m : Has(q[i], k)

(* One list more.                                                             *)
LEMMA JoinedOne ==
    ASSUME NEW q, InOrder(q), NEW t, NEW m \in 1..Len(q), m # 1, JoinedTo(q, t, m - 1)
    PROVE  JoinedTo(q, t \o q[m], m)
<1> DEFINE n == Len(q)
<1>1. n \in Nat /\ m \in 1..n /\ q[m] \in Seq(Nat) /\ Ascending(q[m]) /\ t \in Seq(Nat) /\ Ascending(t)
  BY DEF InOrder, JoinedTo
<1>2. ASSUME NEW i \in 1..Len(t), NEW j \in 1..Len(q[m])
      PROVE  t[i] < q[m][j]
  <2>1. Has(t, t[i])
    BY DEF Has
  <2>2. PICK l \in 1..(m - 1) : Has(q[l], t[i])
    BY <2>1 DEF JoinedTo
  <2>3. PICK a \in 1..Len(q[l]) : q[l][a] = t[i]
    BY <2>2 DEF Has
  <2>4. l \in 1..n /\ l < m
    <3> HIDE DEF n
    <3> QED  BY <1>1
  <2>5. q[l][a] < q[m][j]
    BY <2>4 DEF InOrder
  <2> QED  BY <2>3, <2>5
<1>3. /\ t \o q[m] \in Seq(Nat) /\ Ascending(t \o q[m])
      /\ \A k : Has(t \o q[m], k) <=> Has(t, k) \/ Has(q[m], k)
  BY <1>1, <1>2, ConcatAscending
<1>4. ASSUME NEW k
      PROVE  Has(t, k) \/ Has(q[m], k) <=> \E i \in 1..m : Has(q[i], k)
  <2>1. Has(t, k) <=> \E i \in 1..(m - 1) : Has(q[i], k)
    BY DEF JoinedTo
  <2>2. \A i : i \in 1..m <=> i \in 1..(m - 1) \/ i = m
    <3> HIDE DEF n
    <3> QED  BY <1>1
  <2> QED  BY <2>1, <2>2
<1> QED  BY <1>3, <1>4 DEF JoinedTo

(* Lists in order, joined, are one ascending list with the same members.      *)
LEMMA FlattenIs ==
    ASSUME NEW q, InOrder(q)
    PROVE  JoinedTo(q, FlattenSeq(q), Len(q))
<1> DEFINE n == Len(q)
<1>1. n \in Nat /\ q \in Seq(Seq(Nat))
  BY DEF InOrder
<1>2. CASE n = 0
  <2>1. FlattenSeq(q) = << >>
    BY <1>1, <1>2 DEF FlattenSeq
  <2>2. << >> \in Seq(Nat) /\ Len(<< >>) = 0 /\ (\A i \in 1..0 : FALSE)
    OBVIOUS
  <2>3. Ascending(<< >>) /\ \A k : ~Has(<< >>, k)
    BY <2>2 DEF Ascending, Has
  <2> QED  BY <1>2, <2>1, <2>2, <2>3 DEF JoinedTo
<1>3. CASE n # 0
  <2>1. PICK g : Flat(q, g) /\ FlattenSeq(q) = g[n]
    <3>1. \E g : Flat(q, g)
      BY <1>1, SomeFlat
    <3>2. Flat(q, CHOOSE g : Flat(q, g))
      BY <3>1
    <3> QED  BY <1>3, <3>2, FlattenIsFlat
  <2>2. \A i \in 1..n : g[i] = Joined(q, g, i)
    BY <2>1 DEF Flat
  <2> DEFINE bad == { m \in Nat : m \in 1..n /\ ~JoinedTo(q, g[m], m) }
  <2>3. bad = {}
    <3> SUFFICES ASSUME bad # {} PROVE FALSE
      OBVIOUS
    <3>1. PICK m \in bad : \A x \in bad : m <= x
      <4>1. bad \in SUBSET Nat
        OBVIOUS
      <4> HIDE DEF bad
      <4> QED  BY <4>1, SmallestExists
    <3>2. m \in 1..n /\ ~JoinedTo(q, g[m], m)
      BY <3>1
    <3>3. CASE m = 1
      <4>1. g[1] = q[1]
        BY <2>2, <3>2, <3>3 DEF Joined
      <4>2. q[1] \in Seq(Nat) /\ Ascending(q[1])
        BY <3>2, <3>3 DEF InOrder
      <4>3. JoinedTo(q, q[1], 1)
        <5>1. \A i : i \in 1..1 <=> i = 1
          OBVIOUS
        <5> QED  BY <4>2, <5>1 DEF JoinedTo
      <4> QED  BY <3>2, <3>3, <4>1, <4>3
    <3>4. CASE m # 1
      <4> HIDE DEF bad
      <4>1. m - 1 \in 1..n /\ m - 1 \in Nat /\ ~(m <= m - 1)
        <5> HIDE DEF n
        <5> QED  BY <1>1, <3>2, <3>4
      <4>2. m - 1 \notin bad
        BY <3>1, <4>1
      <4>3. JoinedTo(q, g[m - 1], m - 1)
        BY <4>1, <4>2 DEF bad
      <4>4. g[m] = g[m - 1] \o q[m]
        BY <2>2, <3>2, <3>4 DEF Joined
      <4> QED  BY <3>2, <3>4, <4>3, <4>4, JoinedOne
    <3> QED  BY <3>3, <3>4
  <2>4. n \in 1..n /\ n \in Nat
    <3> HIDE DEF n, bad
    <3> QED  BY <1>1, <1>3
  <2>5. JoinedTo(q, g[n], n)
    BY <2>3, <2>4
  <2> QED  BY <2>1, <2>5
<1> QED  BY <1>2, <1>3

(* Traverse, from any node, with what it returns for the children.                *)
Pieces(ix, lo, hi, d) ==
    [ i \in 1..Len(ix.kids) |-> IF i \in Visited(ix, lo, hi) THEN d[ix.kids[i]] ELSE << >> ]

TravFrom(F, lo, hi, d, f) ==
    IF F[f].type = "block" THEN TraverseBlock(F[f], lo, hi) ELSE FlattenSeq(Pieces(F[f], lo, hi, d))

Traverses(F, lo, hi, d) == d = [f \in DOMAIN F |-> TravFrom(F, lo, hi, d, f)]

(* Traverse is the solution of the equation at the master.                    *)
LEMMA TraverseIs == \A lo, hi : Traverse(lo, hi) = (CHOOSE d : Traverses(files, lo, hi, d))[kmem.mkey]
BY DEF Traverse, Traverses, TravFrom, Pieces

(* What a traversal of f returns depends on what those of its children do.    *)
TravSame ==
    \A F, lo, hi, d, e, f :
       (F[f].type # "block" => \A i \in 1..Len(F[f].kids) : d[F[f].kids[i]] = e[F[f].kids[i]])
       => TravFrom(F, lo, hi, d, f) = TravFrom(F, lo, hi, e, f)

(* That it does.                                                              *)
LEMMA TravSameHolds == TravSame
<1> SUFFICES ASSUME NEW F, NEW lo, NEW hi, NEW d, NEW e, NEW f,
                    F[f].type # "block" => \A i \in 1..Len(F[f].kids) : d[F[f].kids[i]] = e[F[f].kids[i]]
             PROVE  TravFrom(F, lo, hi, d, f) = TravFrom(F, lo, hi, e, f)
  BY DEF TravSame
<1>1. CASE F[f].type = "block"
  BY <1>1 DEF TravFrom
<1>2. CASE F[f].type # "block"
  <2>1. Pieces(F[f], lo, hi, d) = Pieces(F[f], lo, hi, e)
    BY <1>2 DEF Pieces
  <2> QED  BY <1>2, <2>1 DEF TravFrom
<1> QED  BY <1>1, <1>2

(* d solves the equation below rank m.                                        *)
TravBelow(F, lo, hi, h, d, m) ==
    \A f \in DOMAIN F : h[f] < m => d[f] = TravFrom(F, lo, hi, d, f)

(* The equation has a solution in a tree: that below the rank of the root and *)
(* one.                                                                       *)
LEMMA SomeTraverses ==
    ASSUME NEW F, NEW root, NEW s, NEW h, NEW big, Tree(F, root, s, h, big), NEW lo, NEW hi
    PROVE  \E d : Traverses(F, lo, hi, d)
<1> DEFINE bad == { m \in Nat : ~ \E d : TravBelow(F, lo, hi, h, d, m) }
<1>1. \A f \in DOMAIN F : h[f] \in Nat /\ h[f] < h[root] + 1 /\ h[root] + 1 \in Nat
  <2>1. root \in DOMAIN F /\ h[root] \in Nat
    BY DEF Tree, Frame
  <2> QED  BY <2>1, NodeKinds
<1>2. \A f \in DOMAIN F : F[f].type # "block" =>
        \A i \in 1..Len(F[f].kids) : F[f].kids[i] \in DOMAIN F /\ h[F[f].kids[i]] < h[f]
  <2> SUFFICES ASSUME NEW f \in DOMAIN F, F[f].type # "block", NEW i \in 1..Len(F[f].kids)
               PROVE  F[f].kids[i] \in DOMAIN F /\ h[F[f].kids[i]] < h[f]
    OBVIOUS
  <2>1. F[f].type = "index"
    BY NodeKinds
  <2>2. F[f].kids[i] \in DOMAIN F /\ h[F[f].kids[i]] + 1 = h[f]
    BY <2>1, KidIs
  <2> QED  BY <1>1, <2>2
<1>3. bad = {}
  <2> SUFFICES ASSUME bad # {} PROVE FALSE
    OBVIOUS
  <2>1. PICK m \in bad : \A x \in bad : m <= x
    <3>1. bad \in SUBSET Nat
      OBVIOUS
    <3> HIDE DEF bad
    <3> QED  BY <3>1, SmallestExists
  <2>2. m \in Nat /\ ~ \E d : TravBelow(F, lo, hi, h, d, m)
    BY <2>1
  <2>3. m # 0
    <3>1. \A d : TravBelow(F, lo, hi, h, d, 0)
      BY <1>1 DEF TravBelow
    <3> QED  BY <2>2, <3>1
  <2>4. m - 1 \in Nat /\ m - 1 \notin bad
    <3> HIDE DEF bad
    <3> QED  BY <2>1, <2>2, <2>3
  <2>5. PICK d : TravBelow(F, lo, hi, h, d, m - 1)
    BY <2>4
  <2> DEFINE e == [f \in DOMAIN F |-> TravFrom(F, lo, hi, d, f)]
  <2>6. \A f \in DOMAIN F : e[f] = TravFrom(F, lo, hi, d, f)
    OBVIOUS
  <2> HIDE DEF e, bad
  <2>7. \A f \in DOMAIN F : h[f] < m - 1 => e[f] = d[f]
    BY <2>5, <2>6 DEF TravBelow
  <2>8. ASSUME NEW f \in DOMAIN F, h[f] < m
        PROVE  e[f] = TravFrom(F, lo, hi, e, f)
    <3>1. F[f].type # "block" => \A i \in 1..Len(F[f].kids) : e[F[f].kids[i]] = d[F[f].kids[i]]
      <4> SUFFICES ASSUME F[f].type # "block", NEW i \in 1..Len(F[f].kids)
                   PROVE  e[F[f].kids[i]] = d[F[f].kids[i]]
        OBVIOUS
      <4>1. F[f].kids[i] \in DOMAIN F /\ h[F[f].kids[i]] < h[f]
        BY <1>2
      <4>2. h[F[f].kids[i]] < m - 1
        BY <1>1, <2>2, <2>8, <4>1
      <4> QED  BY <2>7, <4>1, <4>2
    <3> QED  BY <2>6, <3>1, TravSameHolds DEF TravSame
  <2>9. TravBelow(F, lo, hi, h, e, m)
    BY <2>8 DEF TravBelow
  <2> QED  BY <2>2, <2>9
<1>4. PICK d : \A f \in DOMAIN F : d[f] = TravFrom(F, lo, hi, d, f)
  <2>1. h[root] + 1 \in Nat
    BY <1>1 DEF Tree, Frame
  <2>2. PICK d : TravBelow(F, lo, hi, h, d, h[root] + 1)
    BY <1>3, <2>1
  <2> QED  BY <1>1, <2>2 DEF TravBelow
<1> DEFINE e == [f \in DOMAIN F |-> TravFrom(F, lo, hi, d, f)]
<1>5. \A f \in DOMAIN F : e[f] = d[f]
  BY <1>4
<1>6. \A f \in DOMAIN F : TravFrom(F, lo, hi, e, f) = TravFrom(F, lo, hi, d, f)
  <2> HIDE DEF e, bad
  <2> TAKE f \in DOMAIN F
  <2>1. F[f].type # "block" => \A i \in 1..Len(F[f].kids) : e[F[f].kids[i]] = d[F[f].kids[i]]
    BY <1>2, <1>5
  <2> QED  BY <2>1, TravSameHolds DEF TravSame
<1>7. PICK y : y = e
  OBVIOUS
<1>8. \A f \in DOMAIN F : TravFrom(F, lo, hi, y, f) = TravFrom(F, lo, hi, d, f)
  BY <1>6, <1>7
<1>9. e = [f \in DOMAIN F |-> TravFrom(F, lo, hi, y, f)]
  <2> HIDE <1>7
  <2> QED  BY <1>8
<1> HIDE DEF e
<1> QED  BY <1>7, <1>9 DEF Traverses

(* What a traversal of the part of the tree below f has to list.                  *)
StoredAt(F, k) == \E g \in DOMAIN F : F[g].type = "block" /\ Has(F[g].keys, k)

Between(lo, hi, k) == lo < k /\ (hi # 0 => k <= hi)

Lists(F, s, lo, hi, f, t) ==
    /\ t \in Seq(Nat) /\ Ascending(t)
    /\ \A k : Has(t, k) <=> k \in s[f] /\ StoredAt(F, k) /\ Between(lo, hi, k)

(* What is stored under a key in the span of a block is in the block.         *)
LEMMA StoredBelow ==
    ASSUME NEW F, NEW root, NEW s, NEW h, NEW big, Tree(F, root, s, h, big),
           NEW f \in DOMAIN F, F[f].type = "block", NEW k
    PROVE  Has(F[f].keys, k) <=> k \in s[f] /\ StoredAt(F, k)
<1>1. \A g \in DOMAIN F : F[g].type = "block" /\ Has(F[g].keys, k) => k \in s[g] /\ h[g] = 0
  BY NodeKinds DEF GoodBlock, Within, Has
<1>2. \A g \in DOMAIN F : F[g].type = "block" => h[g] = 0
  BY NodeKinds
<1>3. ASSUME k \in s[f], StoredAt(F, k)
      PROVE  Has(F[f].keys, k)
  <2>1. PICK g \in DOMAIN F : F[g].type = "block" /\ Has(F[g].keys, k)
    BY <1>3 DEF StoredAt
  <2>2. k \in s[g] /\ h[g] = h[f]
    BY <1>1, <1>2, <2>1
  <2>3. g = f
    BY <1>3, <2>2 DEF Tree, Frame, Spread
  <2> QED  BY <2>1, <2>3
<1> QED  BY <1>1, <1>3 DEF StoredAt

(* traverse_block lists what it has to.                                       *)
LEMMA ListsBlock ==
    ASSUME NEW F, NEW root, NEW s, NEW h, NEW big, Tree(F, root, s, h, big),
           NEW f \in DOMAIN F, F[f].type = "block", NEW lo \in Nat, NEW hi \in Nat
    PROVE  Lists(F, s, lo, hi, f, TraverseBlock(F[f], lo, hi))
<1> DEFINE b == F[f]
           q == [ i \in 1..Len(b.keys) |-> IF Between(lo, hi, b.keys[i]) THEN << b.keys[i] >> ELSE << >> ]
           n == Len(b.keys)
<1>1. BlockNode(b)
  BY NodeKinds DEF GoodBlock
<1>2. n \in Nat /\ (\A i \in 1..n : b.keys[i] \in Nat) /\ Ascending(b.keys)
  BY <1>1, BlockFacts
<1>3. TraverseBlock(b, lo, hi) = FlattenSeq(q)
  BY DEF TraverseBlock, Between
<1>4. Len(q) = n /\ \A i \in 1..n : q[i] = IF Between(lo, hi, b.keys[i]) THEN << b.keys[i] >> ELSE << >>
  <2> HIDE DEF b
  <2> QED  BY <1>2
<1> HIDE DEF n, b
<1>5. \A i \in 1..n : q[i] \in Seq(Nat)
  <2> TAKE i \in 1..n
  <2>1. << b.keys[i] >> \in Seq(Nat) /\ << >> \in Seq(Nat)
    BY <1>2
  <2> HIDE DEF q
  <2> QED  BY <1>4, <2>1
<1>6. q \in Seq(Seq(Nat))
  BY <1>2, <1>5 DEF n
<1> HIDE DEF q
<1>7. \A i \in 1..n : \A k : Has(q[i], k) <=> k = b.keys[i] /\ Between(lo, hi, k)
  <2> TAKE i \in 1..n
  <2> TAKE k
  <2>1. CASE Between(lo, hi, b.keys[i])
    <3>1. q[i] = << b.keys[i] >>
      BY <1>4, <2>1
    <3>2. Len(q[i]) = 1 /\ q[i][1] = b.keys[i]
      BY <3>1
    <3>3. \A j : j \in 1..1 <=> j = 1
      OBVIOUS
    <3> QED  BY <2>1, <3>2, <3>3 DEF Has
  <2>2. CASE ~Between(lo, hi, b.keys[i])
    <3>1. q[i] = << >>
      BY <1>4, <2>2
    <3>2. Len(q[i]) = 0 /\ \A j \in 1..0 : FALSE
      BY <3>1
    <3> QED  BY <2>2, <3>2 DEF Has
  <2> QED  BY <2>1, <2>2
<1>8. \A i \in 1..n : \A a \in 1..Len(q[i]) : q[i][a] = b.keys[i] /\ Len(q[i]) <= 1
  <2> TAKE i \in 1..n
  <2> TAKE a \in 1..Len(q[i])
  <2>1. q[i] = << b.keys[i] >> \/ q[i] = << >>
    BY <1>4
  <2>2. CASE q[i] = << b.keys[i] >>
    BY <2>2
  <2>3. CASE q[i] = << >>
    BY <2>3
  <2> QED  BY <2>1, <2>2, <2>3
<1>9. InOrder(q)
  <2>1. \A i \in 1..n : Ascending(q[i])
    <3> TAKE i \in 1..n
    <3>1. \A a, c \in 1..Len(q[i]) : ~(a < c)
      <4> TAKE a, c \in 1..Len(q[i])
      <4>1. Len(q[i]) \in Nat /\ Len(q[i]) <= 1
        BY <1>5, <1>8
      <4> QED  BY <4>1
    <3> QED  BY <3>1 DEF Ascending
  <2>2. ASSUME NEW i \in 1..n, NEW j \in 1..n, i < j, NEW a \in 1..Len(q[i]), NEW c \in 1..Len(q[j])
        PROVE  q[i][a] < q[j][c]
    <3>1. b.keys[i] < b.keys[j]
      BY <1>2, <2>2 DEF Ascending, n
    <3> QED  BY <1>8, <3>1
  <2> QED  BY <1>4, <1>6, <2>1, <2>2 DEF InOrder
<1>10. JoinedTo(q, FlattenSeq(q), n)
  BY <1>4, <1>9, FlattenIs
<1>11. ASSUME NEW k
       PROVE  Has(FlattenSeq(q), k) <=> k \in s[f] /\ StoredAt(F, k) /\ Between(lo, hi, k)
  <2>1. Has(FlattenSeq(q), k) <=> \E i \in 1..n : Has(q[i], k)
    BY <1>10 DEF JoinedTo
  <2>2. Has(b.keys, k) <=> k \in s[f] /\ StoredAt(F, k)
    BY StoredBelow DEF b
  <2>3. Has(b.keys, k) <=> \E i \in 1..n : k = b.keys[i]
    BY DEF Has, n
  <2> QED  BY <1>7, <2>1, <2>2, <2>3
<1>12. FlattenSeq(q) \in Seq(Nat) /\ Ascending(FlattenSeq(q))
  BY <1>10 DEF JoinedTo
<1>13. Lists(F, s, lo, hi, f, FlattenSeq(q))
  BY <1>11, <1>12 DEF Lists
<1> QED  BY <1>3, <1>13 DEF b

(* The loop of traverse_index passes by no child that a key within the bounds *)
(* leads to.                                                                  *)
LEMMA VisitsAll ==
    ASSUME NEW ix, IndexNode(ix), NEW lo \in Nat, NEW hi \in Nat, NEW k \in Nat, Between(lo, hi, k)
    PROVE  ChildAt(ix, k) \in Visited(ix, lo, hi)
<1> DEFINE n == Len(ix.keys)
           i == ChildAt(ix, k)
           c == ChildAt(ix, lo)
           start == IF lo = 0 THEN 1 ELSE c
<1>1. /\ n \in Nat /\ Len(ix.kids) = n + 1 /\ \A j \in 1..n : ix.keys[j] \in Nat
      /\ i \in 1..(n + 1) /\ c \in 1..(n + 1) /\ Parts(ix.keys, k, i) /\ Parts(ix.keys, lo, c)
  BY IndexFacts
<1> HIDE DEF n, i, c
<1>2. \A j \in 1..n : (j < i => ix.keys[j] <= k) /\ (j >= i => k < ix.keys[j])
  BY <1>1 DEF Parts, n
<1>3. \A j \in 1..n : j < c => ix.keys[j] <= lo
  BY <1>1 DEF Parts, n
<1>4. lo < k /\ (hi # 0 => k <= hi)
  BY DEF Between
<1>5. c <= i
  <2> SUFFICES ASSUME i < c PROVE FALSE
    BY <1>1
  <2>1. i \in 1..n
    BY <1>1
  <2>2. ix.keys[i] <= lo /\ k < ix.keys[i] /\ ix.keys[i] \in Nat
    BY <1>1, <1>2, <1>3, <2>1
  <2> QED  BY <1>4, <2>2
<1>6. start \in 1..i /\ i \in start..Len(ix.kids)
  BY <1>1, <1>5
<1>7. \A j \in start..i : j = 1 \/ hi = 0 \/ ix.keys[j - 1] <= hi
  <2> SUFFICES ASSUME NEW j \in start..i, j # 1, hi # 0 PROVE ix.keys[j - 1] <= hi
    OBVIOUS
  <2>1. j - 1 \in 1..n /\ j - 1 < i
    BY <1>1, <1>6
  <2>2. ix.keys[j - 1] <= k /\ ix.keys[j - 1] \in Nat
    BY <1>1, <1>2, <2>1
  <2> QED  BY <1>4, <2>2
<1>8. Visited(ix, lo, hi) = { l \in start..Len(ix.kids) :
                                \A j \in start..l : j = 1 \/ hi = 0 \/ ix.keys[j - 1] <= hi }
  BY DEF Visited, c
<1> HIDE DEF start
<1>9. i \in Visited(ix, lo, hi)
  BY <1>6, <1>7, <1>8
<1> QED  BY <1>9 DEF i

(* The spans of the children are in the order of the children.                *)
LEMMA SpansInOrder ==
    ASSUME NEW ix, IndexNode(ix), NEW S, NEW i \in 1..Len(ix.kids), NEW j \in 1..Len(ix.kids), i < j,
           NEW a \in Nat, a \in Span(ix, S, i), NEW b \in Nat, b \in Span(ix, S, j)
    PROVE  a < b
<1>1. /\ Len(ix.keys) \in Nat /\ Len(ix.kids) = Len(ix.keys) + 1
      /\ \A l \in 1..Len(ix.keys) : ix.keys[l] \in Nat
      /\ Parts(ix.keys, a, ChildAt(ix, a)) /\ Parts(ix.keys, b, ChildAt(ix, b))
  BY IndexFacts
<1>2. ChildAt(ix, a) = i /\ ChildAt(ix, b) = j
  BY DEF Span
<1>3. i \in 1..Len(ix.keys)
  BY <1>1
<1>4. a < ix.keys[i] /\ ix.keys[i] <= b /\ ix.keys[i] \in Nat
  BY <1>1, <1>2, <1>3 DEF Parts
<1> QED  BY <1>4

(* traverse_index lists what it has to when the traversals of the children    *)
(* do.                                                                        *)
LEMMA ListsIndex ==
    ASSUME NEW F, NEW root, NEW s, NEW h, NEW big, Tree(F, root, s, h, big),
           NEW f \in DOMAIN F, F[f].type = "index", NEW lo \in Nat, NEW hi \in Nat,
           NEW d, \A i \in 1..Len(F[f].kids) : Lists(F, s, lo, hi, F[f].kids[i], d[F[f].kids[i]])
    PROVE  Lists(F, s, lo, hi, f, FlattenSeq(Pieces(F[f], lo, hi, d)))
<1> DEFINE ix == F[f]
           q == Pieces(ix, lo, hi, d)
           n == Len(ix.kids)
<1>1. IndexNode(ix)
  BY NodeKinds DEF GoodIndex
<1>2. n \in Nat /\ s[f] \subseteq Nat
  BY <1>1, NodeKinds DEF IndexNode
<1>3. \A i \in 1..n : s[ix.kids[i]] = Span(ix, s[f], i)
  BY KidIs
<1>4. \A i \in 1..n : Lists(F, s, lo, hi, ix.kids[i], d[ix.kids[i]])
  OBVIOUS
<1>5. \A k \in s[f] : ChildAt(ix, k) \in 1..n /\ k \in Span(ix, s[f], ChildAt(ix, k))
  BY <1>1, <1>2, IndexFacts DEF Span
<1>6. Len(q) = n /\ \A i \in 1..n : q[i] = IF i \in Visited(ix, lo, hi) THEN d[ix.kids[i]] ELSE << >>
  <2> HIDE DEF ix
  <2> QED  BY <1>2 DEF Pieces
<1> HIDE DEF n, ix
<1>7. ASSUME NEW i \in 1..n
      PROVE  /\ q[i] \in Seq(Nat) /\ Ascending(q[i])
             /\ \A k : Has(q[i], k) <=> k \in Span(ix, s[f], i) /\ StoredAt(F, k) /\ Between(lo, hi, k)
  <2>1. CASE i \in Visited(ix, lo, hi)
    <3>1. q[i] = d[ix.kids[i]]
      BY <1>6, <2>1
    <3> HIDE DEF q
    <3> QED  BY <1>3, <1>4, <3>1 DEF Lists
  <2>2. CASE i \notin Visited(ix, lo, hi)
    <3>1. q[i] = << >>
      BY <1>6, <2>2
    <3>2. << >> \in Seq(Nat) /\ Len(<< >>) = 0 /\ \A j \in 1..0 : FALSE
      OBVIOUS
    <3>3. ASSUME NEW k, k \in Span(ix, s[f], i), Between(lo, hi, k)
          PROVE  FALSE
      <4>1. k \in Nat /\ ChildAt(ix, k) = i
        BY <1>2, <3>3 DEF Span
      <4> QED  BY <1>1, <2>2, <3>3, <4>1, VisitsAll
    <3> HIDE DEF q
    <3> QED  BY <3>1, <3>2, <3>3 DEF Has, Ascending
  <2> QED  BY <2>1, <2>2
<1>8. q \in Seq(Seq(Nat))
  <2>1. q = [ i \in 1..n |-> q[i] ]
    BY <1>6 DEF Pieces, n
  <2> HIDE DEF q
  <2> QED  BY <1>2, <1>7, <2>1
<1> HIDE DEF q
<1>9. ASSUME NEW i \in 1..n, NEW j \in 1..n, i < j, NEW a \in 1..Len(q[i]), NEW b \in 1..Len(q[j])
      PROVE  q[i][a] < q[j][b]
  <2>1. Has(q[i], q[i][a]) /\ Has(q[j], q[j][b])
    BY DEF Has
  <2>2. q[i][a] \in Nat /\ q[j][b] \in Nat /\ q[i][a] \in Span(ix, s[f], i) /\ q[j][b] \in Span(ix, s[f], j)
    BY <1>7, <2>1
  <2> QED  BY <1>1, <1>9, <2>2, SpansInOrder DEF n
<1>10. InOrder(q)
  BY <1>6, <1>7, <1>8, <1>9 DEF InOrder
<1>11. JoinedTo(q, FlattenSeq(q), n)
  BY <1>6, <1>10, FlattenIs
<1>12. ASSUME NEW k
       PROVE  Has(FlattenSeq(q), k) <=> k \in s[f] /\ StoredAt(F, k) /\ Between(lo, hi, k)
  <2>1. Has(FlattenSeq(q), k) <=> \E i \in 1..n : Has(q[i], k)
    BY <1>11 DEF JoinedTo
  <2>2. (\E i \in 1..n : k \in Span(ix, s[f], i)) <=> k \in s[f]
    BY <1>5 DEF Span
  <2> QED  BY <1>7, <2>1, <2>2
<1>13. Lists(F, s, lo, hi, f, FlattenSeq(q))
  BY <1>11, <1>12 DEF Lists, JoinedTo
<1> QED  BY <1>13 DEF q, ix

(* Hence, by the height of the node, so does the traversal from any node.     *)
LEMMA ListsTree ==
    ASSUME NEW F, NEW root, NEW s, NEW h, NEW big, Tree(F, root, s, h, big), NEW lo \in Nat, NEW hi \in Nat
    PROVE  Lists(F, s, lo, hi, root, (CHOOSE d : Traverses(F, lo, hi, d))[root])
<1>1. PICK d : d = (CHOOSE x : Traverses(F, lo, hi, x))
  OBVIOUS
<1>2. \A f \in DOMAIN F : d[f] = TravFrom(F, lo, hi, d, f)
  BY <1>1, SomeTraverses DEF Traverses
<1> DEFINE bad == { m \in Nat : \E f \in DOMAIN F : m = h[f] /\ ~Lists(F, s, lo, hi, f, d[f]) }
<1>3. bad = {}
  <2> SUFFICES ASSUME bad # {} PROVE FALSE
    OBVIOUS
  <2>1. PICK m \in bad : \A x \in bad : m <= x
    <3>1. bad \in SUBSET Nat
      OBVIOUS
    <3> HIDE DEF bad
    <3> QED  BY <3>1, SmallestExists
  <2>2. PICK f \in DOMAIN F : m = h[f] /\ ~Lists(F, s, lo, hi, f, d[f])
    BY <2>1
  <2>3. CASE F[f].type = "block"
    <3>1. d[f] = TraverseBlock(F[f], lo, hi)
      BY <1>2, <2>3 DEF TravFrom
    <3> HIDE DEF bad
    <3> QED  BY <2>2, <2>3, <3>1, ListsBlock
  <2>4. CASE F[f].type = "index"
    <3>1. d[f] = FlattenSeq(Pieces(F[f], lo, hi, d))
      BY <1>2, <2>4 DEF TravFrom
    <3>2. ASSUME NEW i \in 1..Len(F[f].kids)
          PROVE  Lists(F, s, lo, hi, F[f].kids[i], d[F[f].kids[i]])
      <4>1. F[f].kids[i] \in DOMAIN F /\ h[F[f].kids[i]] + 1 = h[f]
        BY <2>4, KidIs
      <4>2. h[F[f].kids[i]] \in Nat /\ h[f] \in Nat
        BY <4>1, NodeKinds
      <4>3. h[F[f].kids[i]] \notin bad
        <5>1. ~(m <= h[F[f].kids[i]])
          BY <2>2, <4>1, <4>2
        <5> HIDE DEF bad
        <5> QED  BY <2>1, <5>1
      <4> QED  BY <4>1, <4>2, <4>3
    <3> HIDE DEF bad
    <3>3. Lists(F, s, lo, hi, f, FlattenSeq(Pieces(F[f], lo, hi, d)))
      BY <2>4, <3>2, ListsIndex
    <3> QED  BY <2>2, <3>1, <3>3
  <2> QED  BY <2>3, <2>4, NodeKinds
<1>4. root \in DOMAIN F /\ h[root] \in Nat
  BY DEF Tree, Frame
<1> QED  BY <1>1, <1>3, <1>4

(* Between operations the files are a tree, and the traversal begins at its   *)
(* root.                                                                      *)
LEMMA InvTraverse == TreeInv => TraverseExact
<1> SUFFICES ASSUME TreeInv, op = Idle, NEW lo \in Keys \cup {0}, NEW hi \in Keys \cup {0}
             PROVE  LET t == Traverse(lo, hi)
                    IN  /\ \A i, j \in 1..Len(t) : i < j => t[i] < t[j]
                        /\ Range(t) = { k \in StoredKeys : lo < k /\ (hi # 0 => k <= hi) }
  BY DEF TraverseExact
<1> DEFINE t == Traverse(lo, hi)
<1>1. PICK s, h : Tree(files, kmem.mkey, s, h, Big)
  <2>1. PICK G, F, s, h : Left(G) /\ Sound(G, F, s, h)
    BY DEF TreeInv
  <2>2. op.at = "idle"
    BY IdleFacts
  <2>3. files = F
    BY <2>1, <2>2 DEF Left, Sound, OnDisk, AtRest
  <2> QED  BY <2>1, <2>2, <2>3 DEF Sound, Root
<1>2. lo \in Nat /\ hi \in Nat
  BY KeysAreNumbers
<1>3. Lists(files, s, lo, hi, kmem.mkey, t)
  BY <1>1, <1>2, ListsTree, TraverseIs
<1> HIDE DEF t
<1>4. s[kmem.mkey] = Nat
  BY <1>1 DEF Tree, Frame
<1>5. \A k : k \in StoredKeys <=> StoredAt(files, k)
  <2> TAKE k
  <2>1. \A g \in DOMAIN files : files[g].type = "block" => (k \in Range(files[g].keys) <=> Has(files[g].keys, k))
    <3> TAKE g \in DOMAIN files
    <3>1. files[g].type = "block" => files[g].keys \in Seq(Keys)
      BY <1>1, NodeKinds DEF GoodBlock, BlockNode
    <3> QED  BY <3>1 DEF Range, Has
  <2> QED  BY <2>1 DEF StoredKeys, StoredAt
<1>6. \A k : StoredAt(files, k) => k \in Nat
  BY <1>1, NodeKinds, BlockFacts DEF StoredAt, Has, GoodBlock
<1>7. Range(t) = { k \in StoredKeys : lo < k /\ (hi # 0 => k <= hi) }
  <2>1. \A k : k \in Range(t) <=> Has(t, k)
    BY <1>3 DEF Lists, Has, Range
  <2>2. \A k : Has(t, k) <=> k \in Nat /\ StoredAt(files, k) /\ Between(lo, hi, k)
    BY <1>3, <1>4 DEF Lists
  <2> QED  BY <1>5, <1>6, <2>1, <2>2 DEF Between
<1> QED  BY <1>3, <1>7 DEF Lists, Ascending, t

(* The property TraverseExact: with any bounds, traverse_db_rec_rkeys         *)
(* (btree/traverse.c) calls back for each key between them that is stored,    *)
(* once, in ascending order.                                                  *)
THEOREM TraversalsAreExact == Spec => []TraverseExact
BY TreeIsKept, InvTraverse, PTL
==============================================================================
