------------------------------ MODULE Report_proof ------------------------------
(***************************************************************************)
(* Reports, for any records, caches, statements and nesting of loops: the  *)
(* caches stay consistent, every lock and every reference is accounted     *)
(* for, the tree of a locked element stays where it is, a jump ends where  *)
(* it should, and the program only dies in the ways that DiesOnlyOf names. *)
(***************************************************************************)
EXTENDS Report, RecordCache_proof, TLAPS

-----------------------------------------------------------------------------
(* The statements.                                                           *)

\* what the proofs need to know of a kind of statement
Sound(sh) ==
    /\ sh.outer \in Type \cup {None}
    /\ sh.tree \in BOOLEAN /\ (sh.tree => sh.outer = None)
    /\ sh.macro \in {None, "fam", "indi"}
    /\ sh.macro # None => sh.macro \in sh.reads /\ sh.macro \in sh.always /\ "other" \notin sh.reads
    /\ sh.macro = "indi" => "wife" \notin sh.reads
    /\ sh.always \subseteq sh.reads /\ sh.locals \subseteq Roles /\ sh.spare \in Roles \cup {None}
    /\ sh.spare # None => sh.needs = sh.spare /\ sh.spare \in sh.locals
    /\ sh.needs # None => sh.macro = "fam"
    /\ sh.leave \in [Jumps -> Jumps \cup {"okay"}]
    /\ sh.other \notin {"INDI", "FAM"} /\ (sh.node => sh.tree)

LEMMA PlainSound ==
    /\ Sound(Plain) /\ Sound(InterpForNotes) /\ Sound(InterpForNodes) /\ Sound(InterpTraverse)
    /\ Sound(InterpCall)
  BY DEF Sound, Plain, InterpForNotes, InterpForNodes, InterpTraverse, InterpCall, None, Roles, Jumps

LEMMA OverSound ==
    /\ Sound(InterpForIndi) /\ Sound(InterpForFam) /\ Sound(InterpForSour)
    /\ Sound(InterpForEven) /\ Sound(InterpForOthr) /\ Sound(InterpIndiSetLoop)
    /\ Sound(InterpChildren) /\ Sound(InterpFamilySpouses)
  BY DEF Sound, Plain, Over, InterpForIndi, InterpForFam, InterpForSour, InterpForEven, InterpForOthr,
         InterpIndiSetLoop, InterpChildren, InterpFamilySpouses, None, Roles, Jumps, Type

LEMMA FamiliesSound == Sound(InterpSpouses) /\ Sound(InterpFamilies)
  BY DEF Sound, Plain, InterpSpouses, InterpFamilies, None, Roles, Jumps, Type

LEMMA ParentsSound == Sound(InterpFathers) /\ Sound(InterpMothers) /\ Sound(InterpParents)
  BY DEF Sound, Plain, ParentFamilies, InterpFathers, InterpMothers, InterpParents, None, Roles, Jumps,
         Type

LEMMA ShapeSound == ASSUME NEW kind \in Kind PROVE Sound(Shape[kind])
<1>1. kind \in {"children", "familyspouses", "spouses", "families", "fathers", "mothers", "parents",
                "fornotes", "fornodes", "traverse", "forindi", "forsour", "foreven", "forothr", "forfam",
                "forindiset", "forlist", "while", "if", "call", "main"}
  BY DEF Kind, Shape
<1>2. Shape[kind] \in {InterpChildren, InterpFamilySpouses, InterpSpouses, InterpFamilies,
                       InterpFathers, InterpMothers, InterpParents, InterpForNotes, InterpForNodes,
                       InterpTraverse, InterpForIndi, InterpForSour, InterpForEven, InterpForOthr,
                       InterpForFam, InterpIndiSetLoop, InterpForList, InterpWhile, InterpIf, InterpCall}
  BY <1>1 DEF Shape
<1> QED  BY <1>2, PlainSound, OverSound, FamiliesSound, ParentsSound
            DEF InterpForList, InterpWhile, InterpIf

LEMMA OnceShape ==
    ASSUME NEW kind \in Once
    PROVE  kind \in Kind /\ Shape[kind].outer = None
  BY DEF Once, Kind, Shape, InterpCall, InterpIf, Plain

-----------------------------------------------------------------------------
(* What the frames of a stack hold.                                          *)

Bit(a, b) == IF a = b THEN 1 ELSE 0

VarsIn(st, r) == {p \in (1..Len(st)) \X Roles : st[p[1]].vars[p[2]] = r}
MacrosIn(st, r) == {i \in 1..Len(st) : st[i].macro = r}
HoldersIn(st, e) == {i \in 1..Len(st) : Shape[st[i].kind].outer # None /\ st[i].root = e}
InnerIn(st, e) == {i \in 1..Len(st) : e \in st[i].inner}

\* references of variables and macros, and locks of loops
RefsIn(st, r) == Cardinality(VarsIn(st, r)) + Cardinality(MacrosIn(st, r))
LocksIn(st, e) == Cardinality(HoldersIn(st, e)) + Cardinality(InnerIn(st, e))

Held(v, r) == Bit(v.fam, r) + Bit(v.indi, r) + Bit(v.wife, r) + Bit(v.other, r)
HoldsRoot(f, e) == IF Shape[f.kind].outer # None /\ f.root = e THEN 1 ELSE 0
HoldsInner(f, e) == IF e \in f.inner THEN 1 ELSE 0

LEMMA Frames == ASSUME NEW st \in Seq(Frame)
                PROVE  Len(st) \in Nat /\ \A i \in 1..Len(st) : st[i] \in Frame
  OBVIOUS

LEMMA RolesFinite == IsFiniteSet(Roles)
<1>1. Roles = {"fam"} \cup {"indi"} \cup {"wife"} \cup {"other"}
  BY DEF Roles
<1> QED  BY <1>1, FS_Singleton, FS_Union

LEMMA HoldsFinite ==
    ASSUME NEW st \in Seq(Frame), NEW x
    PROVE  /\ IsFiniteSet(VarsIn(st, x)) /\ IsFiniteSet(MacrosIn(st, x))
           /\ IsFiniteSet(HoldersIn(st, x)) /\ IsFiniteSet(InnerIn(st, x))
<1>1. IsFiniteSet(1..Len(st))
  BY FS_Interval, Frames
<1>2. IsFiniteSet((1..Len(st)) \X Roles)
  BY <1>1, RolesFinite, FS_Product
<1>3. VarsIn(st, x) \in SUBSET ((1..Len(st)) \X Roles)
  BY DEF VarsIn
<1>4. MacrosIn(st, x) \in SUBSET (1..Len(st)) /\ HoldersIn(st, x) \in SUBSET (1..Len(st))
      /\ InnerIn(st, x) \in SUBSET (1..Len(st))
  BY DEF MacrosIn, HoldersIn, InnerIn
<1> QED  BY <1>1, <1>2, <1>3, <1>4, FS_Subset

LEMMA HoldsAreNumbers ==
    ASSUME NEW st \in Seq(Frame), NEW x
    PROVE  RefsIn(st, x) \in Nat /\ LocksIn(st, x) \in Nat
<1>1. /\ Cardinality(VarsIn(st, x)) \in Nat /\ Cardinality(MacrosIn(st, x)) \in Nat
      /\ Cardinality(HoldersIn(st, x)) \in Nat /\ Cardinality(InnerIn(st, x)) \in Nat
  BY HoldsFinite, FS_CardinalityType
<1> QED  BY <1>1 DEF RefsIn, LocksIn

LEMMA NothingHeld ==
    ASSUME NEW st, Len(st) = 0, NEW x
    PROVE  RefsIn(st, x) = 0 /\ LocksIn(st, x) = 0
<1>1. 1..Len(st) = {}
  OBVIOUS
<1>2. VarsIn(st, x) = {} /\ MacrosIn(st, x) = {} /\ HoldersIn(st, x) = {} /\ InnerIn(st, x) = {}
  BY <1>1 DEF VarsIn, MacrosIn, HoldersIn, InnerIn
<1> QED  BY <1>2, FS_EmptySet DEF RefsIn, LocksIn

LEMMA AddIf ==
    ASSUME NEW S, IsFiniteSet(S), NEW x, x \notin S, NEW b \in BOOLEAN,
           NEW T, T = S \cup (IF b THEN {x} ELSE {})
    PROVE  IsFiniteSet(T) /\ Cardinality(T) = Cardinality(S) + (IF b THEN 1 ELSE 0)
<1>1. Cardinality(S) \in Nat
  BY FS_CardinalityType
<1>2. CASE b
  <2>1. T = S \cup {x}
    BY <1>2
  <2> QED  BY <1>2, <2>1, FS_AddElement
<1>3. CASE ~b
  <2>1. T = S
    BY <1>3
  <2> QED  BY <1>1, <1>3, <2>1
<1> QED  BY <1>2, <1>3

LEMMA PushFields ==
    ASSUME NEW st \in Seq(Frame), NEW f \in Frame, NEW s2, s2 = Append(st, f)
    PROVE  /\ s2 \in Seq(Frame) /\ Len(s2) = Len(st) + 1
           /\ s2[Len(st) + 1] = f /\ \A i \in 1..Len(st) : s2[i] = st[i]
  OBVIOUS

(* One more frame on the stack holds what it holds.                          *)
LEMMA PushRefs ==
    ASSUME NEW st \in Seq(Frame), NEW f \in Frame, NEW r
    PROVE  RefsIn(Append(st, f), r) = RefsIn(st, r) + Held(f.vars, r) + Bit(f.macro, r)
<1> DEFINE s2 == Append(st, f)
           n == Len(st)
           H(x) == IF f.vars[x] = r THEN {<<n + 1, x>>} ELSE {}
           A == VarsIn(st, r)
           B1 == A \cup H("fam")
           B2 == B1 \cup H("indi")
           B3 == B2 \cup H("wife")
           B4 == B3 \cup H("other")
<1>1. s2 \in Seq(Frame) /\ Len(s2) = n + 1 /\ s2[n + 1] = f /\ (\A i \in 1..n : s2[i] = st[i])
      /\ n \in Nat /\ 1..(n + 1) = (1..n) \cup {n + 1} /\ n + 1 \notin 1..n
  BY PushFields
<1> HIDE DEF s2
<1>2. VarsIn(s2, r) = B4
  <2>1. ASSUME NEW p \in (1..n + 1) \X Roles
        PROVE  s2[p[1]].vars[p[2]] = r <=> p \in B4
    <3>1. CASE p[1] = n + 1
      BY <1>1, <3>1 DEF VarsIn, Roles
    <3>2. CASE p[1] # n + 1
      BY <1>1, <3>2 DEF VarsIn, Roles
    <3> QED  BY <3>1, <3>2
  <2>2. B4 \subseteq (1..n + 1) \X Roles
    BY <1>1 DEF VarsIn, Roles
  <2> HIDE DEF B4
  <2> QED  BY <1>1, <2>1, <2>2 DEF VarsIn
<1>3. /\ <<n + 1, "fam">> \notin A /\ <<n + 1, "indi">> \notin B1
      /\ <<n + 1, "wife">> \notin B2 /\ <<n + 1, "other">> \notin B3
  BY <1>1 DEF VarsIn
<1>4. IsFiniteSet(A) /\ Cardinality(A) \in Nat
  BY HoldsFinite, FS_CardinalityType
<1> HIDE DEF A, n
<1>5. IsFiniteSet(B1) /\ Cardinality(B1) = Cardinality(A) + Bit(f.vars["fam"], r)
  BY <1>3, <1>4, AddIf DEF Bit
<1> HIDE DEF B1
<1>6. IsFiniteSet(B2) /\ Cardinality(B2) = Cardinality(B1) + Bit(f.vars["indi"], r)
  BY <1>3, <1>5, AddIf DEF Bit
<1> HIDE DEF B2
<1>7. IsFiniteSet(B3) /\ Cardinality(B3) = Cardinality(B2) + Bit(f.vars["wife"], r)
  BY <1>3, <1>6, AddIf DEF Bit
<1> HIDE DEF B3
<1>8. IsFiniteSet(B4) /\ Cardinality(B4) = Cardinality(B3) + Bit(f.vars["other"], r)
  BY <1>3, <1>7, AddIf DEF Bit
<1> HIDE DEF B4
<1>9. Cardinality(VarsIn(s2, r)) = Cardinality(A) + Held(f.vars, r)
  BY <1>2, <1>4, <1>5, <1>6, <1>7, <1>8 DEF Held, Bit
<1>10. Cardinality(MacrosIn(s2, r)) = Cardinality(MacrosIn(st, r)) + Bit(f.macro, r)
  <2>1. MacrosIn(s2, r) = MacrosIn(st, r) \cup (IF f.macro = r THEN {n + 1} ELSE {})
    BY <1>1 DEF MacrosIn, n
  <2>2. n + 1 \notin MacrosIn(st, r) /\ IsFiniteSet(MacrosIn(st, r))
    BY <1>1, HoldsFinite DEF MacrosIn, n
  <2> QED  BY <2>1, <2>2, AddIf, ZenonT(40) DEF Bit
<1>11. Cardinality(MacrosIn(st, r)) \in Nat
  BY HoldsFinite, FS_CardinalityType
<1> QED  BY <1>4, <1>9, <1>10, <1>11 DEF RefsIn, A, s2, Held, Bit

LEMMA PushLocks ==
    ASSUME NEW st \in Seq(Frame), NEW f \in Frame, NEW e
    PROVE  LocksIn(Append(st, f), e) = LocksIn(st, e) + HoldsRoot(f, e) + HoldsInner(f, e)
<1> DEFINE s2 == Append(st, f)
           n == Len(st)
<1>1. s2 \in Seq(Frame) /\ Len(s2) = n + 1 /\ s2[n + 1] = f /\ (\A i \in 1..n : s2[i] = st[i])
      /\ n \in Nat /\ 1..(n + 1) = (1..n) \cup {n + 1} /\ n + 1 \notin 1..n
  BY PushFields
<1> HIDE DEF s2, n
<1>2. IsFiniteSet(HoldersIn(st, e)) /\ IsFiniteSet(InnerIn(st, e))
  BY HoldsFinite
<1>3. Cardinality(HoldersIn(st, e)) \in Nat /\ Cardinality(InnerIn(st, e)) \in Nat
  BY <1>2, FS_CardinalityType
<1>4. Cardinality(HoldersIn(s2, e)) = Cardinality(HoldersIn(st, e)) + HoldsRoot(f, e)
  <2>1. HoldersIn(s2, e) = HoldersIn(st, e)
                             \cup (IF Shape[f.kind].outer # None /\ f.root = e THEN {n + 1} ELSE {})
    BY <1>1 DEF HoldersIn, n
  <2>2. n + 1 \notin HoldersIn(st, e)
    BY <1>1 DEF HoldersIn, n
  <2> QED  BY <1>2, <2>1, <2>2, AddIf DEF HoldsRoot
<1>5. Cardinality(InnerIn(s2, e)) = Cardinality(InnerIn(st, e)) + HoldsInner(f, e)
  <2>1. InnerIn(s2, e) = InnerIn(st, e) \cup (IF e \in f.inner THEN {n + 1} ELSE {})
    BY <1>1 DEF InnerIn, n
  <2>2. n + 1 \notin InnerIn(st, e)
    BY <1>1 DEF InnerIn, n
  <2> QED  BY <1>2, <2>1, <2>2, AddIf, ZenonT(40) DEF HoldsInner
<1> QED  BY <1>3, <1>4, <1>5 DEF LocksIn, s2, HoldsRoot, HoldsInner

-----------------------------------------------------------------------------
(***************************************************************************)
(* The invariant: the caches are consistent and counted exactly what the   *)
(* frames of the stack and the lost values hold.  A frame holds locks and  *)
(* a macro only while its body runs; main holds nothing.                   *)
(***************************************************************************)
OutOf(st, lo, le) == [r \in Rec |-> RefsIn(st, r) + lo[r] + le[r]]

LocksOf(c, st) ==
    \A e \in El : /\ c.lock[e] = LocksIn(st, e) + c.rpt[e]
                  /\ Len(st) = 0 /\ c.lock[e] > 0 => Cache[e] = "EVEN"

Bare(f) == f.inner = {} /\ f.macro = NoRec

FrameAt(f, i) ==
    /\ f.kind = "main" <=> i = 1
    /\ f.kind \in Once => Bare(f) /\ f.vars = NoVars
    /\ Shape[f.kind].outer # None => f.root \in El

Framed(st, res) ==
    /\ \A i \in 1..Len(st) : FrameAt(st[i], i)
    /\ res = "next" /\ Len(st) > 0 => Bare(st[Len(st)]) /\ st[Len(st)].kind \notin Once

Good(c, st, res, lo, le) ==
    /\ Consistent(c) /\ Counted(c, OutOf(st, lo, le))
    /\ LocksOf(c, st) /\ Framed(st, res)

Inv == TypeOK /\ (Alive => Good(cache, stack, irc, loose, leaked))

LEMMA OutOfIs ==
    ASSUME NEW st \in Seq(Frame), NEW lo \in [Rec -> Nat], NEW le \in [Rec -> Nat]
    PROVE  /\ OutOf(st, lo, le) \in [Rec -> Nat]
           /\ \A r \in Rec : OutOf(st, lo, le)[r] = RefsIn(st, r) + lo[r] + le[r]
<1>1. \A r \in Rec : RefsIn(st, r) + lo[r] + le[r] \in Nat
  BY HoldsAreNumbers
<1> QED  BY <1>1 DEF OutOf

(* Marking the trees that were freed changes nothing else of the frames.     *)
Marked(st, gone) == [i \in 1..Len(st) |-> [st[i] EXCEPT !.alive = @ /\ st[i].root \notin gone]]

LEMMA FrameFields ==
    ASSUME NEW f \in Frame
    PROVE  /\ f.kind \in Kind /\ f.root \in El \cup {NoEl} /\ f.alive \in BOOLEAN
           /\ f.inner \in SUBSET El /\ f.vars \in [Roles -> Rec \cup {NoRec}]
           /\ f.macro \in Rec \cup {NoRec}
  BY DEF Frame

LEMMA MarkedIs ==
    ASSUME NEW st \in Seq(Frame), NEW gone, NEW s2, s2 = Marked(st, gone)
    PROVE  /\ s2 \in Seq(Frame) /\ Len(s2) = Len(st)
           /\ \A i \in 1..Len(st) :
                 /\ s2[i].kind = st[i].kind /\ s2[i].root = st[i].root /\ s2[i].inner = st[i].inner
                 /\ s2[i].vars = st[i].vars /\ s2[i].macro = st[i].macro
<1>1. Len(st) \in Nat /\ \A i \in 1..Len(st) : st[i] \in Frame
  BY Frames
<1> DEFINE M(i) == [st[i] EXCEPT !.alive = @ /\ st[i].root \notin gone]
<1>2. ASSUME NEW i \in 1..Len(st)
      PROVE  /\ M(i) \in Frame
             /\ M(i).kind = st[i].kind /\ M(i).root = st[i].root /\ M(i).inner = st[i].inner
             /\ M(i).vars = st[i].vars /\ M(i).macro = st[i].macro
  <2>1. st[i] \in Frame
    BY <1>1
  <2>2. (st[i].alive /\ st[i].root \notin gone) \in BOOLEAN
    OBVIOUS
  <2> QED  BY <2>1, <2>2 DEF Frame
<1>3. s2 = [i \in 1..Len(st) |-> M(i)]
  BY DEF Marked
<1> HIDE DEF M
<1>4. s2 \in [1..Len(st) -> Frame] /\ \A i \in 1..Len(st) : s2[i] = M(i)
  BY <1>2, <1>3
<1>5. s2 \in Seq(Frame) /\ Len(s2) = Len(st)
  BY <1>1, <1>4, FunctionIsList
<1> QED  BY <1>2, <1>4, <1>5

LEMMA MarkedHolds ==
    ASSUME NEW st \in Seq(Frame), NEW gone, NEW x
    PROVE  RefsIn(Marked(st, gone), x) = RefsIn(st, x) /\ LocksIn(Marked(st, gone), x) = LocksIn(st, x)
<1> DEFINE s2 == Marked(st, gone)
<1>1. /\ Len(s2) = Len(st)
      /\ \A i \in 1..Len(st) :
            /\ s2[i].kind = st[i].kind /\ s2[i].root = st[i].root /\ s2[i].inner = st[i].inner
            /\ s2[i].vars = st[i].vars /\ s2[i].macro = st[i].macro
  BY MarkedIs
<1> HIDE DEF s2
<1>2. VarsIn(s2, x) = VarsIn(st, x)
  BY <1>1 DEF VarsIn
<1>3. MacrosIn(s2, x) = MacrosIn(st, x) /\ HoldersIn(s2, x) = HoldersIn(st, x) /\ InnerIn(s2, x) = InnerIn(st, x)
  BY <1>1 DEF MacrosIn, HoldersIn, InnerIn
<1> QED  BY <1>2, <1>3 DEF RefsIn, LocksIn, s2

(* The frames below the top one, and the top one.                            *)
LEMMA Split ==
    ASSUME stack \in Seq(Frame), stack # << >>
    PROVE  /\ Depth \in Nat /\ Depth > 0
           /\ Below \in Seq(Frame) /\ Len(Below) = Depth - 1
           /\ \A i \in 1..Depth - 1 : Below[i] = stack[i]
           /\ Top \in Frame
           /\ stack = Append(Below, Top)
           /\ \A f \in Frame : SetTop(f) = Append(Below, f)
<1>1. Depth \in Nat /\ Depth > 0 /\ \A i \in 1..Depth : stack[i] \in Frame
  BY EmptySeq DEF Depth
<1>2. Below = [i \in 1..Depth - 1 |-> stack[i]]
  BY <1>1 DEF Below, Depth
<1>3. Below \in [1..Depth - 1 -> Frame] /\ Depth - 1 \in Nat
  BY <1>1, <1>2
<1>4. Below \in Seq(Frame) /\ Len(Below) = Depth - 1 /\ \A i \in 1..Depth - 1 : Below[i] = stack[i]
  BY <1>2, <1>3, FunctionIsList
<1>5. Top \in Frame
  BY <1>1 DEF Top
<1>6. ASSUME NEW f \in Frame PROVE SetTop(f) = Append(Below, f)
  <2>1. SetTop(f) \in Seq(Frame) /\ Len(SetTop(f)) = Depth
        /\ \A i \in 1..Depth : SetTop(f)[i] = IF i = Depth THEN f ELSE stack[i]
    BY <1>1 DEF SetTop, Depth
  <2>2. Append(Below, f) \in Seq(Frame) /\ Len(Append(Below, f)) = Depth
        /\ \A i \in 1..Depth : Append(Below, f)[i] = IF i = Depth THEN f ELSE stack[i]
    BY <1>1, <1>4
  <2> QED  BY <2>1, <2>2, SeqEqual
<1>7. stack = Append(Below, Top)
  <2>1. Append(Below, Top) \in Seq(Frame) /\ Len(Append(Below, Top)) = Depth
        /\ \A i \in 1..Depth : Append(Below, Top)[i] = stack[i]
    BY <1>1, <1>4, <1>5 DEF Top
  <2> QED  BY <2>1, SeqEqual DEF Depth
<1> QED  BY <1>1, <1>4, <1>5, <1>6, <1>7

-----------------------------------------------------------------------------
(* A step of the program.                                                    *)

Results == Jumps \cup {"run", "next", "okay"}
JumpsTo == [how : Jumps \cup {None}, to : Nat]

LEMMA TypeParts ==
    TypeOK <=> /\ cache \in CacheType /\ stored \subseteq Key
               /\ stack \in Seq(Frame) /\ irc \in Results
               /\ loose \in [Rec -> Nat] /\ leaked \in [Rec -> Nat]
               /\ jump \in JumpsTo
  BY DEF TypeOK, Results, JumpsTo

(* The trees freed in a step are only of use to the frames that walk them.   *)
LEMMA GoodMarked ==
    ASSUME NEW d, NEW st \in Seq(Frame), NEW res, NEW lo \in [Rec -> Nat], NEW le \in [Rec -> Nat],
           Good(d, st, res, lo, le), NEW gone, NEW c, c = [d EXCEPT !.gone = {}]
    PROVE  Good(c, Marked(st, gone), res, lo, le)
<1> DEFINE s2 == Marked(st, gone)
<1>1. d \in CacheType
  BY DEF Good, Consistent
<1>2. c \in CacheType
  BY <1>1 DEF CacheType
<1>3. /\ SameLists(d, c) /\ SameLocks(d, c) /\ c.crec = d.crec /\ c.rcel = d.rcel /\ c.refs = d.refs
  BY <1>1 DEF CacheType, SameLists, SameLocks
<1>4. Consistent(c) /\ Counted(c, OutOf(st, lo, le))
  BY <1>2, <1>3, CacheFieldsSame DEF Good
<1>5. s2 \in Seq(Frame) /\ Len(s2) = Len(st)
      /\ \A i \in 1..Len(st) :
            /\ s2[i].kind = st[i].kind /\ s2[i].root = st[i].root /\ s2[i].inner = st[i].inner
            /\ s2[i].vars = st[i].vars /\ s2[i].macro = st[i].macro
  BY MarkedIs
<1>6. \A x : RefsIn(s2, x) = RefsIn(st, x) /\ LocksIn(s2, x) = LocksIn(st, x)
  BY MarkedHolds
<1> HIDE DEF s2
<1>7. OutOf(s2, lo, le) = OutOf(st, lo, le)
  BY <1>6 DEF OutOf
<1>8. LocksOf(c, s2)
  BY <1>3, <1>5, <1>6 DEF Good, LocksOf, SameLocks
<1>9. Framed(s2, res)
  <2>1. Len(st) \in Nat
    BY Frames
  <2>2. \A i \in 1..Len(s2) : FrameAt(s2[i], i)
    BY <1>5 DEF Good, Framed, Bare, FrameAt
  <2>3. res = "next" /\ Len(s2) > 0 => Bare(s2[Len(s2)]) /\ s2[Len(s2)].kind \notin Once
    <3>1. Len(s2) > 0 => Len(s2) \in 1..Len(st)
      BY <1>5, <2>1
    <3> QED  BY <1>5, <3>1 DEF Good, Framed, Bare
  <2> QED  BY <2>2, <2>3 DEF Framed
<1> QED  BY <1>4, <1>7, <1>8, <1>9 DEF Good, s2

LEMMA Committed ==
    ASSUME TypeOK, NEW d, NEW st, NEW res, Commit(d, st, res), Consistent(d),
           d.dead = "alive" => st \in Seq(Frame) /\ res \in Results /\ Good(d, st, res, loose', leaked'),
           stored' \subseteq Key, loose' \in [Rec -> Nat], leaked' \in [Rec -> Nat], jump' \in JumpsTo
    PROVE  Inv' /\ cache'.key = d.key /\ cache'.dead = d.dead
<1>1. d \in CacheType /\ cache' = [d EXCEPT !.gone = {}]
  BY DEF Consistent, Commit
<1>2. cache' \in CacheType /\ cache'.key = d.key /\ cache'.dead = d.dead
  BY <1>1 DEF CacheType
<1>3. stack \in Seq(Frame) /\ irc \in Results
  BY TypeParts
<1>4. CASE d.dead # "alive"
  <2>1. stack' = stack /\ irc' = irc
    BY <1>4 DEF Commit
  <2>2. TypeOK'
    BY <1>2, <1>3, <2>1 DEF TypeOK, Results, JumpsTo
  <2> QED  BY <1>2, <1>4, <2>2 DEF Inv, Alive
<1>5. CASE d.dead = "alive"
  <2>1. stack' = Marked(st, d.gone) /\ irc' = res
    BY <1>5 DEF Commit, Marked
  <2>2. stack' \in Seq(Frame) /\ irc' \in Results
    BY <1>5, <2>1, MarkedIs
  <2>3. TypeOK'
    BY <1>2, <2>2 DEF TypeOK, Results, JumpsTo
  <2>4. Good(cache', stack', irc', loose', leaked')
    BY <1>1, <1>5, <2>1, GoodMarked
  <2> QED  BY <1>2, <2>3, <2>4 DEF Inv, Alive
<1> QED  BY <1>2, <1>4, <1>5

(* The locks and references that a frame pushed on the stack holds.          *)
LEMMA FramedPush ==
    ASSUME NEW st \in Seq(Frame), NEW f \in Frame, NEW res,
           \A i \in 1..Len(st) : FrameAt(st[i], i), FrameAt(f, Len(st) + 1),
           res = "next" => Bare(f) /\ f.kind \notin Once
    PROVE  Framed(Append(st, f), res)
<1> DEFINE s2 == Append(st, f)
<1>1. /\ s2 \in Seq(Frame) /\ Len(s2) = Len(st) + 1 /\ Len(st) \in Nat
      /\ s2[Len(st) + 1] = f /\ \A i \in 1..Len(st) : s2[i] = st[i]
  BY PushFields
<1> HIDE DEF s2
<1>2. ASSUME NEW i \in 1..Len(s2) PROVE FrameAt(s2[i], i)
  <2>1. CASE i = Len(st) + 1
    BY <1>1, <2>1
  <2>2. CASE i # Len(st) + 1
    <3>1. i \in 1..Len(st)
      BY <1>1, <2>2
    <3> QED  BY <1>1, <3>1
  <2> QED  BY <2>1, <2>2
<1> QED  BY <1>1, <1>2 DEF Framed, s2

LEMMA OutPush ==
    ASSUME NEW st \in Seq(Frame), NEW f \in Frame,
           NEW lo \in [Rec -> Nat], NEW le \in [Rec -> Nat]
    PROVE  /\ OutOf(Append(st, f), lo, le) \in [Rec -> Nat]
           /\ \A r \in Rec : OutOf(Append(st, f), lo, le)[r]
                               = RefsIn(st, r) + Held(f.vars, r) + Bit(f.macro, r) + lo[r] + le[r]
<1> DEFINE s2 == Append(st, f)
<1>1. s2 \in Seq(Frame)
  OBVIOUS
<1>2. \A r : RefsIn(s2, r) = RefsIn(st, r) + Held(f.vars, r) + Bit(f.macro, r)
  BY PushRefs
<1> HIDE DEF s2
<1>3. OutOf(s2, lo, le) \in [Rec -> Nat] /\ \A r \in Rec : OutOf(s2, lo, le)[r] = RefsIn(s2, r) + lo[r] + le[r]
  BY <1>1, OutOfIs
<1> QED  BY <1>2, <1>3 DEF s2

LEMMA LocksPush ==
    ASSUME NEW st \in Seq(Frame), NEW f \in Frame, NEW c
    PROVE  LocksOf(c, Append(st, f)) <=>
             \A e \in El : c.lock[e] = LocksIn(st, e) + HoldsRoot(f, e) + HoldsInner(f, e) + c.rpt[e]
<1> DEFINE s2 == Append(st, f)
<1>1. Len(s2) > 0
  BY PushFields, Frames
<1>2. \A e : LocksIn(s2, e) = LocksIn(st, e) + HoldsRoot(f, e) + HoldsInner(f, e)
  BY PushLocks
<1> HIDE DEF s2
<1>3. LocksOf(c, s2) <=> \A e \in El : c.lock[e] = LocksIn(s2, e) + c.rpt[e]
  BY <1>1 DEF LocksOf
<1> QED  BY <1>2, <1>3 DEF s2

LEMMA NothingIn ==
    ASSUME NEW r \in Rec
    PROVE  Held(NoVars, r) = 0 /\ Bit(NoRec, r) = 0
<1>1. NoRec # r
  BY Constants
<1>2. NoVars.fam = NoRec /\ NoVars.indi = NoRec /\ NoVars.wife = NoRec /\ NoVars.other = NoRec
  BY DEF NoVars, Roles
<1> QED  BY <1>1, <1>2 DEF Held, Bit

(* A frame that was just made holds no variable and no macro.                *)
LEMMA NewFrameIs ==
    ASSUME NEW kind \in Kind, NEW root \in El \cup {NoEl}, NEW f, f = NewFrame(kind, root)
    PROVE  /\ f \in Frame /\ f.kind = kind /\ f.root = root
           /\ Bare(f) /\ f.vars = NoVars /\ f.inner = {} /\ f.macro = NoRec
<1>1. NoVars \in [Roles -> Rec \cup {NoRec}]
  BY DEF NoVars
<1> QED  BY <1>1 DEF NewFrame, Frame, Bare

LEMMA GoodPush ==
    ASSUME NEW st \in Seq(Frame), NEW lo \in [Rec -> Nat], NEW le \in [Rec -> Nat], NEW d,
           Consistent(d), Counted(d, OutOf(st, lo, le)), \A i \in 1..Len(st) : FrameAt(st[i], i),
           NEW kind \in Kind, NEW root \in El \cup {NoEl}, NEW f, f = NewFrame(kind, root),
           kind = "main" <=> Len(st) = 0, Shape[kind].outer # None => root \in El,
           \A e \in El : d.lock[e] = LocksIn(st, e) + HoldsRoot(f, e) + d.rpt[e],
           NEW res, res = "next" => kind \notin Once
    PROVE  Append(st, f) \in Seq(Frame) /\ Good(d, Append(st, f), res, lo, le)
<1>1. /\ f \in Frame /\ f.kind = kind /\ f.root = root
      /\ Bare(f) /\ f.vars = NoVars /\ f.inner = {} /\ f.macro = NoRec
  BY NewFrameIs
<1>2. Append(st, f) \in Seq(Frame) /\ Len(st) \in Nat
  BY <1>1
<1>3. Framed(Append(st, f), res)
  <2>1. FrameAt(f, Len(st) + 1)
    BY <1>1, <1>2 DEF FrameAt
  <2> QED  BY <1>1, <2>1, FramedPush
<1>4. OutOf(Append(st, f), lo, le) = OutOf(st, lo, le)
  <2> DEFINE a == OutOf(Append(st, f), lo, le)
             b == OutOf(st, lo, le)
  <2>1. /\ a \in [Rec -> Nat]
        /\ \A r \in Rec : a[r] = RefsIn(st, r) + Held(f.vars, r) + Bit(f.macro, r) + lo[r] + le[r]
    BY <1>1, OutPush
  <2>2. b \in [Rec -> Nat] /\ \A r \in Rec : b[r] = RefsIn(st, r) + lo[r] + le[r]
    BY OutOfIs
  <2>3. \A r \in Rec : Held(f.vars, r) = 0 /\ Bit(f.macro, r) = 0
    BY <1>1, NothingIn
  <2> HIDE DEF a, b
  <2>4. ASSUME NEW r \in Rec PROVE a[r] = b[r]
    <3>1. RefsIn(st, r) \in Nat
      BY HoldsAreNumbers
    <3> QED  BY <2>1, <2>2, <2>3, <3>1
  <2>5. a = b
    BY <2>1, <2>2, <2>4
  <2> QED  BY <2>5 DEF a, b
<1>5. LocksOf(d, Append(st, f))
  <2>1. \A e \in El : HoldsInner(f, e) = 0
    BY <1>1 DEF HoldsInner
  <2>2. \A e \in El : LocksIn(st, e) + HoldsRoot(f, e) + HoldsInner(f, e) = LocksIn(st, e) + HoldsRoot(f, e)
    <3>1. \A e \in El : LocksIn(st, e) \in Nat /\ HoldsRoot(f, e) \in Nat
      BY HoldsAreNumbers DEF HoldsRoot
    <3> QED  BY <2>1, <3>1
  <2> QED  BY <1>1, <2>2, LocksPush
<1> QED  BY <1>2, <1>3, <1>4, <1>5 DEF Good

-----------------------------------------------------------------------------
(* The steps of a report, one lemma for each.                                *)

Kept == cache.dead = "alive" => LockedKeep(cache, cache')

\* a step from the caches and stack of an invariant state
Now ==
    /\ TypeOK /\ Good(cache, stack, irc, loose, leaked) /\ cache.dead = "alive"

LEMMA NowIs ==
    ASSUME Inv, cache.dead = "alive"
    PROVE  /\ Now /\ Consistent(cache) /\ Counted(cache, OutOf(stack, loose, leaked))
           /\ LocksOf(cache, stack) /\ Framed(stack, irc)
           /\ stack \in Seq(Frame) /\ Depth \in Nat /\ irc \in Results /\ stored \subseteq Key
           /\ loose \in [Rec -> Nat] /\ leaked \in [Rec -> Nat] /\ jump \in JumpsTo
  BY TypeParts DEF Inv, Alive, Now, Good, Depth

(* A step that reads records and leaves stack and references as they are.    *)
LEMMA ReadStep ==
    ASSUME Inv, cache.dead = "alive", NEW d, Commit(d, stack, irc), UNCHANGED <<loose, leaked, jump>>,
           stored' \subseteq Key,
           Consistent(d), SameLocks(cache, d), LockedKeep(cache, d),
           d.dead = "alive" => Counted(d, OutOf(stack, loose, leaked))
    PROVE  Inv' /\ Kept
<1>1. d.dead = "alive" => Good(d, stack, irc, loose', leaked')
  BY NowIs DEF Good, LocksOf, SameLocks
<1>2. Inv' /\ cache'.key = d.key
  BY <1>1, NowIs, Committed DEF Now
<1> QED  BY <1>2 DEF Kept, LockedKeep

LEMMA MainIs == "main" \in Kind /\ "main" \in Once /\ "main" \in Procs
  BY DEF Kind, Shape, Once, Procs

LEMMA StartStep ==
    ASSUME Inv, Start
    PROVE  Inv' /\ Kept
<1> DEFINE f == NewFrame("main", NoEl)
           st == <<f>>
<1>1. /\ cache.dead = "alive" /\ stack = << >>
      /\ Commit(cache, st, "run") /\ UNCHANGED <<stored, loose, leaked, jump>>
  BY DEF Start, Idle
<1>2. Len(stack) = 0 /\ stack \in Seq(Frame) /\ st = Append(stack, f)
  BY <1>1
<1>3. Shape["main"].outer = None
  BY MainIs, OnceShape
<1>4. \A e \in El : cache.lock[e] = LocksIn(stack, e) + HoldsRoot(f, e) + cache.rpt[e]
  <2>1. \A e : HoldsRoot(f, e) = 0
    BY <1>3, MainIs, NewFrameIs DEF HoldsRoot
  <2>2. \A e \in El : LocksIn(stack, e) \in Nat /\ cache.lock[e] = LocksIn(stack, e) + cache.rpt[e]
    BY <1>1, <1>2, NowIs, HoldsAreNumbers DEF LocksOf
  <2> HIDE DEF f
  <2> QED  BY <2>1, <2>2
<1>5. Append(stack, f) \in Seq(Frame) /\ Good(cache, Append(stack, f), "run", loose, leaked)
  <2>1. \A i \in 1..Len(stack) : FrameAt(stack[i], i)
    BY <1>2
  <2> QED  BY <1>1, <1>2, <1>3, <1>4, <2>1, NowIs, MainIs, GoodPush, ZenonT(40)
<1> HIDE DEF st
<1>6. Inv' /\ cache'.key = cache.key
  BY <1>1, <1>2, <1>5, NowIs, Committed DEF Now, Results
<1> QED  BY <1>6 DEF Kept, LockedKeep

LEMMA TouchStep ==
    ASSUME Inv, NEW k \in stored, Touch(k)
    PROVE  Inv' /\ Kept
<1> DEFINE d == KeyToCacheel(cache, k)
<1>1. /\ Running /\ cache.dead = "alive" /\ irc = "run" /\ k \in Key
      /\ Commit(d, stack, irc) /\ UNCHANGED <<stored, loose, leaked, jump>>
  BY NowIs DEF Touch, At, Running
<1>2. Reads(cache, d, k) /\ (d.dead = "alive" => Counted(d, OutOf(stack, loose, leaked)))
  BY <1>1, NowIs, KeyToCacheelIs
<1> HIDE DEF d
<1> QED  BY <1>1, <1>2, NowIs, ReadStep DEF Reads

LEMMA HeldByVar ==
    ASSUME NEW st \in Seq(Frame), NEW i \in 1..Len(st), NEW x \in Roles, NEW r \in Rec,
           st[i].vars[x] = r, NEW lo \in [Rec -> Nat], NEW le \in [Rec -> Nat]
    PROVE  OutOf(st, lo, le)[r] > 0
<1>0. <<i, x>> \in (1..Len(st)) \X Roles /\ <<i, x>>[1] = i /\ <<i, x>>[2] = x
  OBVIOUS
<1>1. <<i, x>> \in VarsIn(st, r) /\ IsFiniteSet(VarsIn(st, r)) /\ IsFiniteSet(MacrosIn(st, r))
  <2>1. <<i, x>> \in VarsIn(st, r)
    BY <1>0 DEF VarsIn
  <2> QED  BY <2>1, HoldsFinite
<1>2. Cardinality(VarsIn(st, r)) \in Nat /\ Cardinality(VarsIn(st, r)) # 0
      /\ Cardinality(MacrosIn(st, r)) \in Nat
  BY <1>1, FS_CardinalityType, FS_EmptySet
<1> QED  BY <1>2, OutOfIs DEF RefsIn

LEMMA UseVarStep ==
    ASSUME Inv, NEW i \in 1..Depth, NEW x \in Roles, stack[i].vars[x] # NoRec,
           UseVar(stack[i].vars[x])
    PROVE  Inv' /\ Kept
<1> DEFINE r == stack[i].vars[x]
           d == Nztop(cache, r, stored)
<1>1. /\ Running /\ cache.dead = "alive" /\ irc = "run"
      /\ Commit(d, stack, irc) /\ UNCHANGED <<stored, loose, leaked, jump>>
  BY DEF UseVar, At, Running
<1>2. r \in Rec
  BY <1>1, NowIs, Frames, FrameFields DEF Depth
<1>3. OutOf(stack, loose, leaked)[r] > 0
  BY <1>1, <1>2, NowIs, HeldByVar DEF Depth
<1>4. /\ Consistent(d) /\ SameLocks(cache, d) /\ LockedKeep(cache, d)
      /\ d.dead = "alive" => Counted(d, OutOf(stack, loose, leaked))
  BY <1>1, <1>2, <1>3, NowIs, NztopIs
<1> HIDE DEF d
<1> QED  BY <1>1, <1>4, NowIs, ReadStep

LEMMA LlrptLockStep ==
    ASSUME Inv, NEW k \in stored, LlrptLock(k)
    PROVE  Inv' /\ Kept
<1> DEFINE c == KeyToCacheel(cache, k)
           e == c.table[k]
           d == IF c.dead # "alive" THEN c ELSE LockRpt(c, e)
<1>1. /\ Running /\ cache.dead = "alive" /\ irc = "run" /\ k \in Key
      /\ Commit(d, stack, irc) /\ UNCHANGED <<stored, loose, leaked, jump>>
  BY NowIs DEF LlrptLock, At, Running
<1>2. Reads(cache, c, k) /\ (c.dead = "alive" => Counted(c, OutOf(stack, loose, leaked)))
  BY <1>1, NowIs, KeyToCacheelIs
<1> HIDE DEF c
<1>3. CASE c.dead # "alive"
  <2>1. d = c
    BY <1>3
  <2> QED  BY <1>1, <1>2, <1>3, <2>1, NowIs, ReadStep DEF Reads
<1>4. CASE c.dead = "alive"
  <2>1. /\ Consistent(c) /\ SameLocks(cache, c) /\ LockedKeep(cache, c)
        /\ Counted(c, OutOf(stack, loose, leaked)) /\ e \in El /\ e # NoEl
    BY <1>2, <1>4, Constants DEF Reads
  <2>2. d = LockRpt(c, e) /\ c.key[e] # NoKey
    BY <1>1, <1>4, <2>1, RecordOfIs, Constants
  <2> HIDE DEF d, e
  <2>3. /\ Consistent(d) /\ Counted(d, OutOf(stack, loose, leaked)) /\ SameLists(c, d) /\ d.dead = c.dead
        /\ \A x \in El : d.lock[x] = IF x = e THEN c.lock[x] + 1 ELSE c.lock[x]
        /\ \A x \in El : d.rpt[x] = IF x = e THEN c.rpt[x] + 1 ELSE c.rpt[x]
    BY <2>1, <2>2, LockRptIs
  <2>4. LocksOf(d, stack)
    <3>1. Len(stack) # 0
      BY <1>1, NowIs, EmptySeq DEF Running
    <3>2. ASSUME NEW x \in El PROVE d.lock[x] = LocksIn(stack, x) + d.rpt[x]
      <4>1. c.lock[x] = LocksIn(stack, x) + c.rpt[x]
        BY <1>1, <2>1, NowIs DEF LocksOf, SameLocks
      <4>2. LocksIn(stack, x) \in Nat /\ c.rpt[x] \in Nat
        BY <1>1, <2>1, NowIs, HoldsAreNumbers, CacheFields DEF Consistent
      <4> QED  BY <2>3, <4>1, <4>2
    <3> QED  BY <3>1, <3>2 DEF LocksOf
  <2>5. Good(d, stack, irc, loose', leaked')
    BY <1>1, <2>3, <2>4, NowIs DEF Good
  <2>6. Inv' /\ cache'.key = d.key
    BY <1>1, <2>3, <2>5, NowIs, Committed DEF Now
  <2> QED  BY <2>1, <2>3, <2>6 DEF Kept, LockedKeep, SameLists
<1> QED  BY <1>3, <1>4

LEMMA LlrptUnlockStep ==
    ASSUME Inv, NEW k \in stored, LlrptUnlock(k)
    PROVE  Inv' /\ Kept
<1> DEFINE c == KeyToCacheel(cache, k)
           e == c.table[k]
           d == IF c.dead # "alive" THEN c ELSE UnlockRpt(c, e)
<1>1. /\ Running /\ cache.dead = "alive" /\ irc = "run" /\ k \in Key
      /\ Commit(d, stack, irc) /\ UNCHANGED <<stored, loose, leaked, jump>>
  BY NowIs DEF LlrptUnlock, At, Running
<1>2. Reads(cache, c, k) /\ (c.dead = "alive" => Counted(c, OutOf(stack, loose, leaked)))
  BY <1>1, NowIs, KeyToCacheelIs
<1> HIDE DEF c
<1>3. CASE c.dead # "alive"
  <2>1. d = c
    BY <1>3
  <2> QED  BY <1>1, <1>2, <1>3, <2>1, NowIs, ReadStep DEF Reads
<1>4. CASE c.dead = "alive"
  <2>1. /\ Consistent(c) /\ SameLocks(cache, c) /\ LockedKeep(cache, c)
        /\ Counted(c, OutOf(stack, loose, leaked)) /\ e \in El
    BY <1>2, <1>4 DEF Reads
  <2>2. d = UnlockRpt(c, e)
    BY <1>4
  <2> HIDE DEF d, e
  <2>3. /\ Consistent(d) /\ Counted(d, OutOf(stack, loose, leaked)) /\ SameLists(c, d)
        /\ d.dead = "alive" => \A x \in El :
              /\ d.lock[x] = IF x = e THEN c.lock[x] - 1 ELSE c.lock[x]
              /\ d.rpt[x] = IF x = e THEN c.rpt[x] - 1 ELSE c.rpt[x]
    BY <1>4, <2>1, <2>2, UnlockRptIs
  <2>4. ASSUME d.dead = "alive" PROVE LocksOf(d, stack)
    <3>1. Len(stack) # 0
      BY <1>1, NowIs, EmptySeq DEF Running
    <3>2. ASSUME NEW x \in El PROVE d.lock[x] = LocksIn(stack, x) + d.rpt[x]
      <4>1. c.lock[x] = LocksIn(stack, x) + c.rpt[x]
        BY <1>1, <2>1, NowIs DEF LocksOf, SameLocks
      <4>2. LocksIn(stack, x) \in Nat /\ c.rpt[x] \in Nat
        BY <1>1, <2>1, NowIs, HoldsAreNumbers, CacheFields DEF Consistent
      <4> QED  BY <2>3, <2>4, <4>1, <4>2
    <3> QED  BY <3>1, <3>2 DEF LocksOf
  <2>5. d.dead = "alive" => Good(d, stack, irc, loose', leaked')
    BY <1>1, <2>3, <2>4, NowIs DEF Good
  <2>6. Inv' /\ cache'.key = d.key
    BY <1>1, <2>3, <2>5, NowIs, Committed DEF Now
  <2> QED  BY <2>1, <2>3, <2>6 DEF Kept, LockedKeep, SameLists
<1> QED  BY <1>3, <1>4

(* Steps that only change where the report goes on.                          *)
LEMMA EndOfBodyStep ==
    ASSUME Inv, EndOfBody
    PROVE  Inv' /\ Kept
<1>1. /\ cache.dead = "alive" /\ irc' = "okay"
      /\ UNCHANGED <<cache, stored, stack, loose, leaked, jump>>
  BY DEF EndOfBody, At, Running
<1>2. TypeOK'
  BY <1>1, NowIs DEF Now, TypeOK
<1>3. Good(cache', stack', irc', loose', leaked')
  <2>1. Framed(stack, "okay")
    BY <1>1, NowIs DEF Framed
  <2> QED  BY <1>1, <2>1, NowIs DEF Good
<1> QED  BY <1>1, <1>2, <1>3 DEF Inv, Alive, Kept, LockedKeep

(* A body runs in a procedure, main at the least.                            *)
LEMMA InnermostIs ==
    ASSUME Inv, Running, NEW kinds
    PROVE  InnermostOf(kinds) \in 0..Depth /\ ("main" \in kinds => InnermostOf(kinds) > 0)
<1> DEFINE at == {i \in 1..Depth : stack[i].kind \in kinds}
           h == CHOOSE i \in at : \A j \in at : j <= i
<1>1. Depth \in Nat /\ at \in SUBSET (1..Depth) /\ cache.dead = "alive"
  BY NowIs DEF Running
<1>2. InnermostOf(kinds) = IF at = {} THEN 0 ELSE h
  BY DEF InnermostOf
<1>3. "main" \in kinds => at # {}
  <2>1. Depth # 0 /\ 1 \in 1..Depth
    BY <1>1, NowIs, EmptySeq DEF Running, Depth
  <2>2. stack[1].kind = "main"
    BY <1>1, <2>1, NowIs DEF Framed, FrameAt, Depth
  <2> QED  BY <2>1, <2>2
<1> HIDE DEF at
<1>4. at # {} => h \in at
  BY <1>1, HighestIn
<1> HIDE DEF h
<1>5. CASE at = {}
  BY <1>1, <1>2, <1>3, <1>5
<1>6. CASE at # {}
  <2>1. h \in 1..Depth /\ InnermostOf(kinds) = h
    BY <1>1, <1>2, <1>4, <1>6
  <2> QED  BY <1>1, <2>1
<1> QED  BY <1>5, <1>6

LEMMA JumpStep ==
    ASSUME Inv, NEW how \in Jumps, Jump(how)
    PROVE  Inv' /\ Kept
<1>1. /\ Running /\ cache.dead = "alive" /\ irc' = how /\ jump' = [how |-> how, to |-> Target(how)]
      /\ UNCHANGED <<cache, stored, stack, loose, leaked>>
  BY DEF Jump, At, Running
<1>2. Target(how) \in Nat
  <2>1. Loop \in Nat
    BY <1>1, NowIs, InnermostIs DEF Loop
  <2>2. InnermostOf(Procs) - 1 \in Nat
    BY <1>1, NowIs, MainIs, InnermostIs
  <2> QED  BY <2>1, <2>2 DEF Target, Jumps
<1>3. TypeOK'
  BY <1>1, <1>2, NowIs DEF Now, TypeOK
<1>4. Good(cache', stack', irc', loose', leaked')
  <2>1. Framed(stack, how)
    BY <1>1, NowIs DEF Framed, Jumps
  <2> QED  BY <1>1, <2>1, NowIs DEF Good
<1> QED  BY <1>1, <1>3, <1>4 DEF Inv, Alive, Kept, LockedKeep

LEMMA EnterStep ==
    ASSUME Inv, NEW kind \in Used, Enter(kind)
    PROVE  Inv' /\ Kept
<1> DEFINE sh == Shape[kind]
           out == OutOf(stack, loose, leaked)
<1>1. /\ Running /\ cache.dead = "alive" /\ irc = "run"
      /\ UNCHANGED <<stored, loose, leaked, jump>>
  BY DEF Enter, At, Running
<1>2. kind \in Kind /\ kind # "main" /\ sh.tree \in BOOLEAN /\ (sh.tree => sh.outer = None)
  BY ReportAssumption, ShapeSound DEF Sound
<1>3. Len(stack) # 0 /\ \A i \in 1..Len(stack) : FrameAt(stack[i], i)
  BY <1>1, NowIs, EmptySeq DEF Running, Framed
<1>4. CASE sh.outer = None /\ ~sh.tree
  <2> DEFINE f == NewFrame(kind, NoEl)
             res == IF kind \in Once THEN "run" ELSE "next"
  <2>1. Commit(cache, Append(stack, f), res)
    BY <1>4 DEF Enter
  <2>2. \A e \in El : cache.lock[e] = LocksIn(stack, e) + HoldsRoot(f, e) + cache.rpt[e]
    <3>1. \A e : HoldsRoot(f, e) = 0
      BY <1>2, <1>4, NewFrameIs DEF HoldsRoot
    <3>2. \A e \in El : LocksIn(stack, e) \in Nat /\ cache.lock[e] = LocksIn(stack, e) + cache.rpt[e]
      BY <1>1, NowIs, HoldsAreNumbers DEF LocksOf
    <3> HIDE DEF f
    <3> QED  BY <3>1, <3>2
  <2>3. Append(stack, f) \in Seq(Frame) /\ Good(cache, Append(stack, f), res, loose, leaked)
    BY <1>1, <1>2, <1>3, <1>4, <2>2, NowIs, GoodPush
  <2>4. res \in Results
    BY DEF Results
  <2> HIDE DEF f, res
  <2>5. Inv' /\ cache'.key = cache.key
    BY <1>1, <2>1, <2>3, <2>4, NowIs, Committed DEF Now
  <2> QED  BY <2>5 DEF Kept, LockedKeep
<1>5. CASE ~(sh.outer = None /\ ~sh.tree)
  <2>1. PICK k \in stored :
          LET d == KeyToCacheel(cache, k)
              e == d.table[k]
          IN Commit(IF sh.tree \/ d.dead # "alive" THEN d ELSE LockCache(d, e),
                    Append(stack, NewFrame(kind, e)), "next")
    BY <1>5 DEF Enter
  <2> DEFINE c == KeyToCacheel(cache, k)
             e == c.table[k]
             d == IF sh.tree \/ c.dead # "alive" THEN c ELSE LockCache(c, e)
             f == NewFrame(kind, e)
             st == Append(stack, f)
  <2>2. Commit(d, st, "next") /\ "next" \in Results
    BY <2>1 DEF Results
  <2>3. k \in Key /\ Reads(cache, c, k) /\ (c.dead = "alive" => Counted(c, out))
    BY <1>1, NowIs, KeyToCacheelIs
  <2> HIDE DEF c
  <2>4. kind \notin Once
    BY <1>2, <1>5 DEF Once, Shape, InterpCall, InterpIf, Plain
  <2>5. CASE c.dead # "alive"
    <3>1. d = c
      BY <2>5
    <3> HIDE DEF d, st
    <3>2. Inv' /\ cache'.key = d.key
      BY <1>1, <2>2, <2>3, <2>5, <3>1, NowIs, Committed DEF Now, Reads
    <3> QED  BY <2>3, <3>1, <3>2 DEF Kept, LockedKeep, Reads
  <2>6. CASE c.dead = "alive"
    <3>1. /\ Consistent(c) /\ SameLocks(cache, c) /\ LockedKeep(cache, c) /\ Counted(c, out)
          /\ e \in El
      BY <2>3, <2>6 DEF Reads
    <3>2. c.key[e] # NoKey
      BY <2>3, <3>1, RecordOfIs, Constants
    <3>3. \A x \in El : /\ c.lock[x] = LocksIn(stack, x) + c.rpt[x]
                        /\ LocksIn(stack, x) \in Nat /\ c.rpt[x] \in Nat
      BY <1>1, <3>1, NowIs, HoldsAreNumbers, CacheFields DEF LocksOf, SameLocks, Consistent
    <3> HIDE DEF e
    <3>4. f \in Frame /\ f.kind = kind /\ f.root = e
      BY <1>2, <3>1, NewFrameIs
    <3>5. /\ Consistent(d) /\ Counted(d, out) /\ SameLists(c, d)
          /\ \A x \in El : d.lock[x] = LocksIn(stack, x) + HoldsRoot(f, x) + d.rpt[x]
      <4>1. CASE sh.tree
        <5>1. d = c /\ \A x : HoldsRoot(f, x) = 0
          BY <1>2, <3>4, <4>1 DEF HoldsRoot
        <5> HIDE DEF d, f
        <5> QED  BY <3>1, <3>3, <5>1 DEF SameLists
      <4>2. CASE ~sh.tree
        <5>1. d = LockCache(c, e) /\ sh.outer # None
          BY <1>5, <2>6, <4>2
        <5>2. \A x : HoldsRoot(f, x) = IF x = e THEN 1 ELSE 0
          BY <3>4, <5>1 DEF HoldsRoot
        <5> HIDE DEF d, f
        <5>3. /\ Consistent(d) /\ Counted(d, out) /\ SameLists(c, d) /\ d.dead = c.dead
              /\ \A x \in El : d.lock[x] = IF x = e THEN c.lock[x] + 1 ELSE c.lock[x]
              /\ d.rpt = c.rpt
          BY <3>1, <3>2, <5>1, LockCacheIs
        <5>4. ASSUME NEW x \in El
              PROVE  d.lock[x] = LocksIn(stack, x) + HoldsRoot(f, x) + d.rpt[x]
          BY <3>3, <5>2, <5>3
        <5> QED  BY <5>3, <5>4
      <4> QED  BY <1>2, <4>1, <4>2
    <3> HIDE DEF d
    <3>6. st \in Seq(Frame) /\ Good(d, st, "next", loose, leaked)
      BY <1>1, <1>2, <1>3, <2>4, <3>1, <3>5, NowIs, GoodPush
    <3> HIDE DEF st, f
    <3>7. Inv' /\ cache'.key = d.key
      BY <1>1, <2>2, <3>5, <3>6, NowIs, Committed DEF Now
    <3> QED  BY <3>1, <3>5, <3>7 DEF Kept, LockedKeep, SameLists
  <2> QED  BY <2>5, <2>6
<1> QED  BY <1>4, <1>5

-----------------------------------------------------------------------------
(* What loops do with the records of an item.                                *)

LEMMA LockAllIs ==
    ASSUME NEW c, Consistent(c), NEW out, Counted(c, out), NEW S,
           \A e \in S : e \in El /\ c.key[e] # NoKey, NEW d, d = LockAll(c, S)
    PROVE  /\ Consistent(d) /\ Counted(d, out) /\ SameLists(c, d) /\ d.dead = c.dead
           /\ \A x \in El : d.lock[x] = IF x \in S THEN c.lock[x] + 1 ELSE c.lock[x]
           /\ d.rpt = c.rpt
<1> DEFINE lk == [x \in El |-> IF x \in S THEN c.lock[x] + 1 ELSE c.lock[x]]
<1>1. c \in CacheType /\ c.lock \in [El -> Nat] /\ c.rpt \in [El -> Nat]
  BY CacheFields DEF Consistent
<1>2. lk \in [El -> Nat] /\ \A x \in El : lk[x] = IF x \in S THEN c.lock[x] + 1 ELSE c.lock[x]
  BY <1>1
<1>3. d = Relocked(c, lk, c.rpt)
  BY <1>1 DEF LockAll, CacheType, Relocked
<1> HIDE DEF lk
<1>4. LocksFor(c, lk, c.rpt)
  <2>1. \A x \in El : (c.key[x] = NoKey => c.lock[x] = 0) /\ c.rpt[x] <= c.lock[x]
    BY DEF Consistent, RecordsLinked
  <2> QED  BY <1>1, <1>2, <2>1 DEF LocksFor
<1>5. Consistent(d) /\ Counted(d, out) /\ SameLists(c, d) /\ d.lock = lk /\ d.rpt = c.rpt /\ d.dead = c.dead
  BY <1>3, <1>4, RelockIs
<1> QED  BY <1>2, <1>5

LEMMA DieKeeps ==
    ASSUME NEW c, Consistent(c), NEW out, Counted(c, out), NEW how \in Deaths, NEW d, d = Die(c, how)
    PROVE  /\ Consistent(d) /\ Counted(d, out) /\ SameLists(c, d) /\ SameLocks(c, d) /\ d.dead = how
           /\ d.crec = c.crec
<1>1. /\ Consistent(d) /\ d.dead = how /\ SameLists(c, d) /\ SameLocks(c, d)
      /\ d.crec = c.crec /\ d.rcel = c.rcel /\ d.refs = c.refs
  BY DieIs
<1>2. Counted(d, out)
  BY <1>1 DEF Counted, Own
<1> QED  BY <1>1, <1>2

(* Unlocking elements, each locked more often than the report locked it.     *)
LEMMA UnlockAllIs ==
    ASSUME NEW c, Consistent(c), NEW out, Counted(c, out), NEW S,
           \A e \in S : e \in El /\ c.rpt[e] < c.lock[e], NEW d, d = UnlockAll(c, S)
    PROVE  /\ Consistent(d) /\ Counted(d, out) /\ SameLists(c, d) /\ d.dead = c.dead
           /\ \A x \in El :
                 /\ d.lock[x] = IF x \in S THEN c.lock[x] - 1 ELSE c.lock[x]
                 /\ d.rpt[x] = c.rpt[x]
<1>1. c \in CacheType /\ c.lock \in [El -> Nat] /\ c.rpt \in [El -> Nat]
  BY CacheFields DEF Consistent
<1>2. ~(\E e \in S : c.lock[e] = 0 \/ c.key[e] = NoKey)
  <2>1. ASSUME NEW e \in S PROVE c.lock[e] # 0 /\ c.key[e] # NoKey
    <3>1. e \in El /\ c.rpt[e] < c.lock[e] /\ c.rpt[e] \in Nat /\ c.lock[e] \in Nat
      BY <1>1
    <3>2. c.lock[e] # 0
      BY <3>1
    <3> QED  BY <3>1, <3>2 DEF Consistent, RecordsLinked
  <2> QED  BY <2>1
<1> DEFINE lk == [x \in El |-> IF x \in S THEN c.lock[x] - 1 ELSE c.lock[x]]
<1>3. ASSUME NEW x \in El
      PROVE  /\ lk[x] = IF x \in S THEN c.lock[x] - 1 ELSE c.lock[x]
             /\ lk[x] \in Nat /\ c.rpt[x] <= lk[x] /\ (c.key[x] = NoKey => lk[x] = 0)
  <2>1. (c.key[x] = NoKey => c.lock[x] = 0) /\ c.rpt[x] <= c.lock[x]
        /\ c.lock[x] \in Nat /\ c.rpt[x] \in Nat
    BY <1>1 DEF Consistent, RecordsLinked
  <2>2. lk[x] = IF x \in S THEN c.lock[x] - 1 ELSE c.lock[x]
    OBVIOUS
  <2>3. x \in S => c.rpt[x] < c.lock[x] /\ c.key[x] # NoKey
    BY <1>2
  <2> HIDE DEF lk
  <2> QED  BY <2>1, <2>2, <2>3
<1>4. lk \in [El -> Nat]
  BY <1>3
<1>5. d = Relocked(c, lk, c.rpt)
  BY <1>1, <1>2 DEF UnlockAll, CacheType, Relocked
<1> HIDE DEF lk
<1>6. LocksFor(c, lk, c.rpt)
  BY <1>1, <1>3, <1>4 DEF LocksFor
<1>7. Consistent(d) /\ Counted(d, out) /\ SameLists(c, d) /\ d.lock = lk /\ d.rpt = c.rpt /\ d.dead = c.dead
  BY <1>5, <1>6, RelockIs
<1> QED  BY <1>3, <1>7

(* References that come and go, one record or none at a time.                *)
Plus(out, r) == IF r = NoRec THEN out ELSE More(out, r)

LEMMA PlusIs ==
    ASSUME NEW out \in [Rec -> Nat], NEW r \in Rec \cup {NoRec}
    PROVE  Plus(out, r) \in [Rec -> Nat] /\ \A q \in Rec : Plus(out, r)[q] = out[q] + Bit(r, q)
  BY Constants DEF Plus, More, Bit

LEMMA SameCount ==
    ASSUME NEW c, NEW a, Counted(c, a), NEW b \in [Rec -> Nat], \A q \in Rec : a[q] = b[q]
    PROVE  Counted(c, b)
  BY DEF Counted

LEMMA ReleaseIfIs ==
    ASSUME NEW c, Consistent(c), NEW base \in [Rec -> Nat], NEW r \in Rec \cup {NoRec},
           NEW out, Counted(c, out), \A q \in Rec : out[q] = base[q] + Bit(r, q),
           NEW d, d = ReleaseIf(c, r)
    PROVE  /\ Consistent(d) /\ Counted(d, base)
           /\ SameLists(c, d) /\ SameLocks(c, d) /\ d.dead = c.dead /\ d.crec = c.crec
<1>1. CASE r = NoRec
  <2>1. d = c
    BY <1>1 DEF ReleaseIf
  <2>2. \A q \in Rec : out[q] = base[q]
    BY <1>1, Constants DEF Bit
  <2> QED  BY <2>1, <2>2, SameCount DEF SameLists, SameLocks
<1>2. CASE r # NoRec
  <2>1. r \in Rec /\ d = Release(c, r)
    BY <1>2 DEF ReleaseIf
  <2>2. out \in [Rec -> Nat] /\ out[r] > 0
    BY <2>1 DEF Bit, Counted
  <2>3. /\ Consistent(d) /\ Counted(d, Less(out, r))
        /\ SameLists(c, d) /\ SameLocks(c, d) /\ d.dead = c.dead /\ d.crec = c.crec
    BY <2>1, <2>2, ReleaseIs
  <2>4. \A q \in Rec : Less(out, r)[q] = base[q]
    BY <2>1, <2>2 DEF Less, Bit
  <2> QED  BY <2>3, <2>4, SameCount
<1> QED  BY <1>1, <1>2

(* The variables of a frame go.                                              *)
LEMMA ReleaseVarsIs ==
    ASSUME NEW c, Consistent(c), NEW base \in [Rec -> Nat], NEW v \in [Roles -> Rec \cup {NoRec}],
           NEW out, Counted(c, out), \A q \in Rec : out[q] = base[q] + Held(v, q),
           NEW d, d = ReleaseVars(c, v)
    PROVE  /\ Consistent(d) /\ Counted(d, base)
           /\ SameLists(c, d) /\ SameLocks(c, d) /\ d.dead = c.dead /\ d.crec = c.crec
<1> DEFINE b1 == Plus(base, v.other)
           b2 == Plus(b1, v.wife)
           b3 == Plus(b2, v.indi)
           c1 == ReleaseIf(c, v.fam)
           c2 == ReleaseIf(c1, v.indi)
           c3 == ReleaseIf(c2, v.wife)
<1>1. /\ v.fam \in Rec \cup {NoRec} /\ v.indi \in Rec \cup {NoRec}
      /\ v.wife \in Rec \cup {NoRec} /\ v.other \in Rec \cup {NoRec}
  BY DEF Roles
<1>2. d = ReleaseIf(c3, v.other)
  BY DEF ReleaseVars
<1>3. b1 \in [Rec -> Nat] /\ \A q \in Rec : b1[q] = base[q] + Bit(v.other, q)
  BY <1>1, PlusIs
<1> HIDE DEF b1
<1>4. b2 \in [Rec -> Nat] /\ \A q \in Rec : b2[q] = b1[q] + Bit(v.wife, q)
  BY <1>1, <1>3, PlusIs
<1> HIDE DEF b2
<1>5. b3 \in [Rec -> Nat] /\ \A q \in Rec : b3[q] = b2[q] + Bit(v.indi, q)
  BY <1>1, <1>4, PlusIs
<1> HIDE DEF b3
<1>6. \A q \in Rec : out[q] = b3[q] + Bit(v.fam, q)
  BY <1>3, <1>4, <1>5 DEF Held, Bit
<1>7. Consistent(c1) /\ Counted(c1, b3)
      /\ SameLists(c, c1) /\ SameLocks(c, c1) /\ c1.dead = c.dead /\ c1.crec = c.crec
  BY <1>1, <1>5, <1>6, ReleaseIfIs
<1> HIDE DEF c1
<1>8. Consistent(c2) /\ Counted(c2, b2)
      /\ SameLists(c1, c2) /\ SameLocks(c1, c2) /\ c2.dead = c1.dead /\ c2.crec = c1.crec
  BY <1>1, <1>4, <1>5, <1>7, ReleaseIfIs
<1> HIDE DEF c2
<1>9. Consistent(c3) /\ Counted(c3, b1)
      /\ SameLists(c2, c3) /\ SameLocks(c2, c3) /\ c3.dead = c2.dead /\ c3.crec = c2.crec
  BY <1>1, <1>3, <1>4, <1>8, ReleaseIfIs
<1> HIDE DEF c3
<1>10. Consistent(d) /\ Counted(d, base)
       /\ SameLists(c3, d) /\ SameLocks(c3, d) /\ d.dead = c3.dead /\ d.crec = c3.crec
  BY <1>1, <1>2, <1>3, <1>9, ReleaseIfIs
<1> QED  BY <1>7, <1>8, <1>9, <1>10 DEF SameLists, SameLocks

-----------------------------------------------------------------------------
(* Reading the records of an item.                                           *)

\* d is what a part of a step makes of the caches c
Steps(c, d) ==
    /\ Consistent(d) /\ SameLocks(c, d) /\ LockedKeep(c, d)
    /\ d.dead = "alive" => c.dead = "alive"

LEMMA StepsTrans ==
    ASSUME NEW b, NEW c, NEW d, Steps(b, c), Steps(c, d)
    PROVE  Steps(b, d)
  BY DEF Steps, SameLocks, LockedKeep

LEMMA StepsRefl == ASSUME NEW c, Consistent(c) PROVE Steps(c, c)
  BY DEF Steps, SameLocks, LockedKeep

Item == [fam : Key \cup {NoKey}, indi : Key \cup {NoKey}, wife : Key \cup {NoKey},
         other : Key \cup {NoKey}]

\* the records that the function may find for an item
ItemOf(it, sh) ==
    /\ it \in Item
    /\ \A role \in Roles :
          /\ it[role] # NoKey => role \in sh.reads /\ TypeOf[it[role]] = RoleType(role, sh)
          /\ role \in sh.always => it[role] # NoKey

LEMMA ChoiceIs ==
    ASSUME stored \subseteq Key, NEW role \in Roles, NEW sh, NEW k \in Choice(role, sh)
    PROVE  /\ k \in Key \cup {NoKey}
           /\ k # NoKey => role \in sh.reads /\ TypeOf[k] = RoleType(role, sh)
           /\ role \in sh.always => k # NoKey
  BY Constants DEF Choice

LEMMA ItemIs ==
    ASSUME stored \subseteq Key, NEW sh,
           NEW f \in Choice("fam", sh), NEW i \in Choice("indi", sh),
           NEW w \in Choice("wife", sh), NEW o \in Choice("other", sh),
           NEW it, it = [fam |-> f, indi |-> i, wife |-> w, other |-> o]
    PROVE  ItemOf(it, sh)
<1>1. /\ "fam" \in Roles /\ "indi" \in Roles /\ "wife" \in Roles /\ "other" \in Roles
  BY DEF Roles
<1>2. it \in Item
  BY <1>1, ChoiceIs DEF Item
<1>3. ASSUME NEW role \in Roles
      PROVE  /\ it[role] # NoKey => role \in sh.reads /\ TypeOf[it[role]] = RoleType(role, sh)
             /\ role \in sh.always => it[role] # NoKey
  <2>1. it[role] \in Choice(role, sh)
    BY DEF Roles
  <2> QED  BY <2>1, ChoiceIs
<1> QED  BY <1>2, <1>3 DEF ItemOf

LEMMA LoadIs ==
    ASSUME NEW c, Consistent(c), NEW out, c.dead = "alive" => Counted(c, out),
           NEW k \in Key \cup {NoKey}, NEW ref \in BOOLEAN, NEW d, d = Load(c, k, ref)
    PROVE  /\ Steps(c, d)
           /\ k = NoKey => d = c
           /\ k # NoKey /\ d.dead = "alive" =>
                d.table[k] \in El /\ RecordOf(d, k) \in Rec /\ OnlyOf(c, d, TypeOf[k])
           /\ d.dead = "alive" =>
                Counted(d, IF ref /\ k # NoKey THEN More(out, RecordOf(d, k)) ELSE out)
<1>1. CASE k = NoKey \/ c.dead # "alive"
  <2>1. d = c
    BY <1>1 DEF Load
  <2> QED  BY <1>1, <2>1, StepsRefl
<1>2. CASE k # NoKey /\ c.dead = "alive" /\ ref
  <2>1. d = KeyToRecord(c, k) /\ k \in Key
    BY <1>2 DEF Load
  <2>2. /\ Reads(c, d, k)
        /\ d.dead = "alive" => RecordOf(d, k) \in Rec /\ Counted(d, More(out, RecordOf(d, k)))
    BY <1>2, <2>1, KeyToRecordIs
  <2> QED  BY <1>2, <2>2 DEF Reads, Steps
<1>3. CASE k # NoKey /\ c.dead = "alive" /\ ~ref
  <2>1. d = KeyToCacheel(c, k) /\ k \in Key
    BY <1>3 DEF Load
  <2>2. Reads(c, d, k) /\ (d.dead = "alive" => Counted(d, out))
    BY <1>3, <2>1, KeyToCacheelIs
  <2>3. d.dead = "alive" => RecordOf(d, k) \in Rec
    BY <2>1, <2>2, RecordOfIs, Constants DEF Reads
  <2> QED  BY <1>3, <2>2, <2>3 DEF Reads, Steps
<1> QED  BY <1>1, <1>2, <1>3

LEMMA LoadPlainIs ==
    ASSUME NEW c, Consistent(c), NEW out, c.dead = "alive" => Counted(c, out),
           NEW k \in Key \cup {NoKey}, NEW no \in BOOLEAN, ~no, NEW d, d = Load(c, k, no)
    PROVE  /\ Steps(c, d)
           /\ k = NoKey => d = c
           /\ k # NoKey /\ d.dead = "alive" =>
                d.table[k] \in El /\ RecordOf(d, k) \in Rec /\ OnlyOf(c, d, TypeOf[k])
           /\ d.dead = "alive" => Counted(d, out)
<1>1. /\ Steps(c, d)
      /\ k = NoKey => d = c
      /\ k # NoKey /\ d.dead = "alive" =>
           d.table[k] \in El /\ RecordOf(d, k) \in Rec /\ OnlyOf(c, d, TypeOf[k])
      /\ d.dead = "alive" =>
           Counted(d, IF no /\ k # NoKey THEN More(out, RecordOf(d, k)) ELSE out)
  BY LoadIs
<1>2. (IF no /\ k # NoKey THEN More(out, RecordOf(d, k)) ELSE out) = out
  OBVIOUS
<1> QED  BY <1>1, <1>2

\* what the macro of the loop has a reference to
MacroOf(c, it, sh) == IF sh.macro # None THEN RecordOf(c, it[sh.macro]) ELSE NoRec

(* A record stays in its cache while others of another type are read.        *)
LEMMA StaysIn ==
    ASSUME NEW c, Consistent(c), NEW k \in Key, c.table[k] \in El,
           NEW t, TypeOf[k] # t, NEW d, OnlyOf(c, d, t)
    PROVE  d.table[k] = c.table[k] /\ RecordOf(d, k) = RecordOf(c, k)
<1>1. d.table[k] = c.table[k]
  BY DEF OnlyOf
<1>2. c.key[c.table[k]] = k /\ k # NoKey /\ TypeOf[k] = Cache[c.table[k]]
  BY Constants DEF Consistent, TableExact
<1> QED  BY <1>1, <1>2 DEF OnlyOf, RecordOf

LEMMA ReadItemIs ==
    ASSUME NEW c, Consistent(c), NEW out, Counted(c, out), c.dead = "alive",
           NEW sh, Sound(sh), NEW it, ItemOf(it, sh), NEW d, d = ReadItem(c, it, sh)
    PROVE  /\ Steps(c, d)
           /\ d.dead = "alive" =>
                /\ MacroOf(d, it, sh) \in Rec \cup {NoRec}
                /\ sh.macro # None => MacroOf(d, it, sh) \in Rec
                /\ Counted(d, Plus(out, MacroOf(d, it, sh)))
<1>a. PICK fam \in BOOLEAN : fam <=> sh.macro = "fam"
  OBVIOUS
<1>b. PICK indi \in BOOLEAN : indi <=> sh.macro = "indi"
  OBVIOUS
<1>c. PICK no \in BOOLEAN : ~no
  OBVIOUS
<1> DEFINE c1 == Load(c, it.fam, fam)
           c2 == Load(c1, it.indi, indi)
           c3 == Load(c2, it.wife, no)
<1>0. d = Load(c3, it.other, no)
  <2>1. Load(c, it.fam, sh.macro = "fam") = c1
    BY <1>a DEF Load
  <2>2. Load(c1, it.indi, sh.macro = "indi") = c2
    BY <1>b DEF Load
  <2>3. Load(c2, it.wife, FALSE) = c3
    BY <1>c DEF Load
  <2>4. Load(c3, it.other, FALSE) = Load(c3, it.other, no)
    BY <1>c DEF Load
  <2> HIDE DEF c1, c2, c3
  <2>5. d = Load(Load(Load(Load(c, it.fam, sh.macro = "fam"), it.indi, sh.macro = "indi"),
                      it.wife, FALSE), it.other, FALSE)
    BY DEF ReadItem
  <2> QED  BY <2>1, <2>2, <2>3, <2>4, <2>5
<1>1. /\ it.fam \in Key \cup {NoKey} /\ it.indi \in Key \cup {NoKey}
      /\ it.wife \in Key \cup {NoKey} /\ it.other \in Key \cup {NoKey}
  BY DEF ItemOf, Item
<1>2. /\ it.fam # NoKey => TypeOf[it.fam] = "FAM"
      /\ it.indi # NoKey => TypeOf[it.indi] = "INDI"
      /\ it.wife # NoKey => TypeOf[it.wife] = "INDI"
  BY DEF ItemOf, Roles, RoleType
<1>3. /\ sh.macro \in {None, "fam", "indi"}
      /\ sh.macro = "fam" => it.fam # NoKey /\ it.other = NoKey
      /\ sh.macro = "indi" => it.indi # NoKey /\ it.other = NoKey /\ it.wife = NoKey
      /\ None # "fam" /\ None # "indi"
  <2>1. "other" \notin sh.reads => it.other = NoKey
    BY DEF ItemOf, Roles
  <2>2. "wife" \notin sh.reads => it.wife = NoKey
    BY DEF ItemOf, Roles
  <2>3. ("fam" \in sh.always => it.fam # NoKey) /\ ("indi" \in sh.always => it.indi # NoKey)
    BY DEF ItemOf, Roles
  <2> QED  BY <2>1, <2>2, <2>3 DEF Sound, None
<1> DEFINE m == MacroOf(d, it, sh)
           o1 == IF fam /\ it.fam # NoKey THEN More(out, RecordOf(c1, it.fam)) ELSE out
           o2 == IF indi /\ it.indi # NoKey THEN More(o1, RecordOf(c2, it.indi)) ELSE o1
<1>4. /\ Steps(c, c1)
      /\ it.fam # NoKey /\ c1.dead = "alive" => c1.table[it.fam] \in El /\ RecordOf(c1, it.fam) \in Rec
      /\ c1.dead = "alive" => Counted(c1, o1)
  BY <1>1, LoadIs
<1> HIDE DEF c1
<1>5. /\ Steps(c1, c2)
      /\ it.indi = NoKey => c2 = c1
      /\ it.indi # NoKey /\ c2.dead = "alive" =>
           c2.table[it.indi] \in El /\ RecordOf(c2, it.indi) \in Rec /\ OnlyOf(c1, c2, TypeOf[it.indi])
      /\ c2.dead = "alive" => Counted(c2, o2)
  <2> HIDE DEF o1
  <2> QED  BY <1>1, <1>4, LoadIs DEF Steps
<1> HIDE DEF c2
<1>6. /\ Steps(c2, c3)
      /\ it.wife = NoKey => c3 = c2
      /\ it.wife # NoKey /\ c3.dead = "alive" => OnlyOf(c2, c3, TypeOf[it.wife])
      /\ c3.dead = "alive" => Counted(c3, o2)
  <2>1. c3 = Load(c2, it.wife, no)
    OBVIOUS
  <2> HIDE DEF o2, c3
  <2>2. Consistent(c2) /\ (c2.dead = "alive" => Counted(c2, o2))
    BY <1>5 DEF Steps
  <2> QED  BY <1>1, <1>c, <2>1, <2>2, LoadPlainIs
<1> HIDE DEF c3
<1>7. /\ Steps(c3, d)
      /\ it.other = NoKey => d = c3
      /\ d.dead = "alive" => Counted(d, o2)
  <2> HIDE DEF o2
  <2> QED  BY <1>0, <1>1, <1>6, <1>c, LoadPlainIs DEF Steps
<1>8. Steps(c, d)
  BY <1>4, <1>5, <1>6, <1>7, StepsTrans
<1>9. ASSUME d.dead = "alive"
      PROVE  m \in Rec \cup {NoRec} /\ (sh.macro # None => m \in Rec) /\ Counted(d, Plus(out, m))
  <2>1. /\ c1.dead = "alive" /\ c2.dead = "alive" /\ c3.dead = "alive" /\ Counted(d, o2)
        /\ Consistent(c1) /\ Consistent(c2) /\ Consistent(c3)
    BY <1>4, <1>5, <1>6, <1>7, <1>9 DEF Steps
  <2>2. CASE sh.macro = "fam"
    <3>1. it.fam \in Key /\ it.other = NoKey /\ c1.table[it.fam] \in El /\ RecordOf(c1, it.fam) \in Rec
      BY <1>1, <1>3, <1>4, <2>1, <2>2
    <3>2. c2.table[it.fam] = c1.table[it.fam] /\ RecordOf(c2, it.fam) = RecordOf(c1, it.fam)
      <4>1. CASE it.indi = NoKey
        BY <1>5, <4>1
      <4>2. CASE it.indi # NoKey
        BY <1>2, <1>3, <1>5, <2>1, <2>2, <3>1, <4>2, StaysIn
      <4> QED  BY <4>1, <4>2
    <3>3. c3.table[it.fam] = c2.table[it.fam] /\ RecordOf(c3, it.fam) = RecordOf(c2, it.fam)
      <4>1. CASE it.wife = NoKey
        BY <1>6, <4>1
      <4>2. CASE it.wife # NoKey
        BY <1>2, <1>3, <1>6, <2>1, <2>2, <3>1, <3>2, <4>2, StaysIn
      <4> QED  BY <4>1, <4>2
    <3>4. m = RecordOf(c1, it.fam) /\ m # NoRec
      BY <1>3, <1>7, <2>2, <3>1, <3>2, <3>3, Constants DEF MacroOf
    <3>5. o2 = More(out, m)
      BY <1>a, <1>b, <1>3, <2>2, <3>1, <3>4, Constants
    <3> QED  BY <2>1, <3>1, <3>4, <3>5 DEF Plus
  <2>3. CASE sh.macro = "indi"
    <3>1. /\ it.indi # NoKey /\ it.other = NoKey /\ it.wife = NoKey /\ RecordOf(c2, it.indi) \in Rec
          /\ d = c2
      BY <1>3, <1>5, <1>6, <1>7, <2>1, <2>3
    <3>2. m = RecordOf(c2, it.indi) /\ m # NoRec
      BY <1>3, <2>3, <3>1, Constants DEF MacroOf
    <3>3. o2 = More(out, m)
      BY <1>a, <1>b, <2>3, <3>1, <3>2
    <3> QED  BY <2>1, <3>1, <3>2, <3>3 DEF Plus
  <2>4. CASE sh.macro = None
    <3>1. m = NoRec /\ o2 = out
      BY <1>a, <1>b, <1>3, <2>4 DEF MacroOf
    <3> QED  BY <2>1, <2>4, <3>1 DEF Plus
  <2> QED  BY <1>3, <2>2, <2>3, <2>4
<1> QED  BY <1>8, <1>9

-----------------------------------------------------------------------------
(* Making the values of the loop variables.                                  *)

\* every record is found in the same element
SameFinds(c, d) == d.table = c.table /\ d.crec = c.crec /\ d.key = c.key

\* the value of the role that no variable gets
SpareOf(v, role, sh) == IF sh.spare = role THEN v[role] ELSE NoRec

LEMMA LocalRecordsSame ==
    ASSUME NEW c, NEW d, SameFinds(c, d), NEW it, NEW sh
    PROVE  LocalRecords(d, it, sh) = LocalRecords(c, it, sh)
  BY DEF SameFinds, LocalRecords, RecordOf

\* the references that making the value of a role adds to out
Adds(out, base, v, role, sh) ==
    /\ base \in [Rec -> Nat]
    /\ \A q \in Rec : base[q] = out[q] + Bit(v[role], q) + Bit(SpareOf(v, role, sh), q)

\* a record of the item is in its cache no more
Lacks(c, it) == \E role \in Roles : it[role] # NoKey /\ c.table[it[role]] = NoEl

\* making values fails on such a record only
Fails(c, d, it) == d.dead = c.dead \/ (c.dead = "alive" /\ d.dead = "dangling" /\ Lacks(c, it))

\* what making the value of a role does
Made(c, d, base, v, role, it, sh) ==
    /\ Steps(c, d) /\ Fails(c, d, it)
    /\ d.dead = "alive" =>
         /\ SameFinds(c, d) /\ Counted(d, base) /\ v[role] \in Rec \cup {NoRec}
         /\ role \in sh.locals /\ it[role] # NoKey => c.table[it[role]] \in El

LEMMA MakeValueIs ==
    ASSUME NEW c, Consistent(c), NEW out \in [Rec -> Nat], c.dead = "alive" => Counted(c, out),
           NEW sh, NEW it \in Item, NEW role \in Roles,
           NEW v, c.dead = "alive" => v = LocalRecords(c, it, sh),
           NEW base, Adds(out, base, v, role, sh),
           NEW d, d = MakeValue(c, it, role, sh)
    PROVE  Made(c, d, base, v, role, it, sh)
<1>a. /\ base \in [Rec -> Nat]
      /\ \A q \in Rec : base[q] = out[q] + Bit(v[role], q) + Bit(SpareOf(v, role, sh), q)
  BY DEF Adds
<1> SUFFICES /\ Steps(c, d) /\ Fails(c, d, it)
             /\ d.dead = "alive" =>
                  /\ SameFinds(c, d) /\ Counted(d, base) /\ v[role] \in Rec \cup {NoRec}
                  /\ role \in sh.locals /\ it[role] # NoKey => c.table[it[role]] \in El
  BY DEF Made
<1> DEFINE k == it[role]
<1>0. k \in Key \cup {NoKey}
  BY DEF Item, Roles
<1>1. c.dead = "alive" =>
        v[role] = IF role \in sh.locals /\ k # NoKey THEN RecordOf(c, k) ELSE NoRec
  BY DEF LocalRecords
<1>2. CASE c.dead # "alive"
  <2>1. d = c
    BY <1>2 DEF MakeValue
  <2> QED  BY <1>2, <2>1, StepsRefl DEF Fails
<1>3. CASE c.dead = "alive" /\ (role \notin sh.locals \/ k = NoKey)
  <2>1. d = c /\ v[role] = NoRec /\ SpareOf(v, role, sh) = NoRec
    BY <1>1, <1>3 DEF MakeValue, SpareOf
  <2>2. \A q \in Rec : out[q] = base[q]
    BY <1>a, <2>1, Constants DEF Bit
  <2> QED  BY <1>a, <1>3, <2>1, <2>2, StepsRefl, SameCount DEF SameFinds, Fails
<1>4. CASE c.dead = "alive" /\ role \in sh.locals /\ k # NoKey /\ c.table[k] = NoEl
  <2>1. d = Die(c, "dangling") /\ "dangling" \in Deaths /\ "dangling" # "alive"
    BY <1>4 DEF MakeValue, Deaths
  <2>2. Consistent(d) /\ SameLists(c, d) /\ SameLocks(c, d) /\ d.dead = "dangling"
    BY <1>4, <2>1, DieKeeps
  <2>3. Lacks(c, it)
    BY <1>4 DEF Lacks
  <2> QED  BY <1>4, <2>1, <2>2, <2>3 DEF Steps, SameLists, LockedKeep, Fails
<1>5. CASE c.dead = "alive" /\ role \in sh.locals /\ k # NoKey /\ c.table[k] # NoEl
  <2> DEFINE b == KeyToRecord(c, k)
  <2>1. d = IF sh.spare = role THEN AddRef(b, RecordOf(c, k)) ELSE b
    BY <1>5 DEF MakeValue
  <2>2. /\ Reads(c, b, k) /\ (b.dead = "alive" => Counted(b, More(out, RecordOf(b, k))))
    BY <1>0, <1>5, KeyToRecordIs
  <2> HIDE DEF b
  <2>3. b.dead = "alive" /\ SameFinds(c, b) /\ Consistent(b) /\ SameLocks(c, b) /\ LockedKeep(c, b)
    BY <1>5, <2>2 DEF Reads, SameFinds
  <2>4. c.table[k] \in El /\ v[role] = RecordOf(c, k) /\ v[role] \in Rec /\ RecordOf(b, k) = v[role]
    BY <1>0, <1>1, <1>5, <2>3, RecordOfIs DEF SameFinds, RecordOf
  <2> DEFINE r == v[role]
             o1 == More(out, r)
  <2>5. Counted(b, o1)
    BY <2>2, <2>3, <2>4
  <2>6. o1 \in [Rec -> Nat] /\ \A q \in Rec : o1[q] = out[q] + Bit(r, q)
    BY <2>4 DEF More, Bit
  <2> HIDE DEF o1
  <2>7. CASE sh.spare = role
    <3> DEFINE o2 == More(o1, r)
    <3>1. d = AddRef(b, r)
      BY <2>1, <2>4, <2>7
    <3>2. /\ Consistent(d) /\ Counted(d, o2) /\ SameLists(b, d) /\ SameLocks(b, d) /\ d.dead = b.dead
          /\ d.crec = b.crec
      BY <2>3, <2>4, <2>5, <3>1, AddRefIs
    <3>3. \A q \in Rec : o2[q] = base[q]
      <4>1. SpareOf(v, role, sh) = r
        BY <2>7 DEF SpareOf
      <4>2. \A q \in Rec : o2[q] = o1[q] + Bit(r, q)
        BY <2>4, <2>6 DEF More, Bit
      <4>3. \A q \in Rec : Bit(r, q) \in Nat
        BY DEF Bit
      <4> HIDE DEF o2, r
      <4> QED  BY <1>a, <2>6, <4>1, <4>2, <4>3 DEF r
    <3> HIDE DEF o2
    <3>4. Counted(d, base)
      BY <1>a, <3>2, <3>3, SameCount
    <3> QED  BY <1>5, <2>3, <2>4, <3>2, <3>4
             DEF Steps, SameFinds, SameLists, SameLocks, LockedKeep, Fails
  <2>8. CASE sh.spare # role
    <3>1. d = b
      BY <2>1, <2>8
    <3>2. \A q \in Rec : o1[q] = base[q]
      <4>1. SpareOf(v, role, sh) = NoRec
        BY <2>8 DEF SpareOf
      <4>2. \A q \in Rec : Bit(SpareOf(v, role, sh), q) = 0 /\ Bit(r, q) \in Nat
        BY <4>1, Constants DEF Bit
      <4> QED  BY <1>a, <2>6, <4>2
    <3>3. Counted(d, base)
      BY <1>a, <2>5, <3>1, <3>2, SameCount
    <3> QED  BY <1>5, <2>3, <2>4, <3>1, <3>3 DEF Steps, Fails
  <2> QED  BY <2>7, <2>8
<1> QED  BY <1>2, <1>3, <1>4, <1>5

\* the references that the values made for an item are
SpareRec(v, sh) == IF sh.spare # None THEN v[sh.spare] ELSE NoRec
With(out, v, r) == [q \in Rec |-> out[q] + Held(v, q) + Bit(r, q)]

LEMMA SpareIs ==
    ASSUME NEW sh, sh.spare \in Roles \cup {None}, NEW v, NEW q \in Rec
    PROVE  Bit(SpareRec(v, sh), q) = Bit(SpareOf(v, "fam", sh), q) + Bit(SpareOf(v, "indi", sh), q)
                                       + Bit(SpareOf(v, "wife", sh), q) + Bit(SpareOf(v, "other", sh), q)
<1>1. Bit(NoRec, q) = 0 /\ \A r : Bit(r, q) \in Nat
  BY Constants DEF Bit
<1>2. sh.spare \in {None, "fam", "indi", "wife", "other"}
  BY DEF Roles
<1>3. None # "fam" /\ None # "indi" /\ None # "wife" /\ None # "other"
  BY DEF None
<1>4. CASE sh.spare = None
  BY <1>1, <1>3, <1>4 DEF SpareRec, SpareOf
<1>5. CASE sh.spare = "fam"
  BY <1>1, <1>3, <1>5 DEF SpareRec, SpareOf
<1>6. CASE sh.spare = "indi"
  BY <1>1, <1>3, <1>6 DEF SpareRec, SpareOf
<1>7. CASE sh.spare = "wife"
  BY <1>1, <1>3, <1>7 DEF SpareRec, SpareOf
<1>8. CASE sh.spare = "other"
  BY <1>1, <1>3, <1>8 DEF SpareRec, SpareOf
<1> QED  BY <1>2, <1>4, <1>5, <1>6, <1>7, <1>8

LEMMA MakeValuesIs ==
    ASSUME NEW c, Consistent(c), NEW out \in [Rec -> Nat], c.dead = "alive" => Counted(c, out),
           NEW sh, sh.spare \in Roles \cup {None}, NEW it \in Item,
           NEW d, d = MakeValues(c, it, sh), NEW v, v = LocalRecords(d, it, sh)
    PROVE  /\ Steps(c, d) /\ Fails(c, d, it)
           /\ d.dead = "alive" =>
                /\ SameFinds(c, d) /\ v \in [Roles -> Rec \cup {NoRec}]
                /\ Counted(d, With(out, v, SpareRec(v, sh)))
                /\ \A role \in sh.locals \cap Roles : it[role] # NoKey => d.table[it[role]] \in El
<1> DEFINE u == LocalRecords(c, it, sh)
           n(role, q) == Bit(u[role], q) + Bit(SpareOf(u, role, sh), q)
           c1 == MakeValue(c, it, "fam", sh)
           c2 == MakeValue(c1, it, "indi", sh)
           c3 == MakeValue(c2, it, "wife", sh)
           o1 == [q \in Rec |-> out[q] + n("fam", q)]
           o2 == [q \in Rec |-> o1[q] + n("indi", q)]
           o3 == [q \in Rec |-> o2[q] + n("wife", q)]
           o4 == [q \in Rec |-> o3[q] + n("other", q)]
<1>0. "fam" \in Roles /\ "indi" \in Roles /\ "wife" \in Roles /\ "other" \in Roles
  BY DEF Roles
<1>n. \A role, q : n(role, q) \in Nat
  BY DEF Bit
<1>d. d = MakeValue(c3, it, "other", sh)
  BY DEF MakeValues
<1> HIDE DEF u
<1>u. u = LocalRecords(c, it, sh)
  BY DEF u
<1>a. o1 \in [Rec -> Nat] /\ \A q \in Rec : o1[q] = out[q] + n("fam", q)
  <2> HIDE DEF n
  <2> QED  BY <1>n
<1> HIDE DEF o1
<1>b. o2 \in [Rec -> Nat] /\ \A q \in Rec : o2[q] = o1[q] + n("indi", q)
  <2> HIDE DEF n
  <2> QED  BY <1>n, <1>a
<1> HIDE DEF o2
<1>c. o3 \in [Rec -> Nat] /\ \A q \in Rec : o3[q] = o2[q] + n("wife", q)
  <2> HIDE DEF n
  <2> QED  BY <1>n, <1>b
<1> HIDE DEF o3
<1>e. o4 \in [Rec -> Nat] /\ \A q \in Rec : o4[q] = o3[q] + n("other", q)
  <2> HIDE DEF n
  <2> QED  BY <1>n, <1>c
<1> HIDE DEF o4
<1>1. Made(c, c1, o1, u, "fam", it, sh)
  <2>1. Adds(out, o1, u, "fam", sh)
    BY <1>a DEF Adds, Bit
  <2>2. c1 = MakeValue(c, it, "fam", sh)
    OBVIOUS
  <2> HIDE DEF c1
  <2> QED  BY <1>0, <2>1, <2>2, <1>u, MakeValueIs
<1> HIDE DEF c1
<1>u1. c1.dead = "alive" => SameFinds(c, c1) /\ u = LocalRecords(c1, it, sh)
  BY <1>1, <1>u, LocalRecordsSame DEF Made
<1>2. Made(c1, c2, o2, u, "indi", it, sh)
  <2>1. Adds(o1, o2, u, "indi", sh)
    BY <1>a, <1>b DEF Adds, Bit
  <2>2. c2 = MakeValue(c1, it, "indi", sh)
    OBVIOUS
  <2>3. Consistent(c1) /\ (c1.dead = "alive" => Counted(c1, o1)) /\ o1 \in [Rec -> Nat]
    BY <1>1, <1>a DEF Made, Steps
  <2>4. c1.dead = "alive" => u = LocalRecords(c1, it, sh)
    BY <1>u1
  <2> HIDE DEF c2
  <2> QED  BY <1>0, <2>1, <2>2, <2>3, <2>4, MakeValueIs
<1> HIDE DEF c2
<1>u2. c2.dead = "alive" => SameFinds(c, c2) /\ u = LocalRecords(c2, it, sh)
  <2>1. c2.dead = "alive" => SameFinds(c, c2)
    BY <1>2, <1>u1 DEF Made, Steps, SameFinds
  <2> QED  BY <2>1, <1>u, LocalRecordsSame
<1>3. Made(c2, c3, o3, u, "wife", it, sh)
  <2>1. Adds(o2, o3, u, "wife", sh)
    BY <1>b, <1>c DEF Adds, Bit
  <2>2. c3 = MakeValue(c2, it, "wife", sh)
    OBVIOUS
  <2>3. Consistent(c2) /\ (c2.dead = "alive" => Counted(c2, o2)) /\ o2 \in [Rec -> Nat]
    BY <1>2, <1>b DEF Made, Steps
  <2>4. c2.dead = "alive" => u = LocalRecords(c2, it, sh)
    BY <1>u2
  <2> HIDE DEF c3
  <2> QED  BY <1>0, <2>1, <2>2, <2>3, <2>4, MakeValueIs
<1> HIDE DEF c3
<1>u3. c3.dead = "alive" => SameFinds(c, c3) /\ u = LocalRecords(c3, it, sh)
  <2>1. c3.dead = "alive" => SameFinds(c, c3)
    BY <1>3, <1>u2 DEF Made, Steps, SameFinds
  <2> QED  BY <2>1, <1>u, LocalRecordsSame
<1>4. Made(c3, d, o4, u, "other", it, sh)
  <2>1. Adds(o3, o4, u, "other", sh)
    BY <1>c, <1>e DEF Adds, Bit
  <2>3. Consistent(c3) /\ (c3.dead = "alive" => Counted(c3, o3)) /\ o3 \in [Rec -> Nat]
    BY <1>3, <1>c DEF Made, Steps
  <2>4. c3.dead = "alive" => u = LocalRecords(c3, it, sh)
    BY <1>u3
  <2> QED  BY <1>0, <2>1, <1>d, <2>3, <2>4, MakeValueIs
<1>5. Steps(c, d)
  BY <1>1, <1>2, <1>3, <1>4, StepsTrans DEF Made
<1>6. ASSUME d.dead = "alive"
      PROVE  /\ SameFinds(c, d) /\ v \in [Roles -> Rec \cup {NoRec}]
             /\ Counted(d, With(out, v, SpareRec(v, sh)))
             /\ \A role \in sh.locals \cap Roles : it[role] # NoKey => d.table[it[role]] \in El
  <2>1. c1.dead = "alive" /\ c2.dead = "alive" /\ c3.dead = "alive"
    BY <1>2, <1>3, <1>4, <1>6 DEF Made, Steps
  <2>2. SameFinds(c, d) /\ SameFinds(c, c1) /\ SameFinds(c, c2) /\ SameFinds(c, c3)
    BY <1>4, <1>6, <1>u1, <1>u2, <1>u3, <2>1 DEF Made, SameFinds
  <2>3. u = v
    BY <1>u, <2>2, LocalRecordsSame
  <2>4. v \in [Roles -> Rec \cup {NoRec}]
    <3>1. u = [x \in Roles |-> u[x]]
      BY <1>u DEF LocalRecords
    <3>2. \A x \in Roles : u[x] \in Rec \cup {NoRec}
      BY <1>1, <1>2, <1>3, <1>4, <1>6, <2>1 DEF Made, Roles
    <3> QED  BY <2>3, <3>1, <3>2
  <2>5. Counted(d, With(out, v, SpareRec(v, sh)))
    <3> DEFINE w == With(out, v, SpareRec(v, sh))
    <3>1. \A r, q : Bit(r, q) \in Nat
      BY DEF Bit
    <3>2. w = [q \in Rec |-> out[q] + Held(v, q) + Bit(SpareRec(v, sh), q)]
      BY DEF With
    <3>3. w \in [Rec -> Nat] /\ \A q \in Rec : w[q] = out[q] + Held(v, q) + Bit(SpareRec(v, sh), q)
      BY <3>1, <3>2 DEF Held
    <3> HIDE DEF w
    <3>4. ASSUME NEW q \in Rec PROVE o4[q] = w[q]
      <4>1. o4[q] = out[q] + n("fam", q) + n("indi", q) + n("wife", q) + n("other", q)
        <5> HIDE DEF n
        <5> QED  BY <1>a, <1>b, <1>c, <1>e, <1>n
      <4>2. w[q] = out[q] + (Bit(u["fam"], q) + Bit(u["indi"], q) + Bit(u["wife"], q) + Bit(u["other"], q))
                     + (Bit(SpareOf(u, "fam", sh), q) + Bit(SpareOf(u, "indi", sh), q)
                          + Bit(SpareOf(u, "wife", sh), q) + Bit(SpareOf(u, "other", sh), q))
        BY <2>3, <3>3, SpareIs DEF Held
      <4> QED  BY <3>1, <4>1, <4>2
    <3>5. Counted(d, w)
      BY <1>4, <1>6, <3>3, <3>4, SameCount DEF Made
    <3> QED  BY <3>5 DEF w
  <2>6. ASSUME NEW role \in sh.locals \cap Roles, it[role] # NoKey PROVE d.table[it[role]] \in El
    <3>1. c1.table = d.table /\ c2.table = d.table /\ c3.table = d.table /\ c.table = d.table
      BY <2>2 DEF SameFinds
    <3>2. /\ role = "fam" => d.table[it[role]] \in El
          /\ role = "indi" => d.table[it[role]] \in El
      BY <1>1, <1>2, <2>1, <2>6, <3>1 DEF Made
    <3>3. /\ role = "wife" => d.table[it[role]] \in El
          /\ role = "other" => d.table[it[role]] \in El
      BY <1>3, <1>4, <1>6, <2>1, <2>6, <3>1 DEF Made
    <3> QED  BY <3>2, <3>3 DEF Roles
  <2> QED  BY <2>2, <2>4, <2>5, <2>6
<1>7. Fails(c, d, it)
  <2>1. Fails(c, c1, it) /\ Fails(c1, c2, it) /\ Fails(c2, c3, it) /\ Fails(c3, d, it)
    BY <1>1, <1>2, <1>3, <1>4 DEF Made
  <2>2. /\ c1.dead = "alive" /\ Lacks(c1, it) => Lacks(c, it)
        /\ c2.dead = "alive" /\ Lacks(c2, it) => Lacks(c, it)
        /\ c3.dead = "alive" /\ Lacks(c3, it) => Lacks(c, it)
    BY <1>u1, <1>u2, <1>u3 DEF SameFinds, Lacks
  <2> QED  BY <2>1, <2>2 DEF Fails
<1> QED  BY <1>5, <1>6, <1>7

-----------------------------------------------------------------------------
(* The frame on top of the stack, the loop that runs.                        *)

LEMMA TopIs ==
    ASSUME Inv, Running
    PROVE  /\ Depth \in Nat /\ Depth > 0 /\ Below \in Seq(Frame) /\ Len(Below) = Depth - 1
           /\ Top \in Frame /\ Top.kind \in Kind /\ Sound(Sh)
           /\ \A i \in 1..Len(Below) : FrameAt(Below[i], i)
           /\ FrameAt(Top, Depth)
           /\ irc = "next" => Bare(Top) /\ Top.kind \notin Once
<1>1. cache.dead = "alive" /\ stack # << >> /\ stack \in Seq(Frame) /\ Framed(stack, irc)
  BY NowIs DEF Running
<1>2. /\ Depth \in Nat /\ Depth > 0 /\ Below \in Seq(Frame) /\ Len(Below) = Depth - 1
      /\ Top \in Frame /\ \A i \in 1..Depth - 1 : Below[i] = stack[i]
  BY <1>1, Split
<1>3. Top.kind \in Kind /\ Sound(Sh)
  BY <1>2, FrameFields, ShapeSound DEF Sh
<1>4. /\ \A i \in 1..Depth : FrameAt(stack[i], i)
      /\ irc = "next" /\ Depth > 0 => Bare(Top) /\ Top.kind \notin Once
  BY <1>1 DEF Framed, Depth, Top
<1>5. FrameAt(Top, Depth)
  <2>1. Depth \in 1..Depth
    BY <1>2
  <2> QED  BY <1>4, <2>1 DEF Top
<1>6. ASSUME NEW i \in 1..Len(Below) PROVE FrameAt(Below[i], i)
  <2>1. i \in 1..Depth /\ Below[i] = stack[i]
    BY <1>2
  <2> QED  BY <1>4, <2>1
<1> QED  BY <1>2, <1>3, <1>4, <1>5, <1>6

(* What the stack holds is what the frames below hold and what the top does. *)
LEMMA TopHolds ==
    ASSUME Inv, Running
    PROVE  /\ \A r \in Rec : /\ RefsIn(Below, r) \in Nat
                             /\ OutOf(stack, loose, leaked)[r]
                                  = RefsIn(Below, r) + Held(Top.vars, r) + Bit(Top.macro, r)
                                      + loose[r] + leaked[r]
           /\ \A e \in El : /\ LocksIn(Below, e) \in Nat /\ cache.rpt[e] \in Nat
                            /\ cache.lock[e] = LocksIn(Below, e) + HoldsRoot(Top, e)
                                                 + HoldsInner(Top, e) + cache.rpt[e]
<1>1. cache.dead = "alive" /\ stack # << >> /\ stack \in Seq(Frame) /\ LocksOf(cache, stack)
      /\ loose \in [Rec -> Nat] /\ leaked \in [Rec -> Nat]
  BY NowIs DEF Running
<1>2. Below \in Seq(Frame) /\ Top \in Frame /\ stack = Append(Below, Top)
  BY <1>1, Split
<1>3. \A x : RefsIn(Below, x) \in Nat /\ LocksIn(Below, x) \in Nat
  BY <1>2, HoldsAreNumbers
<1>4. \A e \in El : cache.rpt[e] \in Nat
  BY <1>1, NowIs, CacheFields DEF Consistent
<1> HIDE DEF Below, Top
<1>5. ASSUME NEW r \in Rec
      PROVE  OutOf(Append(Below, Top), loose, leaked)[r]
               = RefsIn(Below, r) + Held(Top.vars, r) + Bit(Top.macro, r) + loose[r] + leaked[r]
  BY <1>1, <1>2, OutPush
<1>6. ASSUME NEW e \in El
      PROVE  cache.lock[e] = LocksIn(Below, e) + HoldsRoot(Top, e) + HoldsInner(Top, e) + cache.rpt[e]
  <2>1. LocksOf(cache, Append(Below, Top))
    BY <1>1, <1>2
  <2> QED  BY <1>2, <2>1, LocksPush
<1> QED  BY <1>2, <1>3, <1>4, <1>5, <1>6

(* A loop goes on with another frame f in place of the top one.              *)
LEMMA GoodTop ==
    ASSUME Inv, Running, Top.kind \notin Once,
           NEW f \in Frame, f.kind = Top.kind, f.root = Top.root,
           NEW lo \in [Rec -> Nat], NEW le \in [Rec -> Nat],
           NEW d, Consistent(d), NEW base, Counted(d, base),
           \A r \in Rec : base[r] = RefsIn(Below, r) + Held(f.vars, r) + Bit(f.macro, r) + lo[r] + le[r],
           \A e \in El : d.lock[e] = LocksIn(Below, e) + HoldsRoot(Top, e) + HoldsInner(f, e) + d.rpt[e],
           NEW res, res = "next" => Bare(f)
    PROVE  SetTop(f) \in Seq(Frame) /\ Good(d, SetTop(f), res, lo, le)
<1>1. /\ Depth \in Nat /\ Depth > 0 /\ Below \in Seq(Frame) /\ Len(Below) = Depth - 1 /\ Top \in Frame
      /\ \A i \in 1..Len(Below) : FrameAt(Below[i], i)
      /\ FrameAt(Top, Depth)
  BY TopIs
<1>2. SetTop(f) = Append(Below, f)
  <2>1. stack \in Seq(Frame) /\ stack # << >>
    BY NowIs DEF Running
  <2> QED  BY <2>1, Split
<1>3. \A e : HoldsRoot(f, e) = HoldsRoot(Top, e)
  BY DEF HoldsRoot
<1>4. FrameAt(f, Len(Below) + 1)
  BY <1>1 DEF FrameAt
<1> HIDE DEF Below, Top
<1>5. Append(Below, f) \in Seq(Frame)
  BY <1>1
<1>6. Framed(Append(Below, f), res)
  BY <1>1, <1>4, FramedPush
<1>7. LocksOf(d, Append(Below, f))
  BY <1>1, <1>3, LocksPush
<1>8. Counted(d, OutOf(Append(Below, f), lo, le))
  <2> DEFINE a == OutOf(Append(Below, f), lo, le)
  <2>1. /\ a \in [Rec -> Nat]
        /\ \A r \in Rec : a[r] = RefsIn(Below, r) + Held(f.vars, r) + Bit(f.macro, r) + lo[r] + le[r]
    BY <1>1, OutPush
  <2> HIDE DEF a
  <2>2. Counted(d, a)
    BY <2>1, SameCount
  <2> QED  BY <2>2 DEF a
<1> QED  BY <1>2, <1>5, <1>6, <1>7, <1>8 DEF Good

(* The function of the top frame returns.                                    *)
LEMMA GoodBelow ==
    ASSUME Inv, Running, Top.kind # "main",
           NEW lo \in [Rec -> Nat], NEW le \in [Rec -> Nat],
           NEW d, Consistent(d), NEW base, Counted(d, base),
           \A r \in Rec : base[r] = RefsIn(Below, r) + lo[r] + le[r],
           \A e \in El : d.lock[e] = LocksIn(Below, e) + d.rpt[e],
           NEW res, res # "next"
    PROVE  Below \in Seq(Frame) /\ Good(d, Below, res, lo, le)
<1>1. /\ Depth \in Nat /\ Depth > 0 /\ Below \in Seq(Frame) /\ Len(Below) = Depth - 1
      /\ \A i \in 1..Len(Below) : FrameAt(Below[i], i)
      /\ FrameAt(Top, Depth)
  BY TopIs
<1>2. Len(Below) # 0
  BY <1>1 DEF FrameAt
<1>3. LocksOf(d, Below)
  BY <1>2 DEF LocksOf
<1>4. Framed(Below, res)
  BY <1>1 DEF Framed
<1>5. Counted(d, OutOf(Below, lo, le))
  BY <1>1, OutOfIs, SameCount
<1> QED  BY <1>1, <1>3, <1>4, <1>5 DEF Good

-----------------------------------------------------------------------------
(* The steps of loops.                                                       *)

(* The elements of the loop variables are locked, and hold their records.    *)
LEMMA LocalElementsIs ==
    ASSUME NEW c, Consistent(c), NEW sh, sh.locals \subseteq Roles, NEW it \in Item,
           \A role \in sh.locals \cap Roles : it[role] # NoKey => c.table[it[role]] \in El
    PROVE  \A e \in LocalElements(c, it, sh) : e \in El /\ c.key[e] # NoKey
<1>1. ASSUME NEW role \in sh.locals, it[role] # NoKey
      PROVE  c.table[it[role]] \in El /\ c.key[c.table[it[role]]] # NoKey
  <2>1. it[role] \in Key /\ role \in Roles
    BY <1>1 DEF Item, Roles
  <2>2. c.table[it[role]] \in El /\ c.table[it[role]] # NoEl
    BY <1>1, <2>1, Constants
  <2> QED  BY <2>1, <2>2, RecordOfIs, Constants
<1> QED  BY <1>1 DEF LocalElements

\* what an item that the body runs for makes of the caches
ItemMade(d, it, f2, lo) ==
    LET c == ReadItem(cache, it, Sh)
        made == MakeValues(c, it, Sh)
        new == LocalRecords(made, it, Sh)
        els == LocalElements(made, it, Sh)
    IN /\ d = IF WalkTree THEN Die(cache, "dangling")
              ELSE IF made.dead # "alive" THEN made
              ELSE LockAll(ReleaseVars(made, Top.vars), els)
       /\ f2 = [Top EXCEPT !.inner = els, !.vars = new, !.macro = MacroOf(c, it, Sh)]
       /\ lo = IF d.dead = "alive" /\ Sh.spare # None
               THEN [loose EXCEPT ![new[Sh.spare]] = @ + 1] ELSE loose

LEMMA ItemMadeIs ==
    ASSUME Inv, At("next"), NEW it, ItemOf(it, Sh), NEW d, NEW f2, NEW lo, ItemMade(d, it, f2, lo),
           Sh.spare # None => it[Sh.spare] # NoKey
    PROVE  /\ Consistent(d) /\ LockedKeep(cache, d) /\ lo \in [Rec -> Nat]
           /\ d.dead = "alive" =>
                SetTop(f2) \in Seq(Frame) /\ Good(d, SetTop(f2), "run", lo, leaked)
<1> DEFINE c == ReadItem(cache, it, Sh)
           made == MakeValues(c, it, Sh)
           new == LocalRecords(made, it, Sh)
           els == LocalElements(made, it, Sh)
           macro == MacroOf(c, it, Sh)
           out == OutOf(stack, loose, leaked)
           o1 == IF c.dead = "alive" THEN Plus(out, macro) ELSE out
           spare == SpareRec(new, Sh)
           o2 == With(o1, new, spare)
<1>1. /\ cache.dead = "alive" /\ Running /\ irc = "next" /\ Consistent(cache) /\ Counted(cache, out)
      /\ loose \in [Rec -> Nat] /\ leaked \in [Rec -> Nat] /\ out \in [Rec -> Nat]
  BY NowIs DEF At, Running, Counted
<1>2. /\ Top \in Frame /\ Sound(Sh) /\ Bare(Top) /\ Top.kind \notin Once /\ it \in Item
      /\ Sh.locals \subseteq Roles /\ Sh.spare \in Roles \cup {None}
      /\ Sh.spare # None => Sh.spare \in Sh.locals
  BY <1>1, TopIs DEF ItemOf, Sound
<1>3. /\ d = IF WalkTree THEN Die(cache, "dangling")
             ELSE IF made.dead # "alive" THEN made
             ELSE LockAll(ReleaseVars(made, Top.vars), els)
      /\ f2 = [Top EXCEPT !.inner = els, !.vars = new, !.macro = macro]
      /\ lo = IF d.dead = "alive" /\ Sh.spare # None
              THEN [loose EXCEPT ![new[Sh.spare]] = @ + 1] ELSE loose
  BY DEF ItemMade
<1>4. /\ Steps(cache, c)
      /\ c.dead = "alive" => macro \in Rec \cup {NoRec} /\ Counted(c, Plus(out, macro))
  BY <1>1, <1>2, ReadItemIs
<1>5. o1 \in [Rec -> Nat] /\ (c.dead = "alive" => Counted(c, o1)) /\ Consistent(c)
  BY <1>1, <1>4, PlusIs DEF Steps
<1>6. /\ Steps(c, made)
      /\ made.dead = "alive" =>
           /\ new \in [Roles -> Rec \cup {NoRec}]
           /\ Counted(made, o2)
           /\ \A role \in Sh.locals \cap Roles : it[role] # NoKey => made.table[it[role]] \in El
  <2> HIDE DEF c, o1
  <2> QED  BY <1>2, <1>5, MakeValuesIs
<1>7. Steps(cache, made)
  BY <1>4, <1>6, StepsTrans
<1> HIDE DEF c, made
<1>8. CASE WalkTree
  <2>1. d = Die(cache, "dangling") /\ "dangling" \in Deaths
    BY <1>3, <1>8 DEF Deaths
  <2>2. Consistent(d) /\ SameLists(cache, d) /\ d.dead = "dangling"
    BY <1>1, <2>1, DieKeeps
  <2> QED  BY <1>1, <1>3, <2>2 DEF SameLists, LockedKeep
<1>9. CASE ~WalkTree /\ made.dead # "alive"
  <2>1. d = made
    BY <1>3, <1>9
  <2> QED  BY <1>1, <1>3, <1>7, <1>9, <2>1 DEF Steps
<1>10. CASE ~WalkTree /\ made.dead = "alive"
  <2> DEFINE b == ReleaseVars(made, Top.vars)
             base == [r \in Rec |-> o1[r] - Held(Top.vars, r) + Held(new, r) + Bit(spare, r)]
  <2>1. d = LockAll(b, els)
    BY <1>3, <1>10
  <2>2. c.dead = "alive" /\ o1 = Plus(out, macro) /\ macro \in Rec \cup {NoRec}
    BY <1>4, <1>6, <1>10 DEF Steps
  <2>3. new \in [Roles -> Rec \cup {NoRec}] /\ Counted(made, o2) /\ Consistent(made)
    BY <1>6, <1>10 DEF Steps
  <2>4. \A e \in els : e \in El /\ made.key[e] # NoKey
    BY <1>2, <1>6, <1>10, <2>3, LocalElementsIs
  <2>5. els \in SUBSET El
    BY <2>4
  <2> HIDE DEF els, macro, new
  <2>6. spare \in Rec \cup {NoRec} /\ (Sh.spare # None => spare \in Rec /\ spare = new[Sh.spare])
    <3>1. Sh.spare # None => new[Sh.spare] \in Rec
      <4>1. ASSUME Sh.spare # None PROVE new[Sh.spare] \in Rec
        <5> DEFINE k == it[Sh.spare]
        <5>1. k \in Key /\ Sh.spare \in Sh.locals \cap Roles /\ made.table[k] \in El
          BY <1>2, <1>6, <1>10, <4>1 DEF Item, Roles
        <5>2. RecordOf(made, k) \in Rec
          BY <2>3, <5>1, RecordOfIs, Constants
        <5>3. new[Sh.spare] = RecordOf(made, k)
          BY <1>2, <4>1, <5>1, Constants DEF new, LocalRecords
        <5> QED  BY <5>2, <5>3
      <4> QED  BY <4>1
    <3> QED  BY <3>1 DEF SpareRec
  <2> HIDE DEF spare
  <2>7. /\ \A r \in Rec : out[r] = RefsIn(Below, r) + Held(Top.vars, r) + loose[r] + leaked[r]
        /\ \A r \in Rec : RefsIn(Below, r) \in Nat
    <3>1. \A r \in Rec : Bit(Top.macro, r) = 0
      BY <1>2, NothingIn DEF Bare
    <3>2. \A r \in Rec : /\ RefsIn(Below, r) \in Nat
                         /\ out[r] = RefsIn(Below, r) + Held(Top.vars, r) + Bit(Top.macro, r)
                                       + loose[r] + leaked[r]
      BY <1>1, TopHolds
    <3>3. \A r \in Rec : Held(Top.vars, r) \in Nat
      BY DEF Held, Bit
    <3> HIDE DEF out
    <3> QED  BY <1>1, <3>1, <3>2, <3>3
  <2> HIDE DEF out
  <2>8. \A r \in Rec : Held(Top.vars, r) \in Nat /\ Held(new, r) \in Nat /\ Bit(spare, r) \in Nat
                         /\ Bit(macro, r) \in Nat
    BY DEF Held, Bit
  <2>9. \A r \in Rec : o1[r] = out[r] + Bit(macro, r)
    BY <1>1, <2>2, PlusIs
  <2> HIDE DEF o1
  <2>10. base \in [Rec -> Nat] /\ \A r \in Rec :
           base[r] = RefsIn(Below, r) + Held(new, r) + Bit(macro, r) + (loose[r] + Bit(spare, r)) + leaked[r]
    <3>1. \A r \in Rec : o1[r] - Held(Top.vars, r) + Held(new, r) + Bit(spare, r)
             = RefsIn(Below, r) + Held(new, r) + Bit(macro, r) + (loose[r] + Bit(spare, r)) + leaked[r]
      BY <1>1, <2>7, <2>8, <2>9
    <3>2. \A r \in Rec : o1[r] - Held(Top.vars, r) + Held(new, r) + Bit(spare, r) \in Nat
      BY <1>1, <2>7, <2>8, <3>1
    <3> QED  BY <3>1, <3>2
  <2>11. \A r \in Rec : o2[r] = base[r] + Held(Top.vars, r)
    <3>1. \A r \in Rec : o2[r] = o1[r] + Held(new, r) + Bit(spare, r)
      BY DEF With
    <3>2. \A r \in Rec : base[r] = o1[r] - Held(Top.vars, r) + Held(new, r) + Bit(spare, r)
      OBVIOUS
    <3> HIDE DEF o2, base
    <3> QED  BY <1>5, <2>8, <3>1, <3>2 
  <2> HIDE DEF o2, base
  <2>12. Top.vars \in [Roles -> Rec \cup {NoRec}]
    BY <1>2, FrameFields
  <2>13. /\ Consistent(b) /\ Counted(b, base) /\ SameLists(made, b) /\ SameLocks(made, b)
         /\ b.dead = made.dead
    BY <2>3, <2>10, <2>11, <2>12, ReleaseVarsIs
  <2> HIDE DEF b
  <2>14. /\ Consistent(d) /\ Counted(d, base) /\ SameLists(b, d) /\ d.dead = b.dead
         /\ \A x \in El : d.lock[x] = IF x \in els THEN b.lock[x] + 1 ELSE b.lock[x]
         /\ d.rpt = b.rpt
    <3>1. \A e \in els : e \in El /\ b.key[e] # NoKey
      BY <2>4, <2>13 DEF SameLists
    <3> QED  BY <2>1, <2>13, <3>1, LockAllIs
  <2>15. f2 \in Frame /\ f2.kind = Top.kind /\ f2.root = Top.root /\ f2.inner = els
         /\ f2.vars = new /\ f2.macro = macro
    BY <1>2, <1>3, <2>2, <2>3, <2>5 DEF Frame
  <2>16. lo \in [Rec -> Nat] /\ \A r \in Rec : lo[r] = loose[r] + Bit(spare, r)
    <3>1. CASE Sh.spare = None
      <4>1. lo = loose /\ spare = NoRec
        BY <1>3, <3>1 DEF spare, SpareRec
      <4> QED  BY <1>1, <4>1, Constants DEF Bit
    <3>2. CASE Sh.spare # None
      <4>1. lo = [loose EXCEPT ![spare] = @ + 1] /\ spare \in Rec
        BY <1>3, <1>10, <2>6, <2>13, <2>14, <3>2
      <4> QED  BY <1>1, <4>1 DEF Bit
    <3> QED  BY <3>1, <3>2
  <2>17. \A e \in El : d.lock[e] = LocksIn(Below, e) + HoldsRoot(Top, e) + HoldsInner(f2, e) + d.rpt[e]
    <3>1. \A e \in El : b.lock[e] = cache.lock[e] /\ b.rpt[e] = cache.rpt[e]
      BY <1>7, <2>13 DEF Steps, SameLocks
    <3>2. ASSUME NEW e \in El
          PROVE  d.lock[e] = LocksIn(Below, e) + HoldsRoot(Top, e) + HoldsInner(f2, e) + d.rpt[e]
      <4>1. /\ LocksIn(Below, e) \in Nat /\ cache.rpt[e] \in Nat
            /\ cache.lock[e] = LocksIn(Below, e) + HoldsRoot(Top, e) + HoldsInner(Top, e) + cache.rpt[e]
        BY <1>1, TopHolds
      <4>2. HoldsInner(Top, e) = 0 /\ HoldsRoot(Top, e) \in Nat
            /\ HoldsInner(f2, e) = IF e \in els THEN 1 ELSE 0
        BY <1>2, <2>15 DEF Bare, HoldsInner, HoldsRoot
      <4> QED  BY <2>14, <3>1, <4>1, <4>2
    <3> QED  BY <3>2
  <2>18. SetTop(f2) \in Seq(Frame) /\ Good(d, SetTop(f2), "run", lo, leaked)
    <3>1. \A r \in Rec : base[r] = RefsIn(Below, r) + Held(f2.vars, r) + Bit(f2.macro, r) + lo[r] + leaked[r]
      BY <2>10, <2>15, <2>16
    <3> QED  BY <1>1, <1>2, <2>14, <2>15, <2>16, <2>17, <3>1, GoodTop
  <2>19. LockedKeep(cache, d)
    BY <1>7, <2>13, <2>14 DEF Steps, SameLists, LockedKeep
  <2> QED  BY <2>14, <2>16, <2>18, <2>19
<1> QED  BY <1>8, <1>9, <1>10

LEMMA NextItemStep ==
    ASSUME Inv, NextItem
    PROVE  Inv' /\ Kept
<1>1. /\ At("next") /\ Running /\ cache.dead = "alive" /\ UNCHANGED <<stored, leaked, jump>>
      /\ stored \subseteq Key /\ leaked \in [Rec -> Nat] /\ jump \in JumpsTo /\ TypeOK
  BY NowIs DEF NextItem, At, Running, Now
<1>2. PICK f \in Choice("fam", Sh), i \in Choice("indi", Sh),
           w \in Choice("wife", Sh), o \in Choice("other", Sh) :
         LET it == [fam |-> f, indi |-> i, wife |-> w, other |-> o]
             c == ReadItem(cache, it, Sh)
             macro == IF Sh.macro # None THEN RecordOf(c, it[Sh.macro]) ELSE NoRec
             made == MakeValues(c, it, Sh)
             new == LocalRecords(made, it, Sh)
             els == LocalElements(made, it, Sh)
             d == IF WalkTree THEN Die(cache, "dangling")
                  ELSE IF made.dead # "alive" THEN made
                  ELSE LockAll(ReleaseVars(made, Top.vars), els)
             f2 == [Top EXCEPT !.inner = els, !.vars = new, !.macro = macro]
         IN /\ Sh.needs # None => it[Sh.needs] # NoKey
            /\ Sh.spare # None => FoldFunction(Add, 0, loose) < MaxLost
            /\ Commit(d, SetTop(f2), "run")
            /\ loose' = IF d.dead = "alive" /\ Sh.spare # None
                        THEN [loose EXCEPT ![new[Sh.spare]] = @ + 1] ELSE loose
  BY DEF NextItem
<1>3. PICK it : it = [fam |-> f, indi |-> i, wife |-> w, other |-> o]
  OBVIOUS
<1>4. PICK d, f2 : /\ ItemMade(d, it, f2, loose') /\ Commit(d, SetTop(f2), "run")
                   /\ Sh.needs # None => it[Sh.needs] # NoKey
  BY <1>2, <1>3 DEF ItemMade, MacroOf
<1>5. ItemOf(it, Sh)
  BY <1>1, <1>3, ItemIs
<1>6. Sh.spare # None => it[Sh.spare] # NoKey
  <2>1. Sound(Sh) /\ None \notin Roles
    BY <1>1, TopIs DEF None, Roles
  <2> QED  BY <1>4, <2>1 DEF Sound
<1>7. /\ Consistent(d) /\ LockedKeep(cache, d) /\ loose' \in [Rec -> Nat]
      /\ d.dead = "alive" => SetTop(f2) \in Seq(Frame) /\ Good(d, SetTop(f2), "run", loose', leaked)
  BY <1>1, <1>4, <1>5, <1>6, ItemMadeIs
<1>8. Inv' /\ cache'.key = d.key
  <2>1. "run" \in Results
    BY DEF Results
  <2>2. stored' \subseteq Key /\ leaked' \in [Rec -> Nat] /\ jump' \in JumpsTo /\ leaked' = leaked
    BY <1>1
  <2> QED  BY <1>1, <1>4, <1>7, <2>1, <2>2, Committed
<1> QED  BY <1>7, <1>8 DEF Kept, LockedKeep

LEMMA PassOverStep ==
    ASSUME Inv, PassOver
    PROVE  Inv' /\ Kept
<1> DEFINE out == OutOf(stack, loose, leaked)
<1>1. /\ Running /\ cache.dead = "alive" /\ irc = "next" /\ UNCHANGED <<stored, loose, leaked, jump>>
      /\ stored \subseteq Key /\ Sh.needs # None /\ Sound(Sh)
  BY NowIs, TopIs DEF PassOver, At, Running
<1>2. PICK f \in Choice("fam", Sh), i \in Choice("indi", Sh), w \in Choice("wife", Sh) :
         LET it == [fam |-> f, indi |-> i, wife |-> w, other |-> NoKey]
             c == ReadItem(cache, it, Sh)
         IN Commit(IF c.dead # "alive" THEN c ELSE Release(c, RecordOf(c, f)), stack, "next")
  BY DEF PassOver
<1>3. PICK it : it = [fam |-> f, indi |-> i, wife |-> w, other |-> NoKey]
  OBVIOUS
<1> DEFINE c == ReadItem(cache, it, Sh)
           d == IF c.dead # "alive" THEN c ELSE Release(c, RecordOf(c, f))
<1>4. Commit(d, stack, irc)
  BY <1>1, <1>2, <1>3
<1>5. ItemOf(it, Sh)
  <2>1. Sh.macro = "fam" /\ Sh.macro # None /\ "other" \notin Sh.always
    BY <1>1 DEF Sound, None
  <2>2. NoKey \in Choice("other", Sh)
    BY <2>1 DEF Choice
  <2> QED  BY <1>1, <1>3, <2>2, ItemIs
<1>6. Sh.macro = "fam" /\ Sh.macro # None /\ MacroOf(c, it, Sh) = RecordOf(c, f)
  BY <1>1, <1>3 DEF Sound, None, MacroOf
<1>7. /\ Consistent(cache) /\ Counted(cache, out) /\ out \in [Rec -> Nat]
  BY <1>1, NowIs DEF Counted
<1>8. /\ Steps(cache, c)
      /\ c.dead = "alive" =>
           MacroOf(c, it, Sh) \in Rec /\ Counted(c, Plus(out, MacroOf(c, it, Sh)))
  BY <1>1, <1>5, <1>6, <1>7, ReadItemIs
<1> HIDE DEF c
<1>9. /\ Consistent(d) /\ SameLocks(cache, d) /\ LockedKeep(cache, d)
      /\ d.dead = "alive" => Counted(d, out)
  <2>1. CASE c.dead # "alive"
    BY <1>8, <2>1 DEF Steps
  <2>2. CASE c.dead = "alive"
    <3> DEFINE r == RecordOf(c, f)
    <3>1. r \in Rec /\ Counted(c, Plus(out, r)) /\ Consistent(c)
      BY <1>6, <1>8, <2>2 DEF Steps
    <3>2. d = ReleaseIf(c, r)
      BY <2>2, <3>1, Constants DEF ReleaseIf
    <3> HIDE DEF d, r, out
    <3>3. \A q \in Rec : Plus(out, r)[q] = out[q] + Bit(r, q)
      BY <1>7, <3>1, PlusIs
    <3>4. /\ Consistent(d) /\ Counted(d, out)
          /\ SameLists(c, d) /\ SameLocks(c, d) /\ d.dead = c.dead /\ d.crec = c.crec
      BY <1>7, <3>1, <3>2, <3>3, ReleaseIfIs
    <3> QED  BY <1>8, <3>4 DEF Steps, SameLists, SameLocks, LockedKeep
  <2> QED  BY <2>1, <2>2
<1> HIDE DEF d
<1> QED  BY <1>1, <1>4, <1>9, ReadStep

LEMMA ResumeIs ==
    ASSUME NEW kind, NEW x \in Jumps \cup {"okay"}
    PROVE  Resume(kind, x) \in Results /\ Resume(kind, x) # "next"
  BY DEF Resume, Results, Jumps

(* A function returns: its variables and the lock on its record are gone;    *)
(* a macro is left behind as a reference that nothing will release.          *)
LEMMA LeavingStep ==
    ASSUME Inv, Running, Top.kind # "main", NEW c, NEW x \in Jumps \cup {"okay"}, Leaving(c, x),
           UNCHANGED <<stored, loose>>, leaked' \in [Rec -> Nat],
           cache'.dead = "alive" => \A r \in Rec : leaked'[r] = leaked[r] + Bit(Top.macro, r),
           Consistent(c), Counted(c, OutOf(stack, loose, leaked)), SameLists(cache, c),
           c.dead = "alive" => \A e \in El : /\ c.lock[e] = LocksIn(Below, e) + HoldsRoot(Top, e) + c.rpt[e]
                                             /\ c.rpt[e] \in Nat
    PROVE  Inv' /\ Kept /\ cache'.dead = c.dead /\ cache'.table = cache.table
<1> DEFINE out == OutOf(stack, loose, leaked)
           d == ReleaseVars(c, Top.vars)
           e == IF Sh.outer = None \/ d.dead # "alive" THEN d ELSE UnlockAll(d, {Top.root})
           res == Resume(Top.kind, x)
           base == [r \in Rec |-> RefsIn(Below, r) + loose[r] + leaked[r] + Bit(Top.macro, r)]
<1>1. /\ Commit(e, Below, res) /\ jump' = IF irc' = "run" THEN NoJump ELSE jump
  BY DEF Leaving
<1>2. res \in Results /\ res # "next"
  BY ResumeIs
<1>3. /\ TypeOK /\ stored' \subseteq Key /\ loose \in [Rec -> Nat] /\ leaked \in [Rec -> Nat]
      /\ loose' = loose /\ jump' \in JumpsTo /\ out \in [Rec -> Nat]
  <2>1. NoJump \in JumpsTo
    BY ReportAssumption DEF NoJump, JumpsTo
  <2>2. Now /\ stored \subseteq Key /\ jump \in JumpsTo
        /\ loose \in [Rec -> Nat] /\ leaked \in [Rec -> Nat]
    BY NowIs DEF Running
  <2>3. out \in [Rec -> Nat]
    BY DEF Counted
  <2> QED  BY <1>1, <2>1, <2>2, <2>3 DEF Now
<1>4. Top.vars \in [Roles -> Rec \cup {NoRec}] /\ (Sh.outer # None => Top.root \in El)
  BY TopIs, FrameFields DEF FrameAt, Sh
<1>5. \A r \in Rec : /\ RefsIn(Below, r) \in Nat
                     /\ out[r] = RefsIn(Below, r) + Held(Top.vars, r) + Bit(Top.macro, r)
                                   + loose[r] + leaked[r]
  BY TopHolds
<1>6. \A r \in Rec : Held(Top.vars, r) \in Nat /\ Bit(Top.macro, r) \in Nat
  BY DEF Held, Bit
<1> HIDE DEF out
<1>7. base \in [Rec -> Nat] /\ \A r \in Rec :
        base[r] = RefsIn(Below, r) + loose[r] + leaked[r] + Bit(Top.macro, r)
  BY <1>3, <1>5, <1>6
<1>8. \A r \in Rec : out[r] = base[r] + Held(Top.vars, r)
  <2> HIDE DEF base
  <2> QED  BY <1>3, <1>5, <1>6, <1>7
<1> HIDE DEF base
<1>9. /\ Consistent(d) /\ Counted(d, base) /\ SameLists(c, d) /\ SameLocks(c, d) /\ d.dead = c.dead
  <2>1. Counted(c, out)
    BY DEF out
  <2> QED  BY <1>4, <1>7, <1>8, <2>1, ReleaseVarsIs
<1> HIDE DEF d
<1>10. \A y \in El : HoldsRoot(Top, y) = IF Sh.outer # None /\ Top.root = y THEN 1 ELSE 0
  BY DEF HoldsRoot, Sh
<1>11. /\ Consistent(e) /\ Counted(e, base) /\ SameLists(d, e) /\ e.dead = d.dead
       /\ e.dead = "alive" => \A y \in El : e.lock[y] = LocksIn(Below, y) + e.rpt[y]
  <2>1. CASE d.dead # "alive"
    <3>1. e = d
      BY <2>1
    <3> HIDE DEF e
    <3> QED  BY <1>9, <2>1, <3>1 DEF SameLists
  <2>2. CASE d.dead = "alive"
    <3>1. \A y \in El : /\ d.lock[y] = LocksIn(Below, y) + HoldsRoot(Top, y) + d.rpt[y]
                        /\ d.rpt[y] \in Nat
      BY <1>9, <2>2 DEF SameLocks
    <3>2. \A y \in El : LocksIn(Below, y) \in Nat
      BY TopHolds
    <3>3. CASE Sh.outer = None
      <4>1. e = d
        BY <3>3
      <4> HIDE DEF e
      <4>2. ASSUME NEW y \in El PROVE e.lock[y] = LocksIn(Below, y) + e.rpt[y]
        BY <1>10, <3>1, <3>2, <3>3, <4>1
      <4> QED  BY <1>9, <4>1, <4>2 DEF SameLists
    <3>4. CASE Sh.outer # None
      <4> DEFINE S == {Top.root}
      <4>1. e = UnlockAll(d, S)
        BY <2>2, <3>4
      <4>2. \A y \in S : y \in El /\ d.rpt[y] < d.lock[y]
        BY <1>4, <1>10, <3>1, <3>2, <3>4
      <4> HIDE DEF e
      <4>3. \A y : y \in S <=> Top.root = y
        OBVIOUS
      <4> HIDE DEF S
      <4>4. /\ Consistent(e) /\ Counted(e, base) /\ SameLists(d, e) /\ e.dead = d.dead
            /\ \A y \in El :
                  /\ e.lock[y] = IF y \in S THEN d.lock[y] - 1 ELSE d.lock[y]
                  /\ e.rpt[y] = d.rpt[y]
        BY <1>9, <4>1, <4>2, UnlockAllIs
      <4>5. ASSUME e.dead = "alive", NEW y \in El PROVE e.lock[y] = LocksIn(Below, y) + e.rpt[y]
        BY <1>10, <3>1, <3>2, <3>4, <4>3, <4>4, <4>5
      <4> QED  BY <4>4, <4>5
    <3> QED  BY <3>3, <3>4
  <2> QED  BY <2>1, <2>2
<1> HIDE DEF e, res
<1>12. cache'.dead = e.dead /\ cache'.table = e.table
  <2>1. cache' = [e EXCEPT !.gone = {}] /\ e \in CacheType
    BY <1>1, <1>11 DEF Commit, Consistent
  <2> QED  BY <2>1 DEF CacheType
<1>13. ASSUME e.dead = "alive"
       PROVE  Below \in Seq(Frame) /\ Good(e, Below, res, loose', leaked')
  <2>1. \A r \in Rec : base[r] = RefsIn(Below, r) + loose'[r] + leaked'[r]
    BY <1>3, <1>5, <1>6, <1>7, <1>12, <1>13
  <2> QED  BY <1>2, <1>3, <1>11, <1>13, <2>1, GoodBelow
<1>14. Inv' /\ cache'.key = e.key
  BY <1>1, <1>2, <1>3, <1>11, <1>13, Committed
<1> QED  BY <1>9, <1>11, <1>12, <1>14 DEF Kept, LockedKeep, SameLists

\* the function of the top frame returns, unless it went on in a freed tree
Leaves(walk) == cache'.table = cache.table /\ cache'.dead = IF walk THEN "dangling" ELSE "alive"

LEMMA LoopEndStep ==
    ASSUME Inv, LoopEnd
    PROVE  Inv' /\ Kept /\ Leaves(WalkTree)
<1> DEFINE c == IF WalkTree THEN Die(cache, "dangling") ELSE cache
           out == OutOf(stack, loose, leaked)
<1>1. /\ Running /\ cache.dead = "alive" /\ irc = "next"
      /\ Leaving(c, "okay") /\ UNCHANGED <<stored, loose, leaked>>
  BY DEF LoopEnd, At, Running
<1>2. /\ Bare(Top) /\ Top.kind # "main" /\ leaked \in [Rec -> Nat]
      /\ Consistent(cache) /\ Counted(cache, out)
  BY <1>1, TopIs, NowIs, MainIs
<1> HIDE DEF out
<1>3. /\ Consistent(c) /\ Counted(c, out) /\ SameLists(cache, c)
      /\ c.dead = "alive" => c = cache
      /\ c.dead = IF WalkTree THEN "dangling" ELSE "alive"
  <2>1. CASE WalkTree
    <3>1. c = Die(cache, "dangling") /\ "dangling" \in Deaths /\ "dangling" # "alive"
      BY <2>1 DEF Deaths
    <3> HIDE DEF c
    <3>2. Consistent(c) /\ Counted(c, out) /\ SameLists(cache, c) /\ c.dead = "dangling"
      BY <1>2, <3>1, DieKeeps
    <3> QED  BY <2>1, <3>1, <3>2
  <2>2. CASE ~WalkTree
    BY <1>1, <1>2, <2>2 DEF SameLists
  <2> QED  BY <2>1, <2>2
<1> HIDE DEF c
<1>4. \A e \in El : /\ cache.lock[e] = LocksIn(Below, e) + HoldsRoot(Top, e) + cache.rpt[e]
                    /\ cache.rpt[e] \in Nat
  <2>1. ASSUME NEW e \in El
        PROVE  cache.lock[e] = LocksIn(Below, e) + HoldsRoot(Top, e) + cache.rpt[e]
               /\ cache.rpt[e] \in Nat
    <3>1. /\ LocksIn(Below, e) \in Nat /\ cache.rpt[e] \in Nat
          /\ cache.lock[e] = LocksIn(Below, e) + HoldsRoot(Top, e) + HoldsInner(Top, e) + cache.rpt[e]
      BY <1>1, TopHolds
    <3>2. HoldsInner(Top, e) = 0 /\ HoldsRoot(Top, e) \in Nat
      BY <1>2 DEF Bare, HoldsInner, HoldsRoot
    <3> QED  BY <3>1, <3>2
  <2> QED  BY <2>1
<1>5. \A r \in Rec : leaked'[r] = leaked[r] + Bit(Top.macro, r)
  BY <1>1, <1>2, NothingIn DEF Bare
<1>6. Inv' /\ Kept /\ cache'.dead = c.dead /\ cache'.table = cache.table
  BY <1>1, <1>2, <1>3, <1>4, <1>5, LeavingStep DEF out
<1> QED  BY <1>3, <1>6 DEF Leaves

LEMMA LeaveOnceStep ==
    ASSUME Inv, LeaveOnce
    PROVE  Inv' /\ Kept /\ Leaves(FALSE)
<1> DEFINE x == IF irc = "okay" THEN irc ELSE Sh.leave[irc]
<1>1. /\ Running /\ cache.dead = "alive" /\ irc \in Jumps \cup {"okay"} /\ Top.kind \in Once \ {"main"}
      /\ Leaving(cache, x) /\ UNCHANGED <<stored, loose, leaked>>
  BY DEF LeaveOnce, Running
<1>2. /\ Bare(Top) /\ Top.kind # "main" /\ leaked \in [Rec -> Nat]
      /\ Consistent(cache) /\ Counted(cache, OutOf(stack, loose, leaked))
  BY <1>1, TopIs, NowIs DEF FrameAt
<1>3. x \in Jumps \cup {"okay"}
  BY <1>1, TopIs DEF Sound
<1> HIDE DEF x
<1>4. \A e \in El : /\ cache.lock[e] = LocksIn(Below, e) + HoldsRoot(Top, e) + cache.rpt[e]
                    /\ cache.rpt[e] \in Nat
  <2>1. ASSUME NEW e \in El
        PROVE  cache.lock[e] = LocksIn(Below, e) + HoldsRoot(Top, e) + cache.rpt[e]
               /\ cache.rpt[e] \in Nat
    <3>1. /\ LocksIn(Below, e) \in Nat /\ cache.rpt[e] \in Nat
          /\ cache.lock[e] = LocksIn(Below, e) + HoldsRoot(Top, e) + HoldsInner(Top, e) + cache.rpt[e]
      BY <1>1, TopHolds
    <3>2. HoldsInner(Top, e) = 0 /\ HoldsRoot(Top, e) \in Nat
      BY <1>2 DEF Bare, HoldsInner, HoldsRoot
    <3> QED  BY <3>1, <3>2
  <2> QED  BY <2>1
<1>5. \A r \in Rec : leaked'[r] = leaked[r] + Bit(Top.macro, r)
  BY <1>1, <1>2, NothingIn DEF Bare
<1>6. SameLists(cache, cache)
  BY DEF SameLists
<1>7. Inv' /\ Kept /\ cache'.dead = cache.dead /\ cache'.table = cache.table
  BY <1>1, <1>2, <1>3, <1>4, <1>5, <1>6, LeavingStep
<1> QED  BY <1>1, <1>7 DEF Leaves

(* Unlocking the elements of the loop variables.                             *)
LEMMA InnerUnlocked ==
    ASSUME Inv, Running, NEW c, c = UnlockAll(cache, Top.inner)
    PROVE  /\ Consistent(c) /\ Counted(c, OutOf(stack, loose, leaked)) /\ SameLists(cache, c)
           /\ c.dead = cache.dead
           /\ c.dead = "alive" => \A e \in El :
                 /\ c.lock[e] = LocksIn(Below, e) + HoldsRoot(Top, e) + c.rpt[e]
                 /\ c.rpt[e] \in Nat
<1> DEFINE out == OutOf(stack, loose, leaked)
           S == Top.inner
<1>1. /\ Consistent(cache) /\ Counted(cache, out) /\ S \in SUBSET El
      /\ \A e \in El : /\ LocksIn(Below, e) \in Nat /\ cache.rpt[e] \in Nat
                       /\ cache.lock[e] = LocksIn(Below, e) + HoldsRoot(Top, e)
                                            + HoldsInner(Top, e) + cache.rpt[e]
  BY NowIs, TopIs, TopHolds, FrameFields DEF Running
<1>2. \A e \in El : HoldsRoot(Top, e) \in Nat /\ HoldsInner(Top, e) = IF e \in S THEN 1 ELSE 0
  BY DEF HoldsRoot, HoldsInner
<1>3. c = UnlockAll(cache, S)
  OBVIOUS
<1> HIDE DEF out, S
<1>4. \A e \in S : e \in El /\ cache.rpt[e] < cache.lock[e]
  <2>1. ASSUME NEW e \in S PROVE e \in El /\ cache.rpt[e] < cache.lock[e]
    <3>1. e \in El
      BY <1>1
    <3>2. HoldsInner(Top, e) = 1
      BY <1>2, <3>1
    <3> QED  BY <1>1, <1>2, <3>1, <3>2
  <2> QED  BY <2>1
<1>5. /\ Consistent(c) /\ Counted(c, out) /\ SameLists(cache, c) /\ c.dead = cache.dead
      /\ \A e \in El :
            /\ c.lock[e] = IF e \in S THEN cache.lock[e] - 1 ELSE cache.lock[e]
            /\ c.rpt[e] = cache.rpt[e]
  BY <1>1, <1>3, <1>4, UnlockAllIs
<1>6. ASSUME c.dead = "alive", NEW e \in El
      PROVE  c.lock[e] = LocksIn(Below, e) + HoldsRoot(Top, e) + c.rpt[e] /\ c.rpt[e] \in Nat
  BY <1>1, <1>2, <1>5, <1>6
<1> QED  BY <1>5, <1>6 DEF out

LEMMA BodyDoneStep ==
    ASSUME Inv, BodyDone
    PROVE  Inv' /\ Kept
<1> DEFINE c == UnlockAll(cache, Top.inner)
           d == ReleaseIf(c, Top.macro)
           f == [Top EXCEPT !.inner = {}, !.macro = NoRec]
           out == OutOf(stack, loose, leaked)
           base == [r \in Rec |-> RefsIn(Below, r) + Held(Top.vars, r) + loose[r] + leaked[r]]
<1>1. /\ Running /\ cache.dead = "alive" /\ Top.kind \notin Once
      /\ Commit(d, SetTop(f), "next") /\ jump' = NoJump /\ UNCHANGED <<stored, loose, leaked>>
  BY DEF BodyDone, Running
<1>2. /\ Top \in Frame /\ Top.macro \in Rec \cup {NoRec}
      /\ loose \in [Rec -> Nat] /\ leaked \in [Rec -> Nat] /\ stored \subseteq Key /\ TypeOK
  BY <1>1, TopIs, NowIs, FrameFields DEF Now
<1>3. NoJump \in JumpsTo /\ "next" \in Results
  BY ReportAssumption DEF NoJump, JumpsTo, Results
<1>4. /\ Consistent(c) /\ Counted(c, out) /\ SameLists(cache, c)
      /\ c.dead = cache.dead
      /\ c.dead = "alive" => \A e \in El :
            /\ c.lock[e] = LocksIn(Below, e) + HoldsRoot(Top, e) + c.rpt[e]
            /\ c.rpt[e] \in Nat
  BY <1>1, InnerUnlocked
<1> HIDE DEF c
<1>5. \A r \in Rec : /\ RefsIn(Below, r) \in Nat
                     /\ out[r] = RefsIn(Below, r) + Held(Top.vars, r) + Bit(Top.macro, r)
                                   + loose[r] + leaked[r]
  BY <1>1, TopHolds
<1> HIDE DEF out
<1>6. \A r \in Rec : Held(Top.vars, r) \in Nat /\ Bit(Top.macro, r) \in Nat
  BY DEF Held, Bit
<1>7. base \in [Rec -> Nat] /\ \A r \in Rec :
        base[r] = RefsIn(Below, r) + Held(Top.vars, r) + loose[r] + leaked[r]
  BY <1>2, <1>5, <1>6
<1> HIDE DEF base
<1>8. \A r \in Rec : out[r] = base[r] + Bit(Top.macro, r)
  BY <1>2, <1>5, <1>6, <1>7
<1>9. /\ Consistent(d) /\ Counted(d, base) /\ SameLists(c, d) /\ SameLocks(c, d) /\ d.dead = c.dead
  BY <1>2, <1>4, <1>7, <1>8, ReleaseIfIs
<1> HIDE DEF d
<1>10. /\ f \in Frame /\ f.kind = Top.kind /\ f.root = Top.root /\ f.inner = {}
       /\ f.vars = Top.vars /\ f.macro = NoRec /\ Bare(f)
  BY <1>2 DEF Frame, Bare
<1> HIDE DEF f
<1>11. ASSUME d.dead = "alive"
       PROVE  SetTop(f) \in Seq(Frame) /\ Good(d, SetTop(f), "next", loose, leaked)
  <2>1. \A r \in Rec : base[r] = RefsIn(Below, r) + Held(f.vars, r) + Bit(f.macro, r) + loose[r] + leaked[r]
    BY <1>2, <1>5, <1>6, <1>7, <1>10, NothingIn
  <2>2. \A e \in El : d.lock[e] = LocksIn(Below, e) + HoldsRoot(Top, e) + HoldsInner(f, e) + d.rpt[e]
    <3>1. ASSUME NEW e \in El
          PROVE  d.lock[e] = LocksIn(Below, e) + HoldsRoot(Top, e) + HoldsInner(f, e) + d.rpt[e]
      <4>1. /\ d.lock[e] = LocksIn(Below, e) + HoldsRoot(Top, e) + d.rpt[e] /\ d.rpt[e] \in Nat
        BY <1>4, <1>9, <1>11 DEF SameLocks
      <4>2. HoldsInner(f, e) = 0 /\ HoldsRoot(Top, e) \in Nat /\ LocksIn(Below, e) \in Nat
        BY <1>1, <1>10, TopHolds DEF HoldsInner, HoldsRoot
      <4> QED  BY <4>1, <4>2
    <3> QED  BY <3>1
  <2> QED  BY <1>1, <1>2, <1>9, <1>10, <2>1, <2>2, GoodTop
<1>12. Inv' /\ cache'.key = d.key
  <2>1. /\ stored' \subseteq Key /\ loose' \in [Rec -> Nat] /\ leaked' \in [Rec -> Nat]
        /\ jump' \in JumpsTo /\ loose' = loose /\ leaked' = leaked
    BY <1>1, <1>2, <1>3
  <2> QED  BY <1>1, <1>2, <1>3, <1>9, <1>11, <2>1, Committed
<1> QED  BY <1>4, <1>9, <1>12 DEF Kept, LockedKeep, SameLists

LEMMA LeaveLoopStep ==
    ASSUME Inv, LeaveLoop
    PROVE  Inv' /\ Kept /\ Leaves(Sh.node /\ ~Top.alive)
<1> DEFINE b == UnlockAll(cache, Top.inner)
           c == IF Sh.node /\ ~Top.alive THEN Die(cache, "dangling") ELSE b
           out == OutOf(stack, loose, leaked)
<1>1. /\ Running /\ cache.dead = "alive" /\ irc \in Jumps /\ Top.kind \notin Once
      /\ Leaving(c, Sh.leave[irc]) /\ UNCHANGED <<stored, loose>>
      /\ leaked' = IF cache'.dead = "alive" /\ Top.macro # NoRec
                   THEN [leaked EXCEPT ![Top.macro] = @ + 1] ELSE leaked
  BY DEF LeaveLoop, Running
<1>2. /\ Top.kind # "main" /\ Top.macro \in Rec \cup {NoRec} /\ leaked \in [Rec -> Nat]
      /\ Consistent(cache) /\ Counted(cache, out) /\ Sh.leave[irc] \in Jumps \cup {"okay"}
  BY <1>1, MainIs, TopIs, NowIs, FrameFields DEF Sound
<1>3. leaked' \in [Rec -> Nat]
      /\ (cache'.dead = "alive" => \A r \in Rec : leaked'[r] = leaked[r] + Bit(Top.macro, r))
  <2>1. CASE Top.macro = NoRec
    BY <1>1, <1>2, <2>1, NothingIn
  <2>2. CASE Top.macro # NoRec
    BY <1>1, <1>2, <2>2 DEF Bit
  <2> QED  BY <2>1, <2>2
<1>4. /\ Consistent(b) /\ Counted(b, out) /\ SameLists(cache, b)
      /\ b.dead = cache.dead
      /\ b.dead = "alive" => \A e \in El :
            /\ b.lock[e] = LocksIn(Below, e) + HoldsRoot(Top, e) + b.rpt[e]
            /\ b.rpt[e] \in Nat
  BY <1>1, InnerUnlocked
<1> HIDE DEF b
<1>5. /\ Consistent(c) /\ Counted(c, out) /\ SameLists(cache, c)
      /\ c.dead = "alive" => c = b
      /\ c.dead = IF Sh.node /\ ~Top.alive THEN "dangling" ELSE "alive"
  <2>1. CASE Sh.node /\ ~Top.alive
    <3>1. c = Die(cache, "dangling") /\ "dangling" \in Deaths /\ "dangling" # "alive"
      BY <2>1 DEF Deaths
    <3> HIDE DEF c, out
    <3>2. Consistent(c) /\ Counted(c, out) /\ SameLists(cache, c) /\ c.dead = "dangling"
      BY <1>2, <3>1, DieKeeps
    <3> QED  BY <2>1, <3>1, <3>2
  <2>2. CASE ~(Sh.node /\ ~Top.alive)
    BY <1>1, <1>4, <2>2
  <2> QED  BY <2>1, <2>2
<1> HIDE DEF c
<1>6. Inv' /\ Kept /\ cache'.dead = c.dead /\ cache'.table = cache.table
  BY <1>1, <1>2, <1>3, <1>4, <1>5, LeavingStep
<1> QED  BY <1>5, <1>6 DEF Leaves

-----------------------------------------------------------------------------
(* The end of a report.                                                      *)

(* The values that the report let go of are released; no record object of    *)
(* an element is.                                                            *)
LEMMA ReleaseLooseIs ==
    ASSUME loose \in [Rec -> Nat], NEW c, Consistent(c), NEW out, Counted(c, out),
           NEW base \in [Rec -> Nat], \A r \in Rec : out[r] = loose[r] + base[r],
           NEW d, d = ReleaseLoose(c)
    PROVE  Consistent(d) /\ Counted(d, base) /\ SameLists(c, d) /\ SameLocks(c, d) /\ d.dead = c.dead
<1> DEFINE rest == [r \in Rec |-> IF c.refs[r] >= loose[r] THEN c.refs[r] - loose[r] ELSE 0]
           ends == {r \in Rec : c.refs[r] > 0 /\ rest[r] = 0}
           cr == [e \in El |-> IF c.crec[e] \in ends THEN NoRec ELSE c.crec[e]]
           rc == [r \in Rec |-> IF r \in ends THEN NoEl ELSE c.rcel[r]]
<1>1. /\ c \in CacheType /\ c.refs \in [Rec -> Nat] /\ c.crec \in [El -> Rec \cup {NoRec}]
      /\ c.rcel \in [Rec -> El \cup {NoEl}]
  BY CacheFields DEF Consistent
<1>2. \A r \in Rec : c.refs[r] = Own(c, r) + out[r] /\ Own(c, r) \in Nat /\ out[r] \in Nat
  BY DEF Counted, Own
<1>3. rest \in [Rec -> Nat] /\ \A r \in Rec : rest[r] = Own(c, r) + base[r]
  <2>1. ASSUME NEW r \in Rec PROVE rest[r] = Own(c, r) + base[r]
    <3>1. c.refs[r] = Own(c, r) + (loose[r] + base[r]) /\ Own(c, r) \in Nat
      BY <1>2
    <3> QED  BY <3>1
  <2>2. \A r \in Rec : rest[r] \in Nat
    BY <1>2, <2>1
  <2> QED  BY <2>1, <2>2
<1>4. ASSUME NEW e \in El PROVE c.crec[e] \notin ends
  <2>1. SUFFICES ASSUME c.crec[e] \in ends PROVE FALSE
    OBVIOUS
  <2>2. c.crec[e] \in Rec /\ rest[c.crec[e]] = 0
    BY <2>1
  <2>3. Own(c, c.crec[e]) = 1
    BY DEF Own
  <2> HIDE DEF rest
  <2> QED  BY <1>3, <2>2, <2>3
<1> HIDE DEF rest
<1>5. rc \in [Rec -> El \cup {NoEl}] /\ \A r \in Rec : rc[r] = IF r \in ends THEN NoEl ELSE c.rcel[r]
  BY <1>1
<1>6. cr = c.crec
  BY <1>1, <1>4
<1>7. d = [c EXCEPT !.refs = rest, !.crec = cr, !.rcel = rc]
  BY DEF ReleaseLoose, rest
<1> HIDE DEF ends, cr, rc
<1>8. /\ d \in CacheType /\ d.refs = rest /\ d.crec = c.crec /\ d.rcel = rc
      /\ SameLists(c, d) /\ SameLocks(c, d) /\ d.dead = c.dead
  BY <1>1, <1>3, <1>5, <1>6, <1>7 DEF CacheType, SameLists, SameLocks
<1>9. ElementsPlaced(d) /\ TableExact(d)
  BY <1>8, ListsAgain DEF Consistent
<1>10. RecordsLinked(d)
  <2>1. ASSUME NEW e \in El, c.crec[e] # NoRec
        PROVE  d.refs[c.crec[e]] > 0 /\ d.rcel[c.crec[e]] = e
    <3>1. c.crec[e] \in Rec /\ c.rcel[c.crec[e]] = e
      BY <1>1, <2>1 DEF Consistent, RecordsLinked
    <3>2. Own(c, c.crec[e]) = 1
      BY DEF Own
    <3> QED  BY <1>3, <1>4, <1>5, <1>8, <3>1, <3>2
  <2>2. RecordsLinked(c)
    BY DEF Consistent
  <2> QED  BY <1>8, <2>1, <2>2 DEF RecordsLinked, SameLists, SameLocks
<1>11. Counted(d, base)
  <2>1. \A r : Own(d, r) = Own(c, r)
    BY <1>8 DEF Own
  <2> QED  BY <1>3, <1>8, <2>1 DEF Counted
<1> QED  BY <1>8, <1>9, <1>10, <1>11 DEF Consistent

LEMMA FinishReportStep ==
    ASSUME Inv, FinishReport
    PROVE  Inv' /\ Kept
<1> DEFINE c == ReleaseLoose(cache)
           d == FreeAllRptLocks(c)
           out == OutOf(stack, loose, leaked)
<1>0. PICK st : st = << >>
  OBVIOUS
<1>1. /\ Running /\ cache.dead = "alive" /\ Top.kind = "main" /\ Commit(d, st, "run")
      /\ loose' = [r \in Rec |-> 0] /\ jump' = NoJump /\ UNCHANGED <<stored, leaked>>
  BY <1>0 DEF FinishReport, Running
<1>2. /\ Consistent(cache) /\ Counted(cache, out) /\ stored \subseteq Key /\ TypeOK
      /\ loose \in [Rec -> Nat] /\ leaked \in [Rec -> Nat]
  BY <1>1, NowIs DEF Now
<1>3. /\ Bare(Top) /\ Top.vars = NoVars /\ Shape[Top.kind].outer = None /\ Len(Below) = 0
      /\ Below \in Seq(Frame)
  BY <1>1, TopIs, MainIs, OnceShape DEF FrameAt
<1>4. st \in Seq(Frame) /\ Len(st) = 0
  BY <1>0
<1>5. \A r \in Rec : out[r] = loose[r] + leaked[r]
  <2>1. ASSUME NEW r \in Rec PROVE out[r] = loose[r] + leaked[r]
    <3>1. out[r] = RefsIn(Below, r) + Held(Top.vars, r) + Bit(Top.macro, r) + loose[r] + leaked[r]
      BY <1>1, TopHolds
    <3>2. RefsIn(Below, r) = 0 /\ Held(Top.vars, r) = 0 /\ Bit(Top.macro, r) = 0
      BY <1>3, NothingHeld, NothingIn DEF Bare
    <3> HIDE DEF out
    <3> QED  BY <1>2, <3>1, <3>2
  <2> QED  BY <2>1
<1> HIDE DEF out
<1>6. /\ Consistent(c) /\ Counted(c, leaked) /\ SameLists(cache, c) /\ SameLocks(cache, c)
      /\ c.dead = cache.dead
  BY <1>2, <1>5, ReleaseLooseIs
<1> HIDE DEF c
<1>7. /\ Consistent(d) /\ Counted(d, leaked) /\ SameLists(c, d) /\ d.dead = c.dead
      /\ \A x \in El : /\ d.lock[x] - d.rpt[x] = c.lock[x] - c.rpt[x]
                       /\ Cache[x] # "EVEN" => d.rpt[x] = 0
  BY <1>6, FreeAllRptLocksIs
<1> HIDE DEF d
<1>8. LocksOf(d, st)
  <2>1. ASSUME NEW x \in El
        PROVE  d.lock[x] = LocksIn(st, x) + d.rpt[x] /\ (d.lock[x] > 0 => Cache[x] = "EVEN")
    <3>1. cache.lock[x] = LocksIn(Below, x) + HoldsRoot(Top, x) + HoldsInner(Top, x) + cache.rpt[x]
          /\ cache.rpt[x] \in Nat
      BY <1>1, TopHolds
    <3>2. LocksIn(Below, x) = 0 /\ LocksIn(st, x) = 0 /\ HoldsRoot(Top, x) = 0 /\ HoldsInner(Top, x) = 0
      BY <1>3, <1>4, NothingHeld DEF Bare, HoldsRoot, HoldsInner
    <3>3. d.lock[x] \in Nat /\ d.rpt[x] \in Nat
      BY <1>7, CacheFields DEF Consistent
    <3>4. d.lock[x] - d.rpt[x] = 0
      BY <1>6, <1>7, <3>1, <3>2 DEF SameLocks
    <3>5. Cache[x] # "EVEN" => d.rpt[x] = 0
      BY <1>7
    <3>6. d.lock[x] = LocksIn(st, x) + d.rpt[x]
      BY <3>2, <3>3, <3>4
    <3>7. d.lock[x] > 0 => Cache[x] = "EVEN"
      BY <3>2, <3>3, <3>5, <3>6
    <3> QED  BY <3>6, <3>7
  <2> QED  BY <2>1 DEF LocksOf
<1>9. Counted(d, OutOf(st, loose', leaked))
  <2> DEFINE lo == [r \in Rec |-> 0]
             a == OutOf(st, lo, leaked)
  <2>0. lo \in [Rec -> Nat] /\ \A r \in Rec : lo[r] = 0
    OBVIOUS
  <2> HIDE DEF lo
  <2>1. a \in [Rec -> Nat] /\ \A r \in Rec : a[r] = RefsIn(st, r) + lo[r] + leaked[r]
    BY <1>2, <1>4, <2>0, OutOfIs
  <2> HIDE DEF a
  <2>2. \A r \in Rec : leaked[r] = a[r]
    BY <1>2, <1>4, <2>0, <2>1, NothingHeld
  <2>3. Counted(d, a)
    BY <1>7, <2>1, <2>2, SameCount
  <2> QED  BY <1>1, <2>3 DEF a, lo
<1>10. Framed(st, "run")
  BY <1>4 DEF Framed
<1>11. Good(d, st, "run", loose', leaked')
  BY <1>1, <1>7, <1>8, <1>9, <1>10 DEF Good
<1>12. Inv' /\ cache'.key = d.key
  <2>1. /\ stored' \subseteq Key /\ loose' \in [Rec -> Nat] /\ leaked' \in [Rec -> Nat]
        /\ jump' \in JumpsTo /\ "run" \in Results
    BY <1>1, <1>2, ReportAssumption DEF NoJump, JumpsTo, Results
  <2> QED  BY <1>1, <1>2, <1>4, <1>7, <1>11, <2>1, Committed
<1> QED  BY <1>6, <1>7, <1>12 DEF Kept, LockedKeep, SameLists

-----------------------------------------------------------------------------
(* Between reports.                                                          *)

LEMMA AddRecordStep ==
    ASSUME Inv, NEW k \in Edited, AddRecord(k)
    PROVE  Inv' /\ Kept
<1> DEFINE d == AddNew(cache, k)
<1>1. /\ cache.dead = "alive" /\ k \in Key /\ Commit(d, stack, irc)
      /\ stored' = stored \cup {k} /\ UNCHANGED <<loose, leaked, jump>>
  BY ReportAssumption DEF AddRecord, Idle
<1>2. stored' \subseteq Key
  BY <1>1, NowIs
<1>3. /\ Consistent(d) /\ SameLocks(cache, d) /\ LockedKeep(cache, d)
      /\ d.dead = "alive" => Counted(d, OutOf(stack, loose, leaked))
  BY <1>1, NowIs, AddNewIs
<1> HIDE DEF d
<1> QED  BY <1>1, <1>2, <1>3, ReadStep

LEMMA DeleteRecordStep ==
    ASSUME Inv, NEW k \in Edited, DeleteRecord(k)
    PROVE  Inv' /\ Kept
<1> DEFINE c == KeyToCacheel(cache, k)
           d == IF c.dead # "alive" THEN c ELSE RemoveFromCache(c, k)
           out == OutOf(stack, loose, leaked)
<1>1. /\ cache.dead = "alive" /\ k \in Key /\ Commit(d, stack, irc)
      /\ stored' = stored \ {k} /\ UNCHANGED <<loose, leaked, jump>>
  BY ReportAssumption DEF DeleteRecord, Idle
<1>2. stored' \subseteq Key
  BY <1>1, NowIs
<1>3. Reads(cache, c, k) /\ (c.dead = "alive" => Counted(c, out))
  BY <1>1, NowIs, KeyToCacheelIs
<1> HIDE DEF c, out
<1>4. /\ Consistent(d) /\ SameLocks(cache, d) /\ LockedKeep(cache, d)
      /\ d.dead = "alive" => Counted(d, out)
  <2>1. CASE c.dead # "alive"
    BY <1>3, <2>1 DEF Reads
  <2>2. CASE c.dead = "alive"
    <3>1. d = RemoveFromCache(c, k)
      BY <2>2
    <3> HIDE DEF d
    <3>2. Consistent(d) /\ Counted(d, out) /\ SameLocks(c, d) /\ LockedKeep(c, d)
      BY <1>1, <1>3, <2>2, <3>1, RemoveFromCacheIs DEF Reads
    <3> QED  BY <1>3, <3>2 DEF Reads, SameLocks, LockedKeep
  <2> QED  BY <2>1, <2>2
<1> HIDE DEF d
<1> QED  BY <1>1, <1>2, <1>4, ReadStep DEF out

LEMMA GoodEmpty ==
    ASSUME NEW c, c = EmptyCaches(FreeOrder), NEW st \in Seq(Frame), Len(st) = 0,
           NEW lo, NEW le, lo = [r \in Rec |-> 0], le = [r \in Rec |-> 0]
    PROVE  Good(c, st, "run", lo, le)
<1>1. /\ Consistent(c) /\ \A e \in El : c.lock[e] = 0 /\ c.rpt[e] = 0
      /\ \A r \in Rec : c.refs[r] = 0 /\ Own(c, r) = 0
  BY EmptyCachesIs, FreeOrderAssumption
<1>2. Counted(c, OutOf(st, lo, le))
  <2> DEFINE a == OutOf(st, lo, le)
  <2>1. lo \in [Rec -> Nat] /\ le \in [Rec -> Nat]
    OBVIOUS
  <2>2. a \in [Rec -> Nat] /\ \A r \in Rec : a[r] = RefsIn(st, r) + lo[r] + le[r]
    BY <2>1, OutOfIs
  <2> HIDE DEF a
  <2>3. \A r \in Rec : a[r] = 0
    BY <2>2, NothingHeld
  <2>4. Counted(c, a)
    BY <1>1, <2>2, <2>3 DEF Counted
  <2> QED  BY <2>4 DEF a
<1>3. LocksOf(c, st)
  BY <1>1, NothingHeld DEF LocksOf
<1>4. Framed(st, "run")
  BY DEF Framed
<1> QED  BY <1>1, <1>2, <1>3, <1>4 DEF Good

\* the state that the program starts in
Started ==
    /\ cache = EmptyCaches(FreeOrder) /\ stored \subseteq Key
    /\ stack = <<>> /\ irc = "run"
    /\ loose = [r \in Rec |-> 0] /\ leaked = [r \in Rec |-> 0]
    /\ jump = NoJump

LEMMA StartedGood == Started => Inv
<1> SUFFICES ASSUME Started PROVE Inv
  OBVIOUS
<1>1. stack \in Seq(Frame) /\ Len(stack) = 0
  BY DEF Started
<1>2. Good(cache, stack, irc, loose, leaked)
  BY <1>1, GoodEmpty DEF Started
<1>3. /\ loose \in [Rec -> Nat] /\ leaked \in [Rec -> Nat] /\ jump \in JumpsTo /\ irc \in Results
      /\ stored \subseteq Key
  BY ReportAssumption DEF Started, NoJump, JumpsTo, Results
<1>4. cache \in CacheType
  BY <1>2 DEF Good, Consistent
<1> QED  BY <1>1, <1>2, <1>3, <1>4, TypeParts DEF Inv

LEMMA RestartStep ==
    ASSUME Inv, Restart
    PROVE  Inv' /\ Kept
<1>1. Started'
  BY DEF Restart, Started, Inv, TypeOK
<1>2. Inv'
  BY <1>1, StartedGood, PTL
<1>3. Kept
  BY DEF Restart, Kept
<1> QED  BY <1>2, <1>3

LEMMA StatementStep ==
    ASSUME Inv, Statement
    PROVE  Inv' /\ Kept
  BY EnterStep, TouchStep, LlrptLockStep, LlrptUnlockStep, UseVarStep, EndOfBodyStep, JumpStep
     DEF Statement

LEMMA NextStep ==
    ASSUME Inv, Next
    PROVE  Inv' /\ Kept
<1>1. CASE Start
  BY <1>1, StartStep
<1>2. CASE Statement
  BY <1>2, StatementStep
<1>3. CASE NextItem
  BY <1>3, NextItemStep
<1>4. CASE PassOver
  BY <1>4, PassOverStep
<1>5. CASE LoopEnd
  BY <1>5, LoopEndStep
<1>6. CASE BodyDone
  BY <1>6, BodyDoneStep
<1>7. CASE LeaveLoop
  BY <1>7, LeaveLoopStep
<1>8. CASE LeaveOnce
  BY <1>8, LeaveOnceStep
<1>9. CASE FinishReport
  BY <1>9, FinishReportStep
<1>10. ASSUME NEW k \in Edited, AddRecord(k) PROVE Inv' /\ Kept
  BY <1>10, AddRecordStep
<1>11. ASSUME NEW k \in Edited, DeleteRecord(k) PROVE Inv' /\ Kept
  BY <1>11, DeleteRecordStep
<1>12. CASE Restart
  BY <1>12, RestartStep
<1> QED  BY <1>1, <1>2, <1>3, <1>4, <1>5, <1>6, <1>7, <1>8, <1>9, <1>10, <1>11, <1>12 DEF Next

-----------------------------------------------------------------------------
(* What holds of every report.                                               *)

(* Nothing that a report does takes the program out of the invariant.        *)
THEOREM Invariance == Spec => []Inv
<1>1. Init => Inv
  <2>1. Init => Started
    BY ReportAssumption DEF Init, Started
  <2> QED  BY <2>1, StartedGood
<1>2. Inv /\ [Next]_vars => Inv'
  <2>1. ASSUME Inv, UNCHANGED vars PROVE Inv'
    <3>1. UNCHANGED <<cache, stored, stack, irc, loose, leaked, jump>>
      BY <2>1 DEF vars
    <3> QED  BY <2>1, <3>1 DEF Inv, TypeOK, Alive
  <2> QED  BY <2>1, NextStep
<1> QED  BY <1>1, <1>2, PTL DEF Spec

LEMMA InvConsistent == Inv => CacheConsistent
<1> SUFFICES ASSUME Inv PROVE CacheConsistent
  OBVIOUS
<1>1. TypeOK
  BY DEF Inv
<1>2. Alive => ElementsPlaced(cache) /\ TableExact(cache) /\ RecordsLinked(cache)
  BY DEF Inv, Good, Consistent
<1>3. UseFinds
  <2>1. ASSUME Alive, NEW i \in 1..Depth, NEW x \in Roles, stack[i].vars[x] # NoRec,
               Nztop(cache, stack[i].vars[x], stored).dead = "alive"
        PROVE  LET d == Nztop(cache, stack[i].vars[x], stored)
               IN  d.key[d.rcel[stack[i].vars[x]]] = KeyOf(stack[i].vars[x])
    <3>1. cache.dead = "alive"
      BY <2>1 DEF Alive
    <3>2. stack[i].vars[x] \in Rec
      BY <2>1, <3>1, NowIs, Frames, FrameFields DEF Depth
    <3> QED  BY <2>1, <3>1, <3>2, NowIs, NztopFinds
  <2> QED  BY <2>1 DEF UseFinds
<1> QED  BY <1>1, <1>2, <1>3 DEF CacheConsistent

(* The lists, the table, the elements and the record objects of every cache  *)
(* agree after whatever a report did, and a loop variable that is used leads *)
(* to the tree of its own record.                                            *)
THEOREM CachesAgree == Spec => []CacheConsistent
  BY Invariance, InvConsistent, PTL

(* At most one element has the record object r.                              *)
LEMMA OneOwner ==
    ASSUME NEW c, Consistent(c), NEW r \in Rec
    PROVE  Cardinality({e \in El : c.crec[e] = r}) = Own(c, r)
<1>1. CASE \E e \in El : c.crec[e] = r
  <2>1. PICK e \in El : c.crec[e] = r
    BY <1>1
  <2>2. \A x \in El : c.crec[x] = r => x = e
    BY <2>1, Constants DEF Consistent, RecordsLinked
  <2>3. {x \in El : c.crec[x] = r} = {e}
    BY <2>1, <2>2
  <2> QED  BY <1>1, <2>3, FS_Singleton DEF Own
<1>2. CASE ~ \E e \in El : c.crec[e] = r
  <2>1. {x \in El : c.crec[x] = r} = {}
    BY <1>2
  <2> QED  BY <1>2, <2>1, FS_EmptySet DEF Own
<1> QED  BY <1>1, <1>2

LEMMA InvHolds == Inv => HoldsExact
<1> SUFFICES ASSUME Inv, cache.dead = "alive" PROVE HoldsExact
  BY DEF HoldsExact, LocksAccounted, RefsExact, Alive
<1>1. /\ stack \in Seq(Frame) /\ LocksOf(cache, stack) /\ Consistent(cache)
      /\ Counted(cache, OutOf(stack, loose, leaked))
      /\ loose \in [Rec -> Nat] /\ leaked \in [Rec -> Nat]
  BY NowIs
<1>2. LocksAccounted
  <2>1. ASSUME NEW e \in El
        PROVE  /\ cache.lock[e] = Cardinality(Holders(e)) + Cardinality(Inner(e)) + cache.rpt[e]
               /\ Idle /\ cache.lock[e] > 0 => Cache[e] = "EVEN"
    <3>1. Holders(e) = HoldersIn(stack, e) /\ Inner(e) = InnerIn(stack, e)
      BY DEF Holders, Inner, HoldersIn, InnerIn, Depth
    <3>2. Idle => Len(stack) = 0
      BY DEF Idle
    <3> QED  BY <1>1, <3>1, <3>2 DEF LocksOf, LocksIn
  <2> QED  BY <2>1 DEF LocksAccounted
<1>3. RefsExact
  <2>1. ASSUME NEW r \in Rec
        PROVE  cache.refs[r] = Cardinality({e \in El : cache.crec[e] = r})
                                 + Cardinality(VarsOn(r))
                                 + Cardinality({i \in 1..Depth : stack[i].macro = r})
                                 + loose[r] + leaked[r]
    <3>1. VarsOn(r) = VarsIn(stack, r) /\ {i \in 1..Depth : stack[i].macro = r} = MacrosIn(stack, r)
      BY DEF VarsOn, VarsIn, MacrosIn, Depth
    <3>2. cache.refs[r] = Own(cache, r) + OutOf(stack, loose, leaked)[r]
      BY <1>1 DEF Counted
    <3>3. OutOf(stack, loose, leaked)[r] = RefsIn(stack, r) + loose[r] + leaked[r]
      BY <1>1, OutOfIs
    <3>4. Cardinality({e \in El : cache.crec[e] = r}) = Own(cache, r) /\ Own(cache, r) \in Nat
      BY <1>1, OneOwner DEF Own
    <3>5. Cardinality(VarsIn(stack, r)) \in Nat /\ Cardinality(MacrosIn(stack, r)) \in Nat
      BY <1>1, HoldsFinite, FS_CardinalityType
    <3>6. loose[r] \in Nat /\ leaked[r] \in Nat
      BY <1>1
    <3>7. RefsIn(stack, r) = Cardinality(VarsIn(stack, r)) + Cardinality(MacrosIn(stack, r))
      BY DEF RefsIn
    <3>8. cache.refs[r] = Own(cache, r) + Cardinality(VarsIn(stack, r))
                            + Cardinality(MacrosIn(stack, r)) + loose[r] + leaked[r]
      BY <3>2, <3>3, <3>4, <3>5, <3>6, <3>7
    <3> QED  BY <3>1, <3>4, <3>8
  <2> QED  BY <2>1 DEF RefsExact
<1> QED  BY <1>2, <1>3 DEF HoldsExact

(* What loops and macros lock and hold is given back on every way out of a   *)
(* report: every lock and every reference that there is has its holder.      *)
THEOREM HoldsAccounted == Spec => []HoldsExact
  BY Invariance, InvHolds, PTL

(* The tree of a locked element stays where it is, whatever the body of the  *)
(* loop reads meanwhile.                                                     *)
THEOREM LockedTreesStay == Spec => LockedStay
<1>1. Inv /\ [Next]_vars =>
        [\A e \in El : cache.lock[e] > 0 /\ Alive =>
            \/ cache'.key[e] = cache.key[e]
            \/ cache.key[e] = NoKey]_cache
  <2>1. CASE UNCHANGED vars
    BY <2>1 DEF vars
  <2>2. ASSUME Inv, Next
        PROVE  \A e \in El : cache.lock[e] > 0 /\ Alive => cache'.key[e] = cache.key[e]
    BY <2>2, NextStep DEF Kept, LockedKeep, Alive
  <2> QED  BY <2>1, <2>2
<1> QED  BY <1>1, Invariance, PTL DEF Spec, LockedStay

-----------------------------------------------------------------------------
(***************************************************************************)
(* Where jumps go.  On its way up the stack a jump may change its name, a  *)
(* break outside of a loop becoming an error at the procedure; what stays  *)
(* is that it ends where the statements of that name should go on.         *)
(***************************************************************************)
HighestOf(st, kinds) ==
    LET at == {i \in 1..Len(st) : st[i].kind \in kinds}
    IN IF at = {} THEN 0 ELSE CHOOSE i \in at : \A j \in at : j <= i
LoopOf(st) ==
    IF HighestOf(st, Kind \ Once) > HighestOf(st, Procs) THEN HighestOf(st, Kind \ Once) ELSE 0
TargetOf(st, how) ==
    CASE how = "break" -> IF LoopOf(st) = 0 THEN 0 ELSE LoopOf(st) - 1
      [] how = "continue" -> LoopOf(st)
      [] how = "return" -> HighestOf(st, Procs) - 1
      [] how = "error" -> 0

JumpInv == Running /\ irc \in Jumps => jump.to = TargetOf(stack, irc)

LEMMA TargetIs == \A how : Target(how) = TargetOf(stack, how)
<1>1. \A kinds : InnermostOf(kinds) = HighestOf(stack, kinds)
  BY DEF InnermostOf, HighestOf, Depth
<1>2. Loop = LoopOf(stack)
  BY <1>1 DEF Loop, LoopOf
<1> QED  BY <1>1, <1>2 DEF Target, TargetOf

LEMMA HighestIs ==
    ASSUME NEW st \in Seq(Frame), NEW kinds
    PROVE  /\ HighestOf(st, kinds) \in 0..Len(st)
           /\ HighestOf(st, kinds) # 0 => st[HighestOf(st, kinds)].kind \in kinds
           /\ \A i \in 1..Len(st) : st[i].kind \in kinds => i <= HighestOf(st, kinds)
<1> DEFINE at == {i \in 1..Len(st) : st[i].kind \in kinds}
           h == CHOOSE i \in at : \A j \in at : j <= i
<1>1. Len(st) \in Nat /\ at \in SUBSET (1..Len(st))
  BY Frames
<1>2. HighestOf(st, kinds) = IF at = {} THEN 0 ELSE h
  BY DEF HighestOf
<1>3. \A i \in 1..Len(st) : i \in at <=> st[i].kind \in kinds
  OBVIOUS
<1> HIDE DEF at
<1>4. at # {} => h \in at /\ \A j \in at : j <= h
  <2>1. at # {} => \E i \in at : \A j \in at : j <= i
    BY <1>1, HighestIn
  <2> QED  BY <2>1
<1> HIDE DEF h
<1>5. CASE at = {}
  BY <1>1, <1>2, <1>3, <1>5
<1>6. CASE at # {}
  <2>1. HighestOf(st, kinds) = h /\ h \in 1..Len(st) /\ st[h].kind \in kinds
    BY <1>1, <1>2, <1>3, <1>4, <1>6
  <2>2. \A i \in 1..Len(st) : st[i].kind \in kinds => i <= h
    BY <1>3, <1>4, <1>6
  <2> QED  BY <1>1, <2>1, <2>2
<1> QED  BY <1>5, <1>6

LEMMA HighestSame ==
    ASSUME NEW st \in Seq(Frame), NEW n \in Nat, NEW kinds,
           n \in 0..Len(st), n # 0 => st[n].kind \in kinds,
           \A i \in 1..Len(st) : st[i].kind \in kinds => i <= n
    PROVE  HighestOf(st, kinds) = n
<1> DEFINE h == HighestOf(st, kinds)
<1>1. /\ h \in 0..Len(st) /\ (h # 0 => st[h].kind \in kinds) /\ Len(st) \in Nat
      /\ \A i \in 1..Len(st) : st[i].kind \in kinds => i <= h
  BY HighestIs, Frames
<1> HIDE DEF h
<1>2. h <= n
  BY <1>1
<1>3. n <= h
  BY <1>1
<1> QED  BY <1>1, <1>2, <1>3 DEF h

LEMMA HighestPush ==
    ASSUME NEW st \in Seq(Frame), NEW f \in Frame, NEW kinds
    PROVE  HighestOf(Append(st, f), kinds) = IF f.kind \in kinds THEN Len(st) + 1 ELSE HighestOf(st, kinds)
<1> DEFINE s2 == Append(st, f)
           n == IF f.kind \in kinds THEN Len(st) + 1 ELSE HighestOf(st, kinds)
<1>1. /\ s2 \in Seq(Frame) /\ Len(s2) = Len(st) + 1 /\ Len(st) \in Nat
      /\ s2[Len(st) + 1] = f /\ \A i \in 1..Len(st) : s2[i] = st[i]
  BY PushFields, Frames
<1>2. /\ HighestOf(st, kinds) \in 0..Len(st)
      /\ HighestOf(st, kinds) # 0 => st[HighestOf(st, kinds)].kind \in kinds
      /\ \A i \in 1..Len(st) : st[i].kind \in kinds => i <= HighestOf(st, kinds)
  BY HighestIs
<1> HIDE DEF s2
<1>3. n \in Nat /\ n \in 0..Len(s2) /\ (n # 0 => s2[n].kind \in kinds)
  BY <1>1, <1>2
<1>4. ASSUME NEW i \in 1..Len(s2), s2[i].kind \in kinds PROVE i <= n
  BY <1>1, <1>2, <1>4
<1> HIDE DEF n
<1>5. HighestOf(s2, kinds) = n
  BY <1>1, <1>3, <1>4, HighestSame
<1> QED  BY <1>5 DEF s2, n

LEMMA TargetMarked ==
    ASSUME NEW st \in Seq(Frame), NEW gone, NEW how
    PROVE  TargetOf(Marked(st, gone), how) = TargetOf(st, how)
<1> DEFINE s2 == Marked(st, gone)
<1>1. s2 \in Seq(Frame) /\ Len(s2) = Len(st) /\ \A i \in 1..Len(st) : s2[i].kind = st[i].kind
  BY MarkedIs
<1> HIDE DEF s2
<1>2. ASSUME NEW kinds PROVE HighestOf(s2, kinds) = HighestOf(st, kinds)
  <2> DEFINE n == HighestOf(st, kinds)
  <2>1. /\ n \in 0..Len(st) /\ (n # 0 => st[n].kind \in kinds) /\ Len(st) \in Nat
        /\ \A i \in 1..Len(st) : st[i].kind \in kinds => i <= n
    BY HighestIs, Frames
  <2> HIDE DEF n
  <2>2. /\ n \in Nat /\ n \in 0..Len(s2) /\ (n # 0 => s2[n].kind \in kinds)
        /\ \A i \in 1..Len(s2) : s2[i].kind \in kinds => i <= n
    BY <1>1, <2>1
  <2>3. HighestOf(s2, kinds) = n
    BY <1>1, <2>2, HighestSame
  <2> QED  BY <2>3 DEF n
<1>3. LoopOf(s2) = LoopOf(st) /\ HighestOf(s2, Procs) = HighestOf(st, Procs)
  BY <1>2 DEF LoopOf
<1>4. TargetOf(s2, how) = TargetOf(st, how)
  BY <1>3 DEF TargetOf
<1> QED  BY <1>4 DEF s2

(* A frame on top of the stack: a condition changes no target, a loop and a  *)
(* procedure are the target of their own jumps.                              *)
LEMMA TargetPush ==
    ASSUME NEW st \in Seq(Frame), NEW f \in Frame
    PROVE  /\ f.kind \notin Kind \ Once /\ f.kind \notin Procs =>
                \A how : TargetOf(Append(st, f), how) = TargetOf(st, how)
           /\ f.kind \in Kind \ Once =>
                /\ TargetOf(Append(st, f), "break") = Len(st)
                /\ TargetOf(Append(st, f), "continue") = Len(st) + 1
                /\ TargetOf(Append(st, f), "return") = TargetOf(st, "return")
           /\ f.kind \in Procs =>
                /\ TargetOf(Append(st, f), "break") = 0
                /\ TargetOf(Append(st, f), "continue") = 0
                /\ TargetOf(Append(st, f), "return") = Len(st)
           /\ TargetOf(Append(st, f), "error") = 0
<1> DEFINE s2 == Append(st, f)
           a == HighestOf(st, Kind \ Once)
           b == HighestOf(st, Procs)
           n == Len(st) + 1
<1>1. Len(st) \in Nat /\ a \in 0..Len(st) /\ b \in 0..Len(st)
  BY HighestIs, Frames
<1>2. /\ HighestOf(s2, Kind \ Once) = IF f.kind \in Kind \ Once THEN n ELSE a
      /\ HighestOf(s2, Procs) = IF f.kind \in Procs THEN n ELSE b
  BY HighestPush
<1>3. f.kind \in Procs => f.kind \notin Kind \ Once
  BY DEF Procs, Once
<1>4. LoopOf(st) = IF a > b THEN a ELSE 0
  BY DEF LoopOf
<1> HIDE DEF a, b, s2
<1>5. CASE f.kind \notin Kind \ Once /\ f.kind \notin Procs
  <2>1. HighestOf(s2, Kind \ Once) = a /\ HighestOf(s2, Procs) = b
    BY <1>2, <1>5
  <2>2. LoopOf(s2) = LoopOf(st)
    BY <1>4, <2>1 DEF LoopOf
  <2>3. \A how : TargetOf(s2, how) = TargetOf(st, how)
    BY <2>1, <2>2 DEF TargetOf, b
  <2>4. TargetOf(s2, "error") = 0
    BY DEF TargetOf
  <2> QED  BY <1>5, <2>3, <2>4 DEF s2
<1>6. CASE f.kind \in Kind \ Once
  <2>1. HighestOf(s2, Kind \ Once) = n /\ HighestOf(s2, Procs) = b
    BY <1>2, <1>3, <1>6
  <2>2. LoopOf(s2) = n
    BY <1>1, <2>1 DEF LoopOf
  <2>3. TargetOf(s2, "break") = Len(st) /\ TargetOf(s2, "continue") = n
        /\ TargetOf(s2, "return") = TargetOf(st, "return") /\ TargetOf(s2, "error") = 0
    BY <1>1, <2>1, <2>2 DEF TargetOf, b
  <2> QED  BY <1>3, <1>6, <2>3 DEF s2
<1>7. CASE f.kind \in Procs
  <2>1. HighestOf(s2, Kind \ Once) = a /\ HighestOf(s2, Procs) = n
    BY <1>2, <1>3, <1>7
  <2>2. LoopOf(s2) = 0
    BY <1>1, <2>1 DEF LoopOf
  <2>3. TargetOf(s2, "break") = 0 /\ TargetOf(s2, "continue") = 0
        /\ TargetOf(s2, "return") = Len(st) /\ TargetOf(s2, "error") = 0
    BY <1>1, <2>1, <2>2 DEF TargetOf
  <2> QED  BY <1>3, <1>7, <2>3 DEF s2
<1> QED  BY <1>5, <1>6, <1>7

\* a step that lands, lands where it should
LandsRight == Lands => Len(stack') = jump.to \/ Top.kind = "parents"

\* the outcomes that are no jump
LEMMA NoJumps == "run" \notin Jumps /\ "next" \notin Jumps /\ "okay" \notin Jumps
  BY DEF Jumps

LEMMA JumpFree ==
    ASSUME irc \notin Jumps, irc' \notin Jumps
    PROVE  JumpInv' /\ LandsRight
  BY DEF JumpInv, LandsRight, Lands

LEMMA CommitGoes ==
    ASSUME NEW d, NEW st \in Seq(Frame), NEW res, Commit(d, st, res), cache' \in CacheType
    PROVE  /\ cache'.dead = d.dead
           /\ d.dead # "alive" => stack' = stack /\ irc' = irc
           /\ d.dead = "alive" =>
                /\ irc' = res /\ stack' \in Seq(Frame) /\ Len(stack') = Len(st)
                /\ \A how : TargetOf(stack', how) = TargetOf(st, how)
<1>1. cache'.dead = d.dead
  <2>1. cache' = [d EXCEPT !.gone = {}]
    BY DEF Commit
  <2>2. DOMAIN cache' = DOMAIN d /\ "dead" \in DOMAIN cache'
    BY <2>1 DEF CacheType
  <2> QED  BY <2>1, <2>2
<1>2. d.dead = "alive" => stack' = Marked(st, d.gone) /\ irc' = res
  BY DEF Commit, Marked
<1>3. d.dead # "alive" => stack' = stack /\ irc' = irc
  BY DEF Commit
<1>4. d.dead = "alive" => /\ stack' \in Seq(Frame) /\ Len(stack') = Len(st)
                          /\ \A how : TargetOf(stack', how) = TargetOf(st, how)
  BY <1>2, MarkedIs, TargetMarked
<1> QED  BY <1>1, <1>2, <1>3, <1>4

(* What the functions return for a body that returned a jump.                *)
LEMMA LeaveShape ==
    ASSUME NEW kind \in Kind, NEW j \in Jumps
    PROVE  /\ kind \notin Once /\ kind # "parents" =>
                Shape[kind].leave[j] = j \/ (j = "break" /\ Shape[kind].leave[j] = "okay")
           /\ kind = "parents" => Shape[kind].leave[j] = "okay"
           /\ kind = "if" => Shape[kind].leave[j] = j
           /\ kind = "call" => Shape[kind].leave[j] = IF j = "return" THEN "okay" ELSE "error"
<1> DEFINE Keeps(sh) == sh.leave[j] = j \/ (j = "break" /\ sh.leave[j] = "okay")
<1>1. Keeps(Plain) /\ Keeps(InterpForNotes) /\ Keeps(InterpForNodes) /\ Keeps(InterpTraverse)
  BY DEF Plain, InterpForNotes, InterpForNodes, InterpTraverse, Jumps
<1>2. /\ Keeps(InterpForIndi) /\ Keeps(InterpForFam) /\ Keeps(InterpForSour)
      /\ Keeps(InterpForEven) /\ Keeps(InterpForOthr) /\ Keeps(InterpIndiSetLoop)
      /\ Keeps(InterpChildren) /\ Keeps(InterpFamilySpouses)
  BY DEF Plain, Over, InterpForIndi, InterpForFam, InterpForSour, InterpForEven, InterpForOthr,
         InterpIndiSetLoop, InterpChildren, InterpFamilySpouses
<1>3. /\ Keeps(InterpSpouses) /\ Keeps(InterpFamilies)
      /\ Keeps(InterpFathers) /\ Keeps(InterpMothers)
  BY DEF Plain, ParentFamilies, InterpSpouses, InterpFamilies, InterpFathers, InterpMothers
<1>4. kind \notin Once /\ kind # "parents" =>
        Shape[kind] \in {Plain, InterpChildren, InterpFamilySpouses, InterpSpouses, InterpFamilies,
                         InterpFathers, InterpMothers, InterpForNotes, InterpForNodes,
                         InterpTraverse, InterpForIndi, InterpForSour, InterpForEven, InterpForOthr,
                         InterpForFam, InterpIndiSetLoop}
  BY DEF Kind, Once, Shape, InterpForList, InterpWhile
<1> HIDE DEF Keeps
<1>5. kind \notin Once /\ kind # "parents" => Keeps(Shape[kind])
  BY <1>1, <1>2, <1>3, <1>4
<1>6. kind = "parents" => Shape[kind].leave[j] = "okay"
  <2>1. InterpParents.leave = [i \in Jumps |-> "okay"]
    BY DEF InterpParents, ParentFamilies, Plain
  <2>2. kind = "parents" => Shape[kind] = InterpParents
    BY DEF Shape
  <2> QED  BY <2>1, <2>2
<1>7. /\ kind = "if" => Shape[kind].leave[j] = j
      /\ kind = "call" => Shape[kind].leave[j] = IF j = "return" THEN "okay" ELSE "error"
  BY DEF Shape, InterpIf, InterpCall, Plain
<1> QED  BY <1>5, <1>6, <1>7 DEF Keeps

LEMMA JumpLeaving ==
    ASSUME JumpInv, Running, Inv', Below \in Seq(Frame), Len(Below) = Depth - 1,
           NEW c, NEW x, Leaving(c, x), NEW y, y = Resume(Top.kind, x),
           y \in Jumps => jump.to = TargetOf(Below, y),
           y \notin Jumps /\ irc \in Jumps => jump.to = Depth - 1 \/ Top.kind = "parents"
    PROVE  JumpInv' /\ LandsRight
<1>1. PICK e : Commit(e, Below, y) /\ jump' = IF irc' = "run" THEN NoJump ELSE jump
  BY DEF Leaving
<1>2. cache' \in CacheType
  BY DEF Inv, TypeOK
<1>3. CASE e.dead = "alive"
  <2>1. /\ irc' = y /\ Len(stack') = Depth - 1
        /\ \A how : TargetOf(stack', how) = TargetOf(Below, how)
    BY <1>1, <1>2, <1>3, CommitGoes
  <2>2. JumpInv'
    BY <1>1, <2>1, NoJumps DEF JumpInv
  <2> QED  BY <2>1, <2>2, NoJumps DEF LandsRight, Lands
<1>4. CASE e.dead # "alive"
  <2>1. stack' = stack /\ irc' = irc
    BY <1>1, <1>2, <1>4, CommitGoes
  <2> QED  BY <1>1, <2>1, NoJumps DEF JumpInv, LandsRight, Lands
<1> QED  BY <1>3, <1>4

LEMMA JumpLeaveLoop ==
    ASSUME Inv, JumpInv, LeaveLoop, Inv'
    PROVE  JumpInv' /\ LandsRight
<1> DEFINE x == Sh.leave[irc]
           y == Resume(Top.kind, x)
<1>1. /\ Running /\ irc \in Jumps /\ irc # "continue" /\ Top.kind \notin Once
      /\ jump.to = TargetOf(stack, irc)
  BY DEF LeaveLoop, JumpInv
<1>2. PICK c : Leaving(c, x)
  BY DEF LeaveLoop
<1>3. /\ Below \in Seq(Frame) /\ Len(Below) = Depth - 1 /\ Top \in Frame /\ Top.kind \in Kind \ Once
      /\ Depth \in Nat
  BY <1>1, TopIs
<1>4. stack = Append(Below, Top)
  BY <1>1, NowIs, Split DEF Running
<1>5. /\ TargetOf(stack, "break") = Depth - 1
      /\ TargetOf(stack, "return") = TargetOf(Below, "return")
      /\ TargetOf(stack, "error") = 0 /\ TargetOf(Below, "error") = 0
  <2>1. TargetOf(Below, "error") = 0
    BY DEF TargetOf
  <2> QED  BY <1>3, <1>4, <2>1, TargetPush
<1>6. /\ Top.kind # "parents" => x = irc \/ (irc = "break" /\ x = "okay")
      /\ Top.kind = "parents" => x = "okay"
  BY <1>1, <1>3, LeaveShape DEF Sh
<1> HIDE DEF x
<1>7. Top.kind # "if"
  BY <1>1 DEF Once
<1>8. CASE Top.kind = "parents"
  <2>1. y = "run"
    BY <1>6, <1>8 DEF Resume
  <2> HIDE DEF y
  <2> QED  BY <1>1, <1>2, <1>3, <1>8, <2>1, NoJumps, JumpLeaving DEF y
<1>9. CASE Top.kind # "parents"
  <2>1. irc \in {"break", "return", "error"}
    BY <1>1 DEF Jumps
  <2>2. irc = "break" => y = "run"
    BY <1>6, <1>7, <1>9 DEF Resume
  <2>3. irc # "break" => y = irc
    BY <1>1, <1>6, <1>9, NoJumps DEF Resume
  <2>4. y \in Jumps => jump.to = TargetOf(Below, y)
    <3> HIDE DEF y
    <3> QED  BY <1>1, <1>5, <2>1, <2>2, <2>3, NoJumps
  <2>5. y \notin Jumps => jump.to = Depth - 1
    <3> HIDE DEF y
    <3> QED  BY <1>1, <1>5, <2>1, <2>2, <2>3
  <2> QED  BY <1>1, <1>2, <1>3, <2>4, <2>5, JumpLeaving
<1> QED  BY <1>8, <1>9

LEMMA JumpLeaveOnce ==
    ASSUME Inv, JumpInv, LeaveOnce, Inv'
    PROVE  JumpInv' /\ LandsRight
<1> DEFINE x == IF irc = "okay" THEN irc ELSE Sh.leave[irc]
           y == Resume(Top.kind, x)
<1>1. /\ Running /\ irc \in Jumps \cup {"okay"} /\ Top.kind \in {"if", "call"}
      /\ Leaving(cache, x) /\ (irc \in Jumps => jump.to = TargetOf(stack, irc))
  BY DEF LeaveOnce, JumpInv, Once
<1>2. /\ Below \in Seq(Frame) /\ Len(Below) = Depth - 1 /\ Top \in Frame /\ Top.kind \in Kind
      /\ Depth \in Nat
  BY <1>1, TopIs
<1>3. stack = Append(Below, Top)
  BY <1>1, NowIs, Split DEF Running
<1>4. /\ Top.kind = "if" => \A how : TargetOf(stack, how) = TargetOf(Below, how)
      /\ Top.kind = "call" =>
           /\ TargetOf(stack, "break") = 0 /\ TargetOf(stack, "continue") = 0
           /\ TargetOf(stack, "error") = 0 /\ TargetOf(Below, "error") = 0
           /\ TargetOf(stack, "return") = Depth - 1
  <2>1. TargetOf(Below, "error") = 0
    BY DEF TargetOf
  <2>2. /\ Top.kind = "if" => Top.kind \notin Kind \ Once /\ Top.kind \notin Procs
        /\ Top.kind = "call" => Top.kind \in Procs
    BY DEF Once, Procs
  <2> HIDE DEF Below, Top
  <2>3. /\ Top.kind \notin Kind \ Once /\ Top.kind \notin Procs =>
             \A how : TargetOf(Append(Below, Top), how) = TargetOf(Below, how)
        /\ Top.kind \in Procs =>
             /\ TargetOf(Append(Below, Top), "break") = 0
             /\ TargetOf(Append(Below, Top), "continue") = 0
             /\ TargetOf(Append(Below, Top), "return") = Len(Below)
        /\ TargetOf(Append(Below, Top), "error") = 0
    BY <1>2, TargetPush
  <2> QED  BY <1>2, <1>3, <2>1, <2>2, <2>3
<1>5. irc \in Jumps =>
        /\ Top.kind = "if" => x = irc
        /\ Top.kind = "call" => x = IF irc = "return" THEN "okay" ELSE "error"
  BY <1>2, LeaveShape, NoJumps DEF Sh
<1>6. irc = "okay" => x = "okay"
  OBVIOUS
<1> HIDE DEF x
<1>7. CASE irc = "okay"
  <2>1. y = "run"
    BY <1>6, <1>7 DEF Resume
  <2> HIDE DEF y
  <2> QED  BY <1>1, <1>2, <1>7, <2>1, NoJumps, JumpLeaving DEF y
<1>8. CASE irc \in Jumps /\ Top.kind = "if"
  <2>1. y = irc
    BY <1>5, <1>8, NoJumps DEF Resume
  <2> HIDE DEF y
  <2> QED  BY <1>1, <1>2, <1>4, <1>8, <2>1, JumpLeaving DEF y
<1>9. CASE irc \in Jumps /\ Top.kind = "call"
  <2>1. y = IF irc = "return" THEN "run" ELSE "error"
    BY <1>5, <1>9 DEF Resume
  <2> HIDE DEF y
  <2>2. irc \in {"break", "continue", "return", "error"}
    BY <1>9 DEF Jumps
  <2>3. y \in Jumps => jump.to = TargetOf(Below, y)
    BY <1>1, <1>4, <1>9, <2>1, <2>2, NoJumps
  <2>4. y \notin Jumps => jump.to = Depth - 1
    BY <1>1, <1>4, <1>9, <2>1, <2>2 DEF Jumps
  <2> QED  BY <1>1, <1>2, <2>3, <2>4, JumpLeaving DEF y
<1> QED  BY <1>1, <1>7, <1>8, <1>9

LEMMA JumpBodyDone ==
    ASSUME Inv, JumpInv, BodyDone, Inv'
    PROVE  JumpInv' /\ LandsRight
<1> DEFINE f == [Top EXCEPT !.inner = {}, !.macro = NoRec]
<1>1. PICK d : /\ Running /\ irc \in {"okay", "continue"} /\ Top.kind \notin Once
               /\ Commit(d, SetTop(f), "next") /\ jump' = NoJump
  BY DEF BodyDone
<1>2. /\ stack \in Seq(Frame) /\ Depth \in Nat /\ Depth > 0 /\ Top \in Frame /\ Top.kind \in Kind \ Once
      /\ Below \in Seq(Frame) /\ Len(Below) = Depth - 1 /\ stack = Append(Below, Top)
  BY <1>1, TopIs, NowIs, Split DEF Running
<1>3. f \in Frame
  BY <1>2, FrameFields DEF Frame
<1> HIDE DEF f
<1>4. SetTop(f) \in Seq(Frame) /\ Len(SetTop(f)) = Depth
  <2>1. SetTop(f) = Append(Below, f)
    BY <1>1, <1>2, <1>3, Split DEF Running
  <2> HIDE DEF Below
  <2> QED  BY <1>2, <1>3, <2>1
<1>5. /\ cache'.dead = d.dead
      /\ d.dead # "alive" => stack' = stack /\ irc' = irc
      /\ d.dead = "alive" => irc' = "next" /\ Len(stack') = Depth
  <2>1. cache' \in CacheType
    BY DEF Inv, TypeOK
  <2> QED  BY <1>1, <1>4, <2>1, CommitGoes
<1>6. irc \in Jumps => jump.to = Depth
  <2>1. TargetOf(stack, "continue") = Depth
    <3> HIDE DEF Below, Top
    <3>1. TargetOf(Append(Below, Top), "continue") = Len(Below) + 1
      BY <1>2, TargetPush
    <3> QED  BY <1>2, <3>1
  <2> QED  BY <1>1, <2>1, NoJumps DEF JumpInv
<1> QED  BY <1>1, <1>5, <1>6, NoJumps DEF JumpInv, LandsRight, Lands, Running

LEMMA JumpFinish ==
    ASSUME Inv, JumpInv, FinishReport, Inv'
    PROVE  JumpInv' /\ LandsRight
<1>0. PICK st : st = << >>
  OBVIOUS
<1>1. PICK d : /\ Running /\ irc \in Jumps \cup {"okay"} /\ Top.kind = "main"
               /\ Commit(d, st, "run")
  BY <1>0 DEF FinishReport
<1>2. /\ Depth = 1 /\ Top \in Frame /\ Top.kind \in Procs
      /\ Below \in Seq(Frame) /\ Len(Below) = 0 /\ stack = Append(Below, Top)
  BY <1>1, TopIs, NowIs, Split, MainIs DEF Running, FrameAt
<1>3. st \in Seq(Frame) /\ Len(st) = 0 /\ cache' \in CacheType
  BY <1>0 DEF Inv, TypeOK
<1>4. /\ cache'.dead = d.dead
      /\ d.dead # "alive" => irc' = irc
      /\ d.dead = "alive" => irc' = "run" /\ Len(stack') = 0
  BY <1>1, <1>3, CommitGoes
<1>5. irc \in Jumps => jump.to = 0
  <2>1. /\ TargetOf(stack, "break") = 0 /\ TargetOf(stack, "continue") = 0
        /\ TargetOf(stack, "return") = 0 /\ TargetOf(stack, "error") = 0
    <3> HIDE DEF Below, Top
    <3>1. /\ TargetOf(Append(Below, Top), "break") = 0 /\ TargetOf(Append(Below, Top), "continue") = 0
          /\ TargetOf(Append(Below, Top), "return") = Len(Below)
          /\ TargetOf(Append(Below, Top), "error") = 0
      BY <1>2, TargetPush
    <3> QED  BY <1>2, <3>1
  <2> QED  BY <1>1, <2>1 DEF JumpInv, Jumps
<1> QED  BY <1>4, <1>5, NoJumps DEF JumpInv, LandsRight, Lands, Running

(* Steps that go on with the statements of a body or look for an item.       *)
LEMMA JumpElsewhere ==
    ASSUME Inv, irc \in {"run", "next"}, Inv',
           NEW d, NEW st, NEW res \in {"run", "next"}, Commit(d, st, res)
    PROVE  JumpInv' /\ LandsRight
<1>1. irc' \in {irc, res}
  BY DEF Commit
<1> QED  BY <1>1, NoJumps, JumpFree

LEMMA JumpBetween ==
    ASSUME Inv, stack = << >>, NEW d, Commit(d, stack, irc), Inv'
    PROVE  JumpInv' /\ LandsRight
<1>1. stack \in Seq(Frame) /\ Len(stack) = 0 /\ cache' \in CacheType
  BY DEF Inv, TypeOK
<1>2. /\ d.dead # "alive" => stack' = stack
      /\ d.dead = "alive" => stack' \in Seq(Frame) /\ Len(stack') = Len(stack)
  BY <1>1, CommitGoes
<1>3. stack' = << >>
  BY <1>1, <1>2, EmptySeq
<1> QED  BY <1>3 DEF JumpInv, LandsRight, Lands, Running

LEMMA JumpStatement ==
    ASSUME Inv, Statement, Inv'
    PROVE  JumpInv' /\ LandsRight
<1>1. irc = "run"
  BY DEF Statement, Enter, Touch, LlrptLock, LlrptUnlock, UseVar, EndOfBody, Jump, At
<1>2. ASSUME NEW kind \in Used, Enter(kind) PROVE JumpInv' /\ LandsRight
  <2>1. \E d, st : \E res \in {"run", "next"} : Commit(d, st, res)
    <3>1. CASE Shape[kind].outer = None /\ ~Shape[kind].tree
      <4>1. (IF kind \in Once THEN "run" ELSE "next") \in {"run", "next"}
        OBVIOUS
      <4> QED  BY <1>2, <3>1, <4>1 DEF Enter
    <3>2. CASE ~(Shape[kind].outer = None /\ ~Shape[kind].tree)
      BY <1>2, <3>2 DEF Enter
    <3> QED  BY <3>1, <3>2
  <2> QED  BY <1>1, <2>1, JumpElsewhere
<1>3. ASSUME NEW k \in stored, Touch(k) \/ LlrptLock(k) \/ LlrptUnlock(k)
      PROVE  JumpInv' /\ LandsRight
  <2>1. \E d, st : Commit(d, st, "run")
    BY <1>3 DEF Touch, LlrptLock, LlrptUnlock
  <2> QED  BY <1>1, <2>1, JumpElsewhere
<1>4. ASSUME NEW r, UseVar(r) PROVE JumpInv' /\ LandsRight
  <2>1. \E d, st : Commit(d, st, "run")
    BY <1>4 DEF UseVar
  <2> QED  BY <1>1, <2>1, JumpElsewhere
<1>5. CASE EndOfBody
  BY <1>1, <1>5, NoJumps, JumpFree DEF EndOfBody
<1>6. ASSUME NEW how \in Jumps, Jump(how) PROVE JumpInv' /\ LandsRight
  <2>1. irc' = how /\ stack' = stack /\ jump'.to = TargetOf(stack, how)
    BY <1>6, TargetIs DEF Jump
  <2> QED  BY <1>1, <2>1, NoJumps DEF JumpInv, LandsRight, Lands
<1> QED  BY <1>2, <1>3, <1>4, <1>5, <1>6 DEF Statement

LEMMA JumpNext ==
    ASSUME Inv, JumpInv, Next, Inv'
    PROVE  JumpInv' /\ LandsRight
<1>1. CASE Start
  <2>1. PICK st : st = <<NewFrame("main", NoEl)>>
    OBVIOUS
  <2>2. stack = << >> /\ Commit(cache, st, "run") /\ cache.dead = "alive"
    BY <1>1, <2>1 DEF Start, Idle
  <2>3. irc' = "run"
    BY <2>2 DEF Commit
  <2> QED  BY <2>2, <2>3, NoJumps DEF JumpInv, LandsRight, Lands, Running
<1>2. CASE Statement
  BY <1>2, JumpStatement
<1>3. CASE NextItem
  <2>1. irc = "next" /\ \E d, st : Commit(d, st, "run")
    BY <1>3 DEF NextItem, At
  <2> QED  BY <2>1, JumpElsewhere
<1>4. CASE PassOver
  <2>1. irc = "next" /\ \E d, st : Commit(d, st, "next")
    BY <1>4 DEF PassOver, At
  <2> QED  BY <2>1, JumpElsewhere
<1>5. CASE LoopEnd
  <2>1. irc = "next" /\ \E c : Leaving(c, "okay")
    BY <1>5 DEF LoopEnd, At
  <2>2. \E d, st : Commit(d, st, "run")
    BY <2>1 DEF Leaving, Resume
  <2> QED  BY <2>1, <2>2, JumpElsewhere
<1>6. CASE BodyDone
  BY <1>6, JumpBodyDone
<1>7. CASE LeaveLoop
  BY <1>7, JumpLeaveLoop
<1>8. CASE LeaveOnce
  BY <1>8, JumpLeaveOnce
<1>9. CASE FinishReport
  BY <1>9, JumpFinish
<1>10. ASSUME NEW k \in Edited, AddRecord(k) \/ DeleteRecord(k) PROVE JumpInv' /\ LandsRight
  <2>1. stack = << >> /\ \E d : Commit(d, stack, irc)
    BY <1>10 DEF AddRecord, DeleteRecord, Idle
  <2> QED  BY <2>1, JumpBetween
<1>11. CASE Restart
  BY <1>11, NoJumps DEF Restart, JumpInv, LandsRight, Lands, Running
<1> QED  BY <1>1, <1>2, <1>3, <1>4, <1>5, <1>6, <1>7, <1>8, <1>9, <1>10, <1>11 DEF Next

(* break, continue, return and errors end at the loop or the procedure that  *)
(* they should leave, through any nesting; only parents swallows them.       *)
THEOREM JumpsReach == Spec => JumpReaches
<1>1. Init => JumpInv
  BY NoJumps DEF Init, JumpInv
<1>2. Inv /\ Inv' /\ JumpInv /\ [Next]_vars =>
        JumpInv' /\ [Lands => Len(stack') = jump.to \/ Top.kind = "parents"]_vars
  <2>1. CASE UNCHANGED vars
    BY <2>1 DEF vars, JumpInv, Running
  <2>2. ASSUME Inv, JumpInv, Next, Inv'
        PROVE  JumpInv' /\ (Lands => Len(stack') = jump.to \/ Top.kind = "parents")
    BY <2>2, JumpNext DEF LandsRight
  <2> QED  BY <2>1, <2>2
<1> QED  BY <1>1, <1>2, Invariance, PTL DEF Spec, JumpReaches

-----------------------------------------------------------------------------
(***************************************************************************)
(* How the program can die.  While it runs, the caches and the loop        *)
(* variables only have records that the database has.                      *)
(***************************************************************************)
Known(c, S) == \A k \in Key : c.table[k] # NoEl => k \in S
VarsKnown(st, S) ==
    \A i \in 1..Len(st), x \in Roles : st[i].vars[x] # NoRec => KeyOf(st[i].vars[x]) \in S

DiesInv ==
    /\ DiesOnlyOf
    /\ Alive => Known(cache, stored) /\ VarsKnown(stack, stored)

\* caches c may be what a step leaves
Rightly(c) ==
    /\ c.dead \in {"alive", "full", "locked", "unlocked", "dangling", "memory"}
    /\ stack = << >> => \/ c.dead \in {"alive", "memory"}
                        \/ c.dead \in {"full", "locked"} /\ \E e \in El : Cache[e] = "EVEN" /\ c.lock[e] > 0
    /\ c.dead = "locked" => stack = << >>
    /\ c.dead = "dangling" => TreeWalk \/ Tight(c, "INDI")

LEMMA TightIs ==
    ASSUME NEW c, Tight(c, "INDI"), NEW S, S = {e \in El : Cache[e] = "INDI" /\ ~(c.lock[e] > 0)}
    PROVE  Cardinality(S) < 2
<1>1. PICK x \in El : \A e \in El : Cache[e] = "INDI" /\ e # x => c.lock[e] > 0
  BY DEF Tight
<1>2. S \in SUBSET {x}
  BY <1>1
<1>3. IsFiniteSet({x}) /\ Cardinality({x}) = 1
  BY FS_Singleton
<1>4. Cardinality(S) <= Cardinality({x}) /\ IsFiniteSet(S)
  BY <1>2, <1>3, FS_Subset
<1>5. Cardinality(S) \in Nat
  BY <1>4, FS_CardinalityType
<1> QED  BY <1>3, <1>4, <1>5

LEMMA DiesNext ==
    ASSUME cache'.dead = "alive" => Known(cache', stored') /\ VarsKnown(stack', stored'),
           cache'.dead # "alive" => stack' = stack,
           cache'.dead # "memory", Rightly(cache')
    PROVE  DiesInv'
<1>1. CASE cache'.dead = "alive"
  BY <1>1 DEF DiesInv, DiesOnlyOf, Alive
<1>2. CASE cache'.dead # "alive"
  <2>1. stack' = stack /\ cache'.dead \in {"full", "locked", "unlocked", "dangling"}
    BY <1>2 DEF Rightly
  <2>2. stack' = << >> => cache'.dead \in {"full", "locked"} /\ LockedOf("EVEN")' # {}
    <3>1. ASSUME stack' = << >> PROVE cache'.dead \in {"full", "locked"} /\ LockedOf("EVEN")' # {}
      <4>1. cache'.dead \in {"full", "locked"} /\ \E e \in El : Cache[e] = "EVEN" /\ cache'.lock[e] > 0
        BY <1>2, <2>1, <3>1 DEF Rightly
      <4> QED  BY <4>1 DEF LockedOf
    <3> QED  BY <3>1
  <2>3. cache'.dead = "dangling" =>
          TreeWalk' \/ Cardinality({e \in El : Cache[e] = "INDI"} \ LockedOf("INDI")') < 2
    <3>1. ASSUME TreeWalk PROVE TreeWalk'
      BY <2>1, <3>1 DEF TreeWalk, Depth
    <3>2. ASSUME Tight(cache', "INDI")
          PROVE  Cardinality({e \in El : Cache[e] = "INDI"} \ LockedOf("INDI")') < 2
      <4> DEFINE S == {e \in El : Cache[e] = "INDI"} \ LockedOf("INDI")'
      <4>1. S = {e \in El : Cache[e] = "INDI" /\ ~(cache'.lock[e] > 0)}
        BY DEF LockedOf
      <4> HIDE DEF S
      <4>2. Cardinality(S) < 2
        BY <3>2, <4>1, TightIs
      <4> QED  BY <4>2 DEF S
    <3> QED  BY <3>1, <3>2 DEF Rightly
  <2>4. cache'.dead = "locked" => stack' = << >>
    BY <2>1 DEF Rightly
  <2>5. DiesOnlyOf'
    BY <2>1, <2>2, <2>3, <2>4 DEF DiesOnlyOf
  <2> QED  BY <1>2, <2>5 DEF DiesInv, Alive
<1> QED  BY <1>1, <1>2

LEMMA VarsMarked ==
    ASSUME NEW st \in Seq(Frame), NEW S, VarsKnown(st, S), NEW gone
    PROVE  VarsKnown(Marked(st, gone), S)
  BY MarkedIs DEF VarsKnown

LEMMA CommitKeeps ==
    ASSUME NEW d, NEW st, NEW res, Commit(d, st, res), cache' \in CacheType
    PROVE  cache'.dead = d.dead /\ cache'.table = d.table /\ cache'.lock = d.lock
<1>1. cache' = [d EXCEPT !.gone = {}]
  BY DEF Commit
<1>2. DOMAIN cache' = DOMAIN d /\ {"dead", "table", "lock"} \subseteq DOMAIN cache'
  BY <1>1 DEF CacheType
<1> QED  BY <1>1, <1>2

LEMMA CommitDies ==
    ASSUME Inv', NEW d, NEW st, NEW res, Commit(d, st, res), Rightly(d),
           d.dead = "alive" => st \in Seq(Frame) /\ Known(d, stored') /\ VarsKnown(st, stored')
    PROVE  DiesInv'
<1>1. cache' \in CacheType
  BY DEF Inv, TypeOK
<1>2. cache'.dead = d.dead /\ cache'.table = d.table /\ cache'.lock = d.lock
  BY <1>1, CommitKeeps
<1>3. /\ d.dead # "memory" /\ (d.dead # "alive" => stack' = stack)
      /\ d.dead = "alive" => stack' = Marked(st, d.gone)
  BY DEF Commit, Marked
<1>4. d.dead = "alive" => VarsKnown(stack', stored')
  BY <1>3, VarsMarked
<1>5. Rightly(cache')
  BY <1>2 DEF Rightly, Tight
<1>6. cache'.dead = "alive" => Known(cache', stored') /\ VarsKnown(stack', stored')
  BY <1>2, <1>4 DEF Known
<1> QED  BY <1>2, <1>3, <1>5, <1>6, DiesNext

LEMMA KnownGains ==
    ASSUME NEW c, NEW S, Known(c, S), NEW d, NEW k \in S, Gains(c, d, k)
    PROVE  Known(d, S)
  BY DEF Known, Gains

LEMMA VarsPush ==
    ASSUME NEW st \in Seq(Frame), NEW S, VarsKnown(st, S), NEW f \in Frame,
           \A x \in Roles : f.vars[x] # NoRec => KeyOf(f.vars[x]) \in S
    PROVE  VarsKnown(Append(st, f), S)
  BY DEF VarsKnown

LEMMA DiesNow ==
    ASSUME Inv, DiesInv, cache.dead = "alive"
    PROVE  /\ Known(cache, stored) /\ VarsKnown(stack, stored) /\ stack \in Seq(Frame)
           /\ Consistent(cache) /\ Counted(cache, OutOf(stack, loose, leaked)) /\ stored \subseteq Key
  BY NowIs DEF DiesInv, Alive

(* What reading a record of the database leaves.                             *)
LEMMA ReadDies ==
    ASSUME Inv, DiesInv, cache.dead = "alive", NEW k \in stored, NEW d, d = KeyToCacheel(cache, k)
    PROVE  /\ d.dead \in {"alive", "full", "memory"} /\ Known(d, stored) /\ Consistent(d)
           /\ d.dead = "alive" => d.table[k] \in El
           /\ d.dead = "full" => AllLocked(cache, TypeOf[k])
           /\ SameLocks(cache, d)
<1>1. /\ Known(cache, stored) /\ Consistent(cache) /\ Counted(cache, OutOf(stack, loose, leaked))
      /\ k \in Key
  BY DiesNow
<1>2. Reads(cache, d, k)
  BY <1>1, KeyToCacheelIs
<1>3. /\ d.dead \in {"alive", "full", "memory"} /\ (d.dead = "full" => AllLocked(cache, TypeOf[k]))
      /\ Gains(cache, d, k)
  BY <1>1, KeyToCacheelDies
<1> QED  BY <1>1, <1>2, <1>3, KnownGains DEF Reads

LEMMA ReportRightly ==
    ASSUME stack # << >>, NEW d, d.dead \in {"alive", "full", "memory", "unlocked"}
    PROVE  Rightly(d)
  BY DEF Rightly

LEMMA TouchDies ==
    ASSUME Inv, DiesInv, NEW k \in stored, Touch(k), Inv'
    PROVE  DiesInv'
<1> DEFINE d == KeyToCacheel(cache, k)
<1>1. /\ stack # << >> /\ cache.dead = "alive" /\ Commit(d, stack, "run") /\ stored' = stored
  BY DEF Touch, At, Running
<1>2. d.dead \in {"alive", "full", "memory"} /\ Known(d, stored)
  BY <1>1, ReadDies
<1> HIDE DEF d
<1> QED  BY <1>1, <1>2, DiesNow, ReportRightly, CommitDies

LEMMA UseVarDies ==
    ASSUME Inv, DiesInv, NEW i \in 1..Depth, NEW x \in Roles, stack[i].vars[x] # NoRec,
           UseVar(stack[i].vars[x]), Inv'
    PROVE  DiesInv'
<1> DEFINE r == stack[i].vars[x]
           d == Nztop(cache, r, stored)
<1>1. /\ stack # << >> /\ cache.dead = "alive" /\ Commit(d, stack, "run") /\ stored' = stored
  BY DEF UseVar, At, Running
<1>2. r \in Rec /\ KeyOf(r) \in stored
  BY <1>1, NowIs, DiesNow, Frames, FrameFields DEF Depth, VarsKnown
<1> HIDE DEF r
<1>3. d.dead \in {"alive", "full", "memory"} /\ Gains(cache, d, KeyOf(r))
  BY <1>1, <1>2, DiesNow, NztopDies
<1> HIDE DEF d
<1>4. Known(d, stored)
  BY <1>1, <1>2, <1>3, DiesNow, KnownGains
<1> QED  BY <1>1, <1>3, <1>4, DiesNow, ReportRightly, CommitDies

LEMMA LlrptLockDies ==
    ASSUME Inv, DiesInv, NEW k \in stored, LlrptLock(k), Inv'
    PROVE  DiesInv'
<1> DEFINE c == KeyToCacheel(cache, k)
           d == IF c.dead # "alive" THEN c ELSE LockRpt(c, c.table[k])
<1>1. /\ stack # << >> /\ cache.dead = "alive" /\ Commit(d, stack, "run") /\ stored' = stored
  BY DEF LlrptLock, At, Running
<1>2. c.dead \in {"alive", "full", "memory"} /\ Known(c, stored) /\ c \in CacheType
  BY <1>1, ReadDies DEF Consistent
<1> HIDE DEF c
<1>3. d.dead = c.dead /\ d.table = c.table
  BY <1>2 DEF LockRpt, CacheType
<1> HIDE DEF d
<1>4. Known(d, stored)
  BY <1>2, <1>3 DEF Known
<1> QED  BY <1>1, <1>2, <1>3, <1>4, DiesNow, ReportRightly, CommitDies

LEMMA LlrptUnlockDies ==
    ASSUME Inv, DiesInv, NEW k \in stored, LlrptUnlock(k), Inv'
    PROVE  DiesInv'
<1> DEFINE c == KeyToCacheel(cache, k)
           d == IF c.dead # "alive" THEN c ELSE UnlockRpt(c, c.table[k])
<1>1. /\ stack # << >> /\ cache.dead = "alive" /\ Commit(d, stack, "run") /\ stored' = stored
  BY DEF LlrptUnlock, At, Running
<1>2. c.dead \in {"alive", "full", "memory"} /\ Known(c, stored) /\ c \in CacheType
  BY <1>1, ReadDies DEF Consistent
<1> HIDE DEF c
<1>3. d.dead \in {c.dead, "unlocked"} /\ d.table = c.table
  BY <1>2 DEF UnlockRpt, Die, CacheType
<1> HIDE DEF d
<1>4. Known(d, stored)
  BY <1>2, <1>3 DEF Known
<1> QED  BY <1>1, <1>2, <1>3, <1>4, DiesNow, ReportRightly, CommitDies

LEMMA StartDies ==
    ASSUME Inv, DiesInv, Start, Inv'
    PROVE  DiesInv'
<1> DEFINE f == NewFrame("main", NoEl)
           st == <<f>>
<1>1. /\ stack = << >> /\ cache.dead = "alive" /\ Commit(cache, st, "run") /\ stored' = stored
  BY DEF Start, Idle
<1>2. f \in Frame /\ f.vars = NoVars
  BY MainIs, NewFrameIs
<1> HIDE DEF f
<1>3. st \in Seq(Frame) /\ VarsKnown(st, stored)
  BY <1>2 DEF VarsKnown, NoVars
<1>4. Rightly(cache)
  BY <1>1 DEF Rightly
<1> HIDE DEF st
<1> QED  BY <1>1, <1>3, <1>4, DiesNow, CommitDies

LEMMA EnterDies ==
    ASSUME Inv, DiesInv, NEW kind \in Used, Enter(kind), Inv'
    PROVE  DiesInv'
<1>1. stack # << >> /\ cache.dead = "alive" /\ stored' = stored /\ kind \in Kind
  BY ReportAssumption DEF Enter, At, Running
<1>2. PICK c, e, d, res :
        /\ Commit(d, Append(stack, NewFrame(kind, e)), res)
        /\ d = c \/ d = LockCache(c, e)
        /\ \/ c = cache /\ e = NoEl
           \/ \E k \in stored : c = KeyToCacheel(cache, k) /\ e = c.table[k]
  BY DEF Enter
<1>3. /\ c.dead \in {"alive", "full", "memory"} /\ Known(c, stored) /\ c \in CacheType
      /\ c.dead = "alive" => e \in El \cup {NoEl}
  BY <1>1, <1>2, ReadDies, DiesNow DEF Consistent
<1>4. d.dead = c.dead /\ d.table = c.table
  BY <1>2, <1>3 DEF LockCache, CacheType
<1>5. Known(d, stored)
  BY <1>3, <1>4 DEF Known
<1> DEFINE f == NewFrame(kind, e)
<1>6. ASSUME d.dead = "alive" PROVE Append(stack, f) \in Seq(Frame) /\ VarsKnown(Append(stack, f), stored)
  <2>1. f \in Frame /\ f.vars = NoVars
    BY <1>1, <1>3, <1>4, <1>6, NewFrameIs
  <2> HIDE DEF f
  <2>2. stack \in Seq(Frame) /\ VarsKnown(stack, stored)
    BY <1>1, DiesNow
  <2> QED  BY <2>1, <2>2, VarsPush DEF NoVars
<1> HIDE DEF f
<1>7. Rightly(d)
  BY <1>1, <1>3, <1>4, ReportRightly
<1> QED  BY <1>1, <1>2, <1>5, <1>6, <1>7, CommitDies DEF f

LEMMA VarsBelow ==
    ASSUME Inv, DiesInv, Running
    PROVE  /\ Below \in Seq(Frame) /\ VarsKnown(Below, stored)
           /\ \A f \in Frame : (\A x \in Roles : f.vars[x] # NoRec => KeyOf(f.vars[x]) \in stored) =>
                SetTop(f) \in Seq(Frame) /\ VarsKnown(SetTop(f), stored)
<1>1. VarsKnown(stack, stored) /\ stack \in Seq(Frame) /\ stack # << >>
  BY DiesNow DEF Running
<1>2. /\ Depth \in Nat /\ Below \in Seq(Frame) /\ Len(Below) = Depth - 1
      /\ \A i \in 1..Depth - 1 : Below[i] = stack[i]
      /\ \A f \in Frame : SetTop(f) = Append(Below, f)
  BY <1>1, Split
<1>3. VarsKnown(Below, stored)
  <2>1. ASSUME NEW i \in 1..Len(Below) PROVE i \in 1..Len(stack) /\ Below[i] = stack[i]
    BY <1>2, <2>1 DEF Depth
  <2> QED  BY <1>1, <2>1 DEF VarsKnown
<1> HIDE DEF Below
<1>4. ASSUME NEW f \in Frame, \A x \in Roles : f.vars[x] # NoRec => KeyOf(f.vars[x]) \in stored
      PROVE  SetTop(f) \in Seq(Frame) /\ VarsKnown(SetTop(f), stored)
  <2>1. VarsKnown(Append(Below, f), stored) /\ Below \in Seq(Frame)
    BY <1>2, <1>3, <1>4, VarsPush
  <2>2. SetTop(f) = Append(Below, f)
    BY <1>2
  <2> QED  BY <2>1, <2>2
<1> QED  BY <1>2, <1>3, <1>4

\* some loop walks a tree that was freed
LEMMA TopWalks ==
    ASSUME Inv, Running, Sh.tree, ~Top.alive
    PROVE  TreeWalk
<1>1. Depth \in 1..Depth
  BY TopIs
<1> QED  BY <1>1 DEF TreeWalk, Top, Sh

LEMMA LeavingDies ==
    ASSUME Inv, DiesInv, Running, NEW c, NEW x, Leaving(c, x), Inv', stored' = stored,
           NEW walk \in BOOLEAN, Leaves(walk), walk => TreeWalk
    PROVE  DiesInv'
<1>1. PICK e : Commit(e, Below, Resume(Top.kind, x))
  BY DEF Leaving
<1>2. cache' \in CacheType
  BY DEF Inv, TypeOK
<1>3. cache'.dead = e.dead
  BY <1>1, <1>2, CommitKeeps
<1>4. /\ cache'.dead # "alive" => stack' = stack
      /\ cache'.dead = "alive" => stack' = Marked(Below, e.gone)
  BY <1>1, <1>3 DEF Commit, Marked
<1>5. cache'.dead = "alive" => Known(cache', stored') /\ VarsKnown(stack', stored')
  BY <1>4, VarsBelow, VarsMarked, DiesNow DEF Leaves, Known, Running
<1>6. Rightly(cache')
  BY DEF Leaves, Rightly, Running
<1> QED  BY <1>4, <1>5, <1>6, DiesNext DEF Leaves

LEMMA LoopEndDies ==
    ASSUME Inv, DiesInv, LoopEnd
    PROVE  DiesInv'
<1>1. Running /\ stored' = stored /\ \E c : Leaving(c, "okay")
  BY DEF LoopEnd, At
<1>2. Inv' /\ Leaves(WalkTree)
  BY LoopEndStep
<1>3. WalkTree => TreeWalk
  BY <1>1, TopWalks DEF WalkTree
<1>4. PICK walk \in BOOLEAN : walk <=> WalkTree
  OBVIOUS
<1>5. Leaves(walk)
  BY <1>2, <1>4 DEF Leaves
<1> QED  BY <1>1, <1>2, <1>3, <1>4, <1>5, LeavingDies

LEMMA LeaveOnceDies ==
    ASSUME Inv, DiesInv, LeaveOnce
    PROVE  DiesInv'
<1>1. Running /\ stored' = stored /\ \E c, x : Leaving(c, x)
  BY DEF LeaveOnce
<1>2. Inv' /\ Leaves(FALSE)
  BY LeaveOnceStep
<1> QED  BY <1>1, <1>2, LeavingDies

LEMMA LeaveLoopDies ==
    ASSUME Inv, DiesInv, LeaveLoop
    PROVE  DiesInv'
<1>1. Running /\ stored' = stored /\ \E c, x : Leaving(c, x)
  BY DEF LeaveLoop
<1>2. Inv' /\ Leaves(Sh.node /\ ~Top.alive)
  BY LeaveLoopStep
<1>3. Sh.node /\ ~Top.alive => TreeWalk
  BY <1>1, TopIs, TopWalks DEF Sound
<1>4. PICK walk \in BOOLEAN : walk <=> Sh.node /\ ~Top.alive
  OBVIOUS
<1>5. Leaves(walk)
  BY <1>2, <1>4 DEF Leaves
<1> QED  BY <1>1, <1>2, <1>3, <1>4, <1>5, LeavingDies

(* Caches of which some function changes neither table nor state.            *)
Stays(c, d) ==
    /\ {"dead", "table"} \subseteq DOMAIN d
    /\ d.table = c.table /\ d.dead = c.dead

LEMMA ReleaseStays ==
    ASSUME NEW c, {"dead", "table"} \subseteq DOMAIN c, NEW r
    PROVE  Stays(c, ReleaseIf(c, r)) /\ Stays(c, Release(c, r))
<1>1. Stays(c, Release(c, r))
  BY DEF Release, FreeRec, Stays
<1> QED  BY <1>1 DEF ReleaseIf, Stays

LEMMA ReleaseVarsStays ==
    ASSUME NEW c, {"dead", "table"} \subseteq DOMAIN c, NEW v
    PROVE  Stays(c, ReleaseVars(c, v))
<1> DEFINE c1 == ReleaseIf(c, v.fam)
           c2 == ReleaseIf(c1, v.indi)
           c3 == ReleaseIf(c2, v.wife)
           d == ReleaseIf(c3, v.other)
<1>1. Stays(c, c1)
  BY ReleaseStays
<1> HIDE DEF c1
<1>2. Stays(c1, c2)
  BY <1>1, ReleaseStays DEF Stays
<1> HIDE DEF c2
<1>3. Stays(c2, c3)
  BY <1>2, ReleaseStays DEF Stays
<1> HIDE DEF c3
<1>4. Stays(c3, d)
  BY <1>3, ReleaseStays DEF Stays
<1> HIDE DEF d
<1>5. Stays(c, d)
  BY <1>1, <1>2, <1>3, <1>4 DEF Stays
<1> QED  BY <1>5 DEF d, c3, c2, c1, ReleaseVars

LEMMA BodyDoneDies ==
    ASSUME Inv, DiesInv, BodyDone, Inv'
    PROVE  DiesInv'
<1> DEFINE c == UnlockAll(cache, Top.inner)
           d == ReleaseIf(c, Top.macro)
           f == [Top EXCEPT !.inner = {}, !.macro = NoRec]
<1>1. /\ Running /\ stack # << >> /\ cache.dead = "alive" /\ Commit(d, SetTop(f), "next")
      /\ stored' = stored
  BY DEF BodyDone, Running
<1>2. Consistent(c) /\ SameLists(cache, c) /\ c.dead = cache.dead
  BY <1>1, InnerUnlocked
<1> HIDE DEF c
<1>3. {"dead", "table"} \subseteq DOMAIN c
  BY <1>2 DEF Consistent, CacheType
<1>4. d.dead = "alive" /\ d.table = cache.table
  BY <1>1, <1>2, <1>3, ReleaseStays DEF Stays, SameLists
<1> HIDE DEF d
<1>5. Top \in Frame /\ f \in Frame /\ f.vars = Top.vars
  BY <1>1, TopIs DEF Frame
<1>6. \A x \in Roles : f.vars[x] # NoRec => KeyOf(f.vars[x]) \in stored
  <2>1. Depth \in 1..Len(stack)
    BY <1>1, TopIs DEF Depth
  <2> QED  BY <1>1, <1>5, <2>1, DiesNow DEF VarsKnown, Top
<1> HIDE DEF f
<1>7. SetTop(f) \in Seq(Frame) /\ VarsKnown(SetTop(f), stored)
  BY <1>1, <1>5, <1>6, VarsBelow
<1>8. Known(d, stored)
  BY <1>1, <1>4, DiesNow DEF Known
<1>9. Rightly(d)
  BY <1>1, <1>4, ReportRightly
<1> QED  BY <1>1, <1>7, <1>8, <1>9, CommitDies

LEMMA FinishDies ==
    ASSUME Inv, DiesInv, FinishReport, Inv'
    PROVE  DiesInv'
<1> DEFINE c == ReleaseLoose(cache)
           d == FreeAllRptLocks(c)
<1>0. PICK st : st = << >>
  OBVIOUS
<1>1. stack # << >> /\ cache.dead = "alive" /\ Commit(d, st, "run") /\ stored' = stored
  BY <1>0 DEF FinishReport, Running
<1>2. {"dead", "table"} \subseteq DOMAIN cache
  BY <1>1, DiesNow DEF Consistent, CacheType
<1>3. Stays(cache, c)
  BY <1>2 DEF ReleaseLoose, Stays
<1> HIDE DEF c
<1>4. Stays(c, d)
  BY <1>3 DEF FreeAllRptLocks, FreeRptLocksIn, Stays
<1> HIDE DEF d
<1>5. d.dead = "alive" /\ d.table = cache.table
  BY <1>1, <1>3, <1>4 DEF Stays
<1>6. Known(d, stored)
  BY <1>1, <1>5, DiesNow DEF Known
<1>7. st \in Seq(Frame) /\ VarsKnown(st, stored)
  BY <1>0 DEF VarsKnown
<1>8. Rightly(d)
  BY <1>1, <1>5, ReportRightly
<1> QED  BY <1>1, <1>6, <1>7, <1>8, CommitDies

-----------------------------------------------------------------------------
(* Reading the records of an item.                                           *)

\* caches in the middle of an item
Ready(c, S) ==
    /\ Consistent(c) /\ c.dead \in {"alive", "full", "memory"}
    /\ c.dead = "alive" => Known(c, S) /\ \E out : Counted(c, out)

\* what reading record k of the database, if k is one, makes of the caches c
Loaded(c, k, d, S) ==
    /\ Steps(c, d) /\ Ready(d, S)
    /\ k = NoKey => d = c
    /\ d.dead = "alive" /\ k # NoKey =>
         d.table[k] \in El /\ Newest(d, k) /\ OnlyOf(c, d, TypeOf[k])

LEMMA LoadDies ==
    ASSUME NEW c, NEW S \in SUBSET Key, Ready(c, S),
           NEW k \in S \cup {NoKey}, NEW ref \in BOOLEAN, NEW d, d = Load(c, k, ref)
    PROVE  Loaded(c, k, d, S)
<1>1. CASE k = NoKey \/ c.dead # "alive"
  <2>1. d = c
    BY <1>1 DEF Load
  <2>2. Steps(c, d)
    BY <2>1, StepsRefl DEF Ready
  <2> QED  BY <1>1, <2>1, <2>2 DEF Loaded
<1>2. CASE k # NoKey /\ c.dead = "alive"
  <2> DEFINE b == KeyToCacheel(c, k)
  <2>1. PICK out : Counted(c, out)
    BY <1>2 DEF Ready
  <2>2. k \in S /\ k \in Key /\ Consistent(c) /\ Known(c, S)
    BY <1>2 DEF Ready
  <2>3. d = IF ref THEN KeyToRecord(c, k) ELSE b
    BY <1>2 DEF Load
  <2>4. d = b \/ (b.dead = "alive" /\ d = AddRef(b, RecordOf(b, k)))
    BY <2>3 DEF KeyToRecord
  <2>5. /\ b.dead \in {"alive", "full", "memory"} /\ Gains(c, b, k) /\ b \in CacheType
        /\ b.dead = "alive" => Newest(b, k)
    BY <1>2, <2>1, <2>2, KeyToCacheelDies, KeyToCacheelIs, KeyToCacheelNewest DEF Reads, Consistent
  <2>6. Known(b, S)
    BY <1>2, <2>2, <2>5, KnownGains
  <2> HIDE DEF b
  <2>7. d.dead = b.dead /\ d.table = b.table /\ d.direct = b.direct
    BY <2>4, <2>5 DEF AddRef, CacheType
  <2>8. Known(d, S) /\ (d.dead = "alive" => Newest(d, k))
    BY <2>5, <2>6, <2>7 DEF Known, Newest
  <2>9. /\ Steps(c, d)
        /\ d.dead = "alive" => d.table[k] \in El /\ OnlyOf(c, d, TypeOf[k])
        /\ d.dead = "alive" => Counted(d, IF ref /\ k # NoKey THEN More(out, RecordOf(d, k)) ELSE out)
    BY <1>2, <2>1, <2>2, LoadIs
  <2>10. d.dead = "alive" => \E o : Counted(d, o)
    BY <2>9
  <2>11. Ready(d, S)
    BY <2>5, <2>7, <2>8, <2>9, <2>10 DEF Ready, Steps
  <2> QED  BY <1>2, <2>8, <2>9, <2>11 DEF Loaded
<1> QED  BY <1>1, <1>2

LEMMA LoadStays ==
    ASSUME NEW c, Consistent(c), NEW k, NEW d, NEW S, Loaded(c, k, d, S), d.dead = "alive",
           NEW q \in Key, c.table[q] \in El, k = NoKey \/ TypeOf[q] # TypeOf[k]
    PROVE  d.table[q] \in El
<1>1. CASE k = NoKey
  BY <1>1 DEF Loaded
<1>2. CASE k # NoKey
  <2>1. OnlyOf(c, d, TypeOf[k]) /\ TypeOf[q] # TypeOf[k]
    BY <1>2 DEF Loaded
  <2>2. d.table[q] = c.table[q]
    BY <2>1 DEF OnlyOf
  <2> QED  BY <2>2
<1> QED  BY <1>1, <1>2

LEMMA TightSame ==
    ASSUME NEW c, NEW d, SameLocks(c, d), NEW t, Tight(d, t)
    PROVE  Tight(c, t)
  BY DEF SameLocks, Tight

(* Of the records of an item only the first of two persons may have left its *)
(* cache when all are read, and only if the other one took the last element  *)
(* that nobody has locked.                                                   *)
LEMMA ReadItemDies ==
    ASSUME NEW c, Consistent(c), NEW out, Counted(c, out), c.dead = "alive", NEW S \in SUBSET Key,
           Known(c, S), NEW sh, Sound(sh), NEW it, ItemOf(it, sh),
           \A role \in Roles : it[role] \in S \cup {NoKey}, NEW d, d = ReadItem(c, it, sh)
    PROVE  /\ d.dead \in {"alive", "full", "memory"}
           /\ d.dead = "alive" => Known(d, S) /\ (Lacks(d, it) => Tight(c, "INDI"))
<1>a. PICK fam \in BOOLEAN : fam <=> sh.macro = "fam"
  OBVIOUS
<1>b. PICK indi \in BOOLEAN : indi <=> sh.macro = "indi"
  OBVIOUS
<1>c. PICK no \in BOOLEAN : ~no
  OBVIOUS
<1> DEFINE c1 == Load(c, it.fam, fam)
           c2 == Load(c1, it.indi, indi)
           c3 == Load(c2, it.wife, no)
<1>0. d = Load(c3, it.other, no)
  <2>1. Load(c, it.fam, sh.macro = "fam") = c1
    BY <1>a DEF Load
  <2>2. Load(c1, it.indi, sh.macro = "indi") = c2
    BY <1>b DEF Load
  <2>3. Load(c2, it.wife, FALSE) = c3
    BY <1>c DEF Load
  <2>4. Load(c3, it.other, FALSE) = Load(c3, it.other, no)
    BY <1>c DEF Load
  <2> HIDE DEF c1, c2, c3
  <2>5. d = Load(Load(Load(Load(c, it.fam, sh.macro = "fam"), it.indi, sh.macro = "indi"),
                      it.wife, FALSE), it.other, FALSE)
    BY DEF ReadItem
  <2> QED  BY <2>1, <2>2, <2>3, <2>4, <2>5
<1>1. /\ it.fam \in S \cup {NoKey} /\ it.indi \in S \cup {NoKey}
      /\ it.wife \in S \cup {NoKey} /\ it.other \in S \cup {NoKey}
  BY DEF Roles
<1>2. /\ it.fam # NoKey => TypeOf[it.fam] = "FAM"
      /\ it.indi # NoKey => TypeOf[it.indi] = "INDI"
      /\ it.wife # NoKey => TypeOf[it.wife] = "INDI"
      /\ it.other # NoKey => TypeOf[it.other] \notin {"INDI", "FAM"}
  BY DEF ItemOf, Roles, RoleType, Sound
<1>3. Loaded(c, it.fam, c1, S)
  <2>1. Ready(c, S)
    BY DEF Ready
  <2> QED  BY <1>1, <2>1, LoadDies
<1> HIDE DEF c1
<1>4. Loaded(c1, it.indi, c2, S)
  <2>1. Ready(c1, S)
    BY <1>3 DEF Loaded
  <2>2. c2 = Load(c1, it.indi, indi)
    OBVIOUS
  <2> HIDE DEF c2
  <2> QED  BY <1>1, <2>1, <2>2, LoadDies
<1>5. Loaded(c2, it.wife, c3, S) /\ (it.wife # NoKey /\ c2.dead = "alive" => c3 = KeyToCacheel(c2, it.wife))
  <2> HIDE DEF c2
  <2>1. Loaded(c2, it.wife, c3, S)
    <3>1. Ready(c2, S)
      BY <1>4 DEF Loaded
    <3>2. c3 = Load(c2, it.wife, no)
      OBVIOUS
    <3> HIDE DEF c3
    <3> QED  BY <1>1, <3>1, <3>2, LoadDies
  <2> QED  BY <1>c, <2>1 DEF Load
<1> HIDE DEF c2, c3
<1>6. Loaded(c3, it.other, d, S)
  BY <1>0, <1>1, <1>5, LoadDies DEF Loaded
<1>7. ASSUME d.dead = "alive", Lacks(d, it) PROVE Tight(c, "INDI")
  <2>1. /\ c1.dead = "alive" /\ c2.dead = "alive" /\ c3.dead = "alive"
        /\ Consistent(c1) /\ Consistent(c2) /\ Consistent(c3) /\ Consistent(d) /\ SameLocks(c, c2)
    BY <1>3, <1>4, <1>5, <1>6, <1>7, StepsTrans DEF Loaded, Steps
  <2>2. PICK role \in Roles : it[role] # NoKey /\ d.table[it[role]] = NoEl
    BY <1>7 DEF Lacks
  <2>3. \A q \in S : q \in Key
    OBVIOUS
  <2>4. role # "fam"
    <3>1. SUFFICES ASSUME it.fam # NoKey PROVE d.table[it.fam] \in El
      BY <2>2, Constants
    <3>2. it.fam \in Key /\ c1.table[it.fam] \in El
      BY <1>1, <1>3, <2>1, <2>3, <3>1 DEF Loaded
    <3>3. c2.table[it.fam] \in El
      BY <1>2, <1>4, <2>1, <3>1, <3>2, LoadStays
    <3>4. c3.table[it.fam] \in El
      BY <1>2, <1>5, <2>1, <3>1, <3>2, <3>3, LoadStays
    <3> QED  BY <1>2, <1>6, <1>7, <2>1, <3>1, <3>2, <3>4, LoadStays
  <2>5. role # "wife"
    <3>1. SUFFICES ASSUME it.wife # NoKey PROVE d.table[it.wife] \in El
      BY <2>2, Constants
    <3>2. it.wife \in Key /\ c3.table[it.wife] \in El
      BY <1>1, <1>5, <2>1, <2>3, <3>1 DEF Loaded
    <3> QED  BY <1>2, <1>6, <1>7, <2>1, <3>1, <3>2, LoadStays
  <2>6. role # "other"
    <3>1. SUFFICES ASSUME it.other # NoKey PROVE d.table[it.other] \in El
      BY <2>2, Constants
    <3> QED  BY <1>6, <1>7, <3>1 DEF Loaded
  <2>7. role = "indi" /\ it.indi # NoKey /\ d.table[it.indi] = NoEl
    BY <2>2, <2>4, <2>5, <2>6 DEF Roles
  <2>8. it.indi \in Key /\ c2.table[it.indi] \in El /\ Newest(c2, it.indi) /\ TypeOf[it.indi] = "INDI"
    BY <1>1, <1>2, <1>4, <2>1, <2>3, <2>7 DEF Loaded
  <2>9. c3.table[it.indi] = NoEl
    <3>1. c3.table[it.indi] \in El \cup {NoEl}
      BY <2>1, <2>8, CacheFields DEF Consistent
    <3>2. ASSUME c3.table[it.indi] \in El PROVE FALSE
      <4>1. d.table[it.indi] \in El
        BY <1>2, <1>6, <1>7, <2>1, <2>7, <2>8, <3>2, LoadStays
      <4> QED  BY <2>7, <4>1, Constants
    <3> QED  BY <3>1, <3>2
  <2>10. it.wife # NoKey /\ it.wife \in Key
    <3>1. it.wife # NoKey
      BY <1>5, <2>8, <2>9, Constants DEF Loaded
    <3> QED  BY <1>1, <2>3, <3>1
  <2>11. c3 = KeyToCacheel(c2, it.wife)
    BY <1>5, <2>1, <2>10
  <2>12. PICK o : Counted(c2, o)
    BY <1>4, <2>1 DEF Loaded, Ready
  <2>13. Tight(c2, TypeOf[it.indi])
    BY <2>1, <2>8, <2>9, <2>10, <2>11, <2>12, NewestStays
  <2> QED  BY <2>1, <2>8, <2>13, TightSame
<1> QED  BY <1>6, <1>7 DEF Loaded, Ready

(* An item leaves only records of the database in caches and variables.      *)
LEMMA ItemDies ==
    ASSUME Inv, DiesInv, At("next"), NEW it, ItemOf(it, Sh),
           \A role \in Roles : it[role] \in stored \cup {NoKey},
           NEW d, NEW f2, NEW lo, ItemMade(d, it, f2, lo)
    PROVE  /\ Rightly(d)
           /\ d.dead = "alive" =>
                /\ Known(d, stored) /\ f2 \in Frame
                /\ \A x \in Roles : f2.vars[x] # NoRec => KeyOf(f2.vars[x]) \in stored
<1> DEFINE c == ReadItem(cache, it, Sh)
           made == MakeValues(c, it, Sh)
           new == LocalRecords(made, it, Sh)
           els == LocalElements(made, it, Sh)
           macro == MacroOf(c, it, Sh)
           out == OutOf(stack, loose, leaked)
           o1 == IF c.dead = "alive" THEN Plus(out, macro) ELSE out
<1>1. /\ cache.dead = "alive" /\ Running /\ stack # << >> /\ irc = "next"
      /\ Consistent(cache) /\ Counted(cache, out) /\ out \in [Rec -> Nat]
      /\ Known(cache, stored) /\ stored \in SUBSET Key
  BY DiesNow DEF At, Running, Counted
<1>2. /\ Top \in Frame /\ Sound(Sh) /\ it \in Item
      /\ Sh.locals \subseteq Roles /\ Sh.spare \in Roles \cup {None}
  BY <1>1, TopIs DEF ItemOf, Sound
<1>3. /\ d = IF WalkTree THEN Die(cache, "dangling")
             ELSE IF made.dead # "alive" THEN made
             ELSE LockAll(ReleaseVars(made, Top.vars), els)
      /\ f2 = [Top EXCEPT !.inner = els, !.vars = new, !.macro = macro]
  BY DEF ItemMade
<1>4. /\ Steps(cache, c)
      /\ c.dead = "alive" => macro \in Rec \cup {NoRec} /\ Counted(c, Plus(out, macro))
  BY <1>1, <1>2, ReadItemIs
<1>5. /\ c.dead \in {"alive", "full", "memory"}
      /\ c.dead = "alive" => Known(c, stored) /\ (Lacks(c, it) => Tight(cache, "INDI"))
  BY <1>1, <1>2, ReadItemDies
<1>6. o1 \in [Rec -> Nat] /\ (c.dead = "alive" => Counted(c, o1)) /\ Consistent(c)
  BY <1>1, <1>4, PlusIs DEF Steps
<1>7. /\ Steps(c, made) /\ Fails(c, made, it)
      /\ made.dead = "alive" =>
           /\ SameFinds(c, made) /\ new \in [Roles -> Rec \cup {NoRec}]
           /\ \A role \in Sh.locals \cap Roles : it[role] # NoKey => made.table[it[role]] \in El
  <2> HIDE DEF c, o1
  <2> QED  BY <1>2, <1>6, MakeValuesIs
<1>8. Steps(cache, made)
  BY <1>4, <1>7, StepsTrans
<1> HIDE DEF c, made
<1>9. CASE WalkTree
  <2>1. d = Die(cache, "dangling") /\ "dangling" \in Deaths
    BY <1>3, <1>9 DEF Deaths
  <2>2. d.dead = "dangling" /\ TreeWalk
    BY <1>1, <1>9, <2>1, DieKeeps, TopWalks DEF WalkTree
  <2> QED  BY <1>1, <2>2 DEF Rightly
<1>10. CASE ~WalkTree /\ made.dead # "alive"
  <2>1. d = made
    BY <1>3, <1>10
  <2>2. d.dead = c.dead \/ (c.dead = "alive" /\ d.dead = "dangling" /\ Lacks(c, it))
    BY <1>7, <2>1 DEF Fails
  <2>3. CASE d.dead = c.dead
    BY <1>1, <1>5, <1>10, <2>1, <2>3, ReportRightly
  <2>4. CASE c.dead = "alive" /\ d.dead = "dangling" /\ Lacks(c, it)
    <3>1. SameLocks(cache, d) /\ Tight(cache, "INDI")
      BY <1>5, <1>8, <2>1, <2>4 DEF Steps
    <3>2. Tight(d, "INDI")
      BY <3>1 DEF SameLocks, Tight
    <3> QED  BY <1>1, <2>4, <3>2 DEF Rightly
  <2> QED  BY <2>2, <2>3, <2>4
<1>11. CASE ~WalkTree /\ made.dead = "alive"
  <2> DEFINE b == ReleaseVars(made, Top.vars)
  <2>1. d = LockAll(b, els)
    BY <1>3, <1>11
  <2>2. c.dead = "alive" /\ macro \in Rec \cup {NoRec} /\ Consistent(made) /\ made.table = c.table
    BY <1>4, <1>7, <1>11 DEF Steps, SameFinds
  <2>3. {"dead", "table"} \subseteq DOMAIN made
    BY <2>2 DEF Consistent, CacheType
  <2>4. Stays(made, b)
    BY <2>3, ReleaseVarsStays
  <2>5. els \in SUBSET El
    BY <1>2, <1>7, <1>11, <2>2, LocalElementsIs
  <2>6. new \in [Roles -> Rec \cup {NoRec}]
    BY <1>7, <1>11
  <2>7. ASSUME NEW x \in Roles, new[x] # NoRec PROVE KeyOf(new[x]) \in stored
    <3> DEFINE k == it[x]
    <3>1. x \in Sh.locals /\ k # NoKey /\ new[x] = RecordOf(made, k)
      BY <2>7 DEF LocalRecords
    <3>2. k \in stored /\ k \in Key /\ made.table[k] \in El
      BY <1>1, <1>7, <1>11, <3>1
    <3> HIDE DEF k
    <3>3. made.table[k] # NoEl
      BY <3>2, Constants
    <3>4. KeyOf(RecordOf(made, k)) = k
      BY <2>2, <3>2, <3>3, RecordOfIs
    <3> QED  BY <3>1, <3>2, <3>4
  <2> HIDE DEF b, els, new, macro
  <2>8. d.dead = "alive" /\ d.table = c.table
    BY <1>11, <2>1, <2>2, <2>4 DEF Stays, LockAll
  <2>9. Known(d, stored)
    BY <1>5, <2>2, <2>8 DEF Known
  <2>10. f2 \in Frame /\ f2.vars = new
    BY <1>2, <1>3, <2>2, <2>5, <2>6 DEF Frame
  <2>11. Rightly(d)
    BY <1>1, <2>8, ReportRightly
  <2> QED  BY <2>7, <2>9, <2>10, <2>11
<1> QED  BY <1>9, <1>10, <1>11

LEMMA NextItemDies ==
    ASSUME Inv, DiesInv, NextItem, Inv'
    PROVE  DiesInv'
<1>1. At("next") /\ Running /\ stored' = stored /\ stored \subseteq Key
  BY DiesNow DEF NextItem, At, Running
<1>2. PICK f \in Choice("fam", Sh), i \in Choice("indi", Sh),
           w \in Choice("wife", Sh), o \in Choice("other", Sh) :
         LET it == [fam |-> f, indi |-> i, wife |-> w, other |-> o]
             c == ReadItem(cache, it, Sh)
             macro == IF Sh.macro # None THEN RecordOf(c, it[Sh.macro]) ELSE NoRec
             made == MakeValues(c, it, Sh)
             new == LocalRecords(made, it, Sh)
             els == LocalElements(made, it, Sh)
             d == IF WalkTree THEN Die(cache, "dangling")
                  ELSE IF made.dead # "alive" THEN made
                  ELSE LockAll(ReleaseVars(made, Top.vars), els)
             f2 == [Top EXCEPT !.inner = els, !.vars = new, !.macro = macro]
         IN /\ Sh.needs # None => it[Sh.needs] # NoKey
            /\ Sh.spare # None => FoldFunction(Add, 0, loose) < MaxLost
            /\ Commit(d, SetTop(f2), "run")
            /\ loose' = IF d.dead = "alive" /\ Sh.spare # None
                        THEN [loose EXCEPT ![new[Sh.spare]] = @ + 1] ELSE loose
  BY DEF NextItem
<1>3. PICK it : it = [fam |-> f, indi |-> i, wife |-> w, other |-> o]
  OBVIOUS
<1>4. PICK d, f2 : ItemMade(d, it, f2, loose') /\ Commit(d, SetTop(f2), "run")
  BY <1>2, <1>3 DEF ItemMade, MacroOf
<1>5. ItemOf(it, Sh)
  BY <1>1, <1>3, ItemIs
<1>6. \A role \in Roles : it[role] \in stored \cup {NoKey}
  BY <1>3 DEF Roles, Choice
<1>7. /\ Rightly(d)
      /\ d.dead = "alive" =>
           /\ Known(d, stored) /\ f2 \in Frame
           /\ \A x \in Roles : f2.vars[x] # NoRec => KeyOf(f2.vars[x]) \in stored
  BY <1>1, <1>4, <1>5, <1>6, ItemDies
<1>8. d.dead = "alive" => SetTop(f2) \in Seq(Frame) /\ VarsKnown(SetTop(f2), stored)
  BY <1>1, <1>7, VarsBelow
<1> QED  BY <1>1, <1>4, <1>7, <1>8, CommitDies

LEMMA PassOverDies ==
    ASSUME Inv, DiesInv, PassOver, Inv'
    PROVE  DiesInv'
<1>1. /\ Running /\ stack # << >> /\ cache.dead = "alive" /\ irc = "next" /\ stored' = stored
      /\ stored \in SUBSET Key /\ Sh.needs # None /\ Sound(Sh)
  BY DiesNow, TopIs DEF PassOver, At, Running
<1>2. PICK f \in Choice("fam", Sh), i \in Choice("indi", Sh), w \in Choice("wife", Sh) :
         LET it == [fam |-> f, indi |-> i, wife |-> w, other |-> NoKey]
             c == ReadItem(cache, it, Sh)
         IN Commit(IF c.dead # "alive" THEN c ELSE Release(c, RecordOf(c, f)), stack, "next")
  BY DEF PassOver
<1>3. PICK it : it = [fam |-> f, indi |-> i, wife |-> w, other |-> NoKey]
  OBVIOUS
<1> DEFINE c == ReadItem(cache, it, Sh)
           d == IF c.dead # "alive" THEN c ELSE Release(c, RecordOf(c, f))
<1>4. Commit(d, stack, "next")
  BY <1>2, <1>3
<1>5. ItemOf(it, Sh)
  <2>1. Sh.macro = "fam" /\ Sh.macro # None /\ "other" \notin Sh.always
    BY <1>1 DEF Sound, None
  <2>2. NoKey \in Choice("other", Sh)
    BY <2>1 DEF Choice
  <2> QED  BY <1>1, <1>3, <2>2, ItemIs
<1>6. \A role \in Roles : it[role] \in stored \cup {NoKey}
  BY <1>3 DEF Roles, Choice
<1>7. /\ Steps(cache, c) /\ c.dead \in {"alive", "full", "memory"}
      /\ c.dead = "alive" => Known(c, stored)
  BY <1>1, <1>5, <1>6, DiesNow, ReadItemIs, ReadItemDies
<1> HIDE DEF c
<1>8. {"dead", "table"} \subseteq DOMAIN c
  BY <1>7 DEF Steps, Consistent, CacheType
<1>9. d.dead = c.dead /\ (c.dead = "alive" => d.table = c.table)
  BY <1>8, ReleaseStays DEF Stays
<1> HIDE DEF d
<1>10. d.dead = "alive" => Known(d, stored)
  BY <1>7, <1>9 DEF Known
<1> QED  BY <1>1, <1>4, <1>7, <1>9, <1>10, DiesNow, ReportRightly, CommitDies

-----------------------------------------------------------------------------
(* Between reports only events are locked.                                   *)

LEMMA EventsOnly ==
    ASSUME Inv, Idle, NEW e \in El, cache.lock[e] > 0
    PROVE  Cache[e] = "EVEN"
<1>1. LocksOf(cache, stack) /\ Len(stack) = 0
  BY NowIs DEF Idle
<1> QED  BY <1>1 DEF LocksOf

LEMMA IdleRightly ==
    ASSUME Inv, Idle, NEW d, SameLocks(cache, d),
           \/ d.dead \in {"alive", "memory"}
           \/ d.dead \in {"full", "locked"} /\ \E e \in El : cache.lock[e] > 0
    PROVE  Rightly(d)
<1>1. d.lock = cache.lock
  BY DEF SameLocks
<1> QED  BY <1>1, EventsOnly DEF Rightly, Idle

LEMMA AddRecordDies ==
    ASSUME Inv, DiesInv, NEW k \in Edited, AddRecord(k), Inv'
    PROVE  DiesInv'
<1> DEFINE d == AddNew(cache, k)
           S == stored \cup {k}
<1>1. /\ Idle /\ cache.dead = "alive" /\ k \in Key /\ k \notin stored /\ Commit(d, stack, irc)
      /\ stored' = S
  BY ReportAssumption DEF AddRecord, Idle
<1>2. cache.table[k] = NoEl
  BY <1>1, DiesNow DEF Known
<1>3. /\ d.dead \in {"alive", "full", "memory"} /\ (d.dead = "full" => AllLocked(cache, TypeOf[k]))
      /\ Gains(cache, d, k)
  BY <1>1, <1>2, DiesNow, AddNewDies
<1>4. SameLocks(cache, d)
  BY <1>1, DiesNow, AddNewIs
<1> HIDE DEF d
<1>5. d.dead = "full" => \E e \in El : cache.lock[e] > 0
  <2>1. PICK e \in El : Cache[e] = TypeOf[k]
    BY <1>1, RoomAssumption
  <2> QED  BY <1>3, <2>1 DEF AllLocked
<1>6. Rightly(d)
  BY <1>1, <1>3, <1>4, <1>5, IdleRightly
<1>7. Known(cache, S) /\ VarsKnown(stack, S) /\ stack \in Seq(Frame) /\ k \in S
  BY <1>1, DiesNow DEF Known, VarsKnown
<1> HIDE DEF S
<1>8. Known(d, S)
  BY <1>3, <1>7, KnownGains
<1> QED  BY <1>1, <1>6, <1>7, <1>8, CommitDies

LEMMA DeleteRecordDies ==
    ASSUME Inv, DiesInv, NEW k \in Edited, DeleteRecord(k), Inv'
    PROVE  DiesInv'
<1> DEFINE c == KeyToCacheel(cache, k)
           d == IF c.dead # "alive" THEN c ELSE RemoveFromCache(c, k)
           S == stored \ {k}
           out == OutOf(stack, loose, leaked)
<1>1. /\ Idle /\ cache.dead = "alive" /\ k \in stored /\ k \in Key /\ Commit(d, stack, irc)
      /\ stored' = S
  BY ReportAssumption DEF DeleteRecord, Idle
<1>2. /\ c.dead \in {"alive", "full", "memory"} /\ Known(c, stored) /\ Consistent(c)
      /\ c.dead = "alive" => c.table[k] \in El
      /\ c.dead = "full" => AllLocked(cache, TypeOf[k])
      /\ SameLocks(cache, c)
  BY <1>1, ReadDies
<1>3. c.dead = "alive" => Counted(c, out)
  BY <1>1, DiesNow, KeyToCacheelIs
<1> HIDE DEF c, out
<1>4. VarsKnown(stack, S) /\ stack \in Seq(Frame)
  <2>1. Len(stack) = 0 /\ stack \in Seq(Frame)
    BY <1>1, DiesNow DEF Idle
  <2> QED  BY <2>1 DEF VarsKnown
<1>5. CASE c.dead # "alive"
  <2>1. d = c
    BY <1>5
  <2>2. c.dead = "full" => \E e \in El : cache.lock[e] > 0
    <3>1. PICK e \in El : Cache[e] = TypeOf[k]
      BY <1>1, RoomAssumption
    <3> QED  BY <1>2, <3>1 DEF AllLocked
  <2>3. Rightly(d)
    BY <1>1, <1>2, <1>5, <2>1, <2>2, IdleRightly
  <2> HIDE DEF d
  <2> QED  BY <1>1, <1>5, <2>1, <2>3, CommitDies
<1>6. CASE c.dead = "alive"
  <2>1. d = RemoveFromCache(c, k) /\ c.table[k] # NoEl
    BY <1>2, <1>6, Constants
  <2> HIDE DEF d
  <2>2. \/ d.dead = "locked" /\ c.table[k] \in El /\ c.lock[c.table[k]] > 0
        \/ d.dead = "alive" /\ d.table = [c.table EXCEPT ![k] = NoEl]
    BY <1>1, <1>2, <1>3, <1>6, <2>1, RemoveFromCacheDies
  <2>3. SameLocks(c, d)
    BY <1>1, <1>2, <1>3, <1>6, <2>1, RemoveFromCacheIs
  <2>4. SameLocks(cache, d) /\ c.lock = cache.lock
    BY <1>2, <2>3 DEF SameLocks
  <2>5. Rightly(d)
    BY <1>1, <2>2, <2>4, IdleRightly
  <2>6. d.dead = "alive" => Known(d, S)
    <3>1. c.table \in [Key -> El \cup {NoEl}]
      BY <1>2, CacheFields DEF Consistent
    <3> QED  BY <1>1, <1>2, <2>2, <3>1 DEF Known
  <2> QED  BY <1>1, <1>4, <2>5, <2>6, CommitDies
<1> QED  BY <1>5, <1>6

-----------------------------------------------------------------------------
LEMMA StartedDies == Started => DiesInv
<1> SUFFICES ASSUME Started PROVE DiesInv
  OBVIOUS
<1>1. cache.dead = "alive" /\ cache.table = [k \in Key |-> NoEl] /\ stack = << >>
  BY DEF Started, EmptyCaches
<1>2. Known(cache, stored) /\ VarsKnown(stack, stored)
  BY <1>1 DEF Known, VarsKnown
<1> QED  BY <1>1, <1>2 DEF DiesInv, DiesOnlyOf, Alive

LEMMA DiesSame ==
    ASSUME DiesInv, UNCHANGED <<cache, stored, stack>>
    PROVE  DiesInv'
<1>1. DiesOnlyOf'
  BY DEF DiesInv, DiesOnlyOf, Alive, TreeWalk, LockedOf, Depth
<1> QED  BY <1>1 DEF DiesInv, Alive, Known, VarsKnown

LEMMA NextDies ==
    ASSUME Inv, DiesInv, Next, Inv'
    PROVE  DiesInv'
<1>1. CASE Start
  BY <1>1, StartDies
<1>2. CASE Statement
  <2>1. ASSUME EndOfBody \/ \E how \in Jumps : Jump(how) PROVE DiesInv'
    BY <2>1, DiesSame DEF EndOfBody, Jump
  <2> QED  BY <1>2, <2>1, EnterDies, TouchDies, LlrptLockDies, LlrptUnlockDies, UseVarDies DEF Statement
<1>3. CASE NextItem
  BY <1>3, NextItemDies
<1>4. CASE PassOver
  BY <1>4, PassOverDies
<1>5. CASE LoopEnd
  BY <1>5, LoopEndDies
<1>6. CASE BodyDone
  BY <1>6, BodyDoneDies
<1>7. CASE LeaveLoop
  BY <1>7, LeaveLoopDies
<1>8. CASE LeaveOnce
  BY <1>8, LeaveOnceDies
<1>9. CASE FinishReport
  BY <1>9, FinishDies
<1>10. ASSUME NEW k \in Edited, AddRecord(k) \/ DeleteRecord(k) PROVE DiesInv'
  BY <1>10, AddRecordDies, DeleteRecordDies
<1>11. CASE Restart
  <2>1. Started'
    BY <1>11 DEF Restart, Started, Inv, TypeOK
  <2> QED  BY <2>1, StartedDies, PTL
<1> QED  BY <1>1, <1>2, <1>3, <1>4, <1>5, <1>6, <1>7, <1>8, <1>9, <1>10, <1>11 DEF Next

(* Nothing else ends the program than what DiesOnlyOf names: never an        *)
(* assertion on a lock, never a record that its object or element lost.      *)
THEOREM DiesOnlyAsSaid == Spec => []DiesOnlyOf
<1>1. Init => DiesInv
  <2>1. Init => Started
    BY ReportAssumption DEF Init, Started
  <2> QED  BY <2>1, StartedDies
<1>2. Inv /\ Inv' /\ DiesInv /\ [Next]_vars => DiesInv'
  <2>1. ASSUME DiesInv, UNCHANGED vars PROVE DiesInv'
    BY <2>1, DiesSame DEF vars
  <2> QED  BY <2>1, NextDies
<1>3. DiesInv => DiesOnlyOf
  BY DEF DiesInv
<1> QED  BY <1>1, <1>2, <1>3, Invariance, PTL DEF Spec
================================================================================
