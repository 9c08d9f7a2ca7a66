---------------------------- MODULE XrefRepair_proof ----------------------------
(* Proofs about XrefFile, for any number of keys and crashes: type correctness,   *)
(* the order of the free list, and the agreement of the delete set with the       *)
(* records.  And about XrefRepair: the bisection of find_slot finds the slot on   *)
(* every list that the database can hold, dbverify frees no key of a record, and  *)
(* accounts for every number of a sound delete set.                               *)
EXTENDS XrefRepair, FiniteSetTheorems, WellFoundedInduction, TLAPS

(***************************************************************************)
(* What the functions of xreffile.c do to a delete set, for every set      *)
(* whose list is strictly descending.                                      *)
(***************************************************************************)

(* A function on 1..n with values in S is a sequence of length n. *)
LEMMA FunctionIsSequence ==
    ASSUME NEW S, NEW n \in Nat, NEW f \in [1..n -> S]
    PROVE  f \in Seq(S) /\ Len(f) = n
  OBVIOUS

(* getxrefnum hands out a listed key, or the next unused number, and takes it   *)
(* out of the set.                                                              *)
LEMMA GetSetTakes ==
    ASSUME NEW max \in Nat, NEW s \in DeleteSets(max),
           GetKey(s) <= max, StrictlyDown(s.free)
    PROVE  /\ GetSet(s) \in DeleteSets(max)
           /\ StrictlyDown(GetSet(s).free)
           /\ GetKey(s) \in 1..max
           /\ FreeKeys(GetSet(s)) = FreeKeys(s) \ {GetKey(s)}
           /\ IF s.free = << >> THEN GetKey(s) = s.next /\ GetSet(s).next = s.next + 1
              ELSE GetKey(s) \in FreeKeys(s) /\ GetSet(s).next = s.next
<1>1. s.next \in 1..(max + 1) /\ s.free \in Seq(1..max)
  BY DEF DeleteSets
<1>2. CASE s.free = << >>
  <2>1. GetSet(s) = [s EXCEPT !.next = @ + 1] /\ GetKey(s) = s.next
    BY <1>2 DEF GetSet, GetKey
  <2>2. GetSet(s).next = s.next + 1 /\ GetSet(s).free = s.free
    BY <2>1 DEF DeleteSets
  <2>3. GetSet(s) \in DeleteSets(max)
    BY <1>1, <2>1 DEF DeleteSets
  <2> QED  BY <1>1, <1>2, <2>1, <2>2, <2>3 DEF FreeKeys, StrictlyDown
<1>3. CASE s.free # << >>
  <2> DEFINE n == Len(s.free)
             shorter == [i \in 1..(n - 1) |-> s.free[i]]
  <2>1. n \in Nat /\ n >= 1
    BY <1>1, <1>3
  <2>2. shorter \in [1..(n - 1) -> 1..max]
    BY <1>1, <2>1
  <2>3. shorter \in Seq(1..max) /\ Len(shorter) = n - 1
    BY <2>1, <2>2, FunctionIsSequence
  <2>4. GetSet(s) = [s EXCEPT !.free = shorter] /\ GetKey(s) = s.free[n]
    BY <1>3 DEF GetSet, GetKey, DeleteSets
  <2>5. GetSet(s).next = s.next /\ GetSet(s).free = shorter
    BY <2>4 DEF DeleteSets
  <2>6. GetSet(s) \in DeleteSets(max)
    BY <1>1, <2>3, <2>4 DEF DeleteSets
  <2>7. StrictlyDown(shorter)
    <3>1. \A i \in 1..(n - 1) : shorter[i] = s.free[i] /\ i \in 1..n
      BY <2>1
    <3> HIDE DEF shorter
    <3> QED  BY <2>1, <2>3, <3>1 DEF StrictlyDown
  <2>8. \A i \in 1..(n - 1) : s.free[i] # s.free[n]
    <3>1. \A i \in 1..n : s.free[i] \in Int
      BY <1>1, <2>1
    <3>2. \A i \in 1..(n - 1) : i \in 1..n /\ n \in 1..n /\ i < n
      BY <2>1
    <3>3. \A i \in 1..(n - 1) : s.free[i] > s.free[n]
      BY <3>2 DEF StrictlyDown
    <3> HIDE DEF n
    <3> QED  BY <3>1, <3>2, <3>3
  <2>9. FreeKeys(GetSet(s)) = { s.free[i] : i \in 1..(n - 1) }
    BY <2>3, <2>5 DEF FreeKeys
  <2>10. FreeKeys(GetSet(s)) = FreeKeys(s) \ {GetKey(s)}
    <3>1. \A i \in 1..n : i \in 1..(n - 1) \/ i = n
      BY <2>1
    <3>2. \A i \in 1..(n - 1) : i \in 1..n
      BY <2>1
    <3> HIDE DEF n, shorter
    <3> QED  BY <2>4, <2>8, <2>9, <3>1, <3>2 DEF FreeKeys, n
  <2>11. GetKey(s) \in 1..max /\ GetKey(s) \in FreeKeys(s)
    <3>1. n \in 1..n
      BY <2>1
    <3>2. s.free[n] \in 1..max
      BY <1>1, <2>1
    <3> QED  BY <2>4, <3>1, <3>2 DEF FreeKeys
  <2> QED  BY <1>3, <2>5, <2>6, <2>7, <2>10, <2>11
<1> QED  BY <1>2, <1>3

(* addxref lowers recs[0], or lists the key, which was not listed before.       *)
LEMMA AddedSetsAdd ==
    ASSUME NEW max \in Nat, NEW s \in DeleteSets(max), NEW k \in 1..max,
           StrictlyDown(s.free), NEW t \in AddedSets(s, k)
    PROVE  /\ t \in DeleteSets(max)
           /\ StrictlyDown(t.free)
           /\ \/ s.next = k + 1 /\ t.next = k /\ FreeKeys(t) = FreeKeys(s)
              \/ /\ s.next # k + 1 /\ t.next = s.next
                 /\ k \notin FreeKeys(s) /\ FreeKeys(t) = FreeKeys(s) \cup {k}
<1>1. s.next \in 1..(max + 1) /\ s.free \in Seq(1..max)
  BY DEF DeleteSets
<1>2. CASE IsTopKey(s, k)
  <2>1. t = [s EXCEPT !.next = k] /\ s.next = k + 1
    BY <1>2 DEF AddedSets, AddTop, IsTopKey
  <2>2. t.next = k /\ t.free = s.free
    BY <2>1 DEF DeleteSets
  <2>3. t \in DeleteSets(max)
    BY <1>1, <2>1 DEF DeleteSets
  <2> QED  BY <2>1, <2>2, <2>3 DEF FreeKeys
<1>3. CASE ~IsTopKey(s, k)
  <2>1. PICK lo \in Slots(k, s.free) : ~Listed(k, s.free, lo) /\ t = AddAt(s, k, lo)
    BY <1>3 DEF AddedSets
  <2> DEFINE n == Len(s.free)
             longer == InsertSlot(s.free, lo, k)
  <2>2. n \in Nat /\ lo \in 1..(n + 1) /\ IsSlot(k, s.free, lo)
    BY <1>1, <2>1 DEF Slots
  <2>3. \A i \in 1..n : s.free[i] \in 1..max /\ s.free[i] # k
    BY <1>1, <2>1, <2>2 DEF IsSlot, Listed
  <2>4. /\ \A i \in 1..(lo - 1) : s.free[i] > k
        /\ \A i \in lo..n : s.free[i] < k
    BY <2>2, <2>3 DEF IsSlot
  <2>5. longer \in [1..(n + 1) -> 1..max]
    BY <2>2, <2>3 DEF InsertSlot
  <2>6. longer \in Seq(1..max) /\ Len(longer) = n + 1
    BY <2>2, <2>5, FunctionIsSequence
  <2>7. /\ \A i \in 1..(lo - 1) : longer[i] = s.free[i]
        /\ longer[lo] = k
        /\ \A i \in (lo + 1)..(n + 1) : longer[i] = s.free[i - 1]
    BY <2>2 DEF InsertSlot
  <2>8. t = [s EXCEPT !.free = longer]
    BY <2>1 DEF AddAt, DeleteSets
  <2>9. t.next = s.next /\ t.free = longer /\ t \in DeleteSets(max)
    BY <1>1, <2>6, <2>8 DEF DeleteSets
  <2>10. StrictlyDown(longer)
    <3> SUFFICES ASSUME NEW i \in 1..(n + 1), NEW j \in 1..(n + 1), i < j
                 PROVE  longer[i] > longer[j]
      BY <2>6 DEF StrictlyDown
    <3> HIDE DEF longer, n
    <3>1. CASE i < lo /\ j < lo
      BY <2>2, <2>7, <3>1 DEF StrictlyDown, n
    <3>2. CASE i < lo /\ j = lo
      BY <2>2, <2>4, <2>7, <3>2
    <3>3. CASE i < lo /\ j > lo
      <4>1. longer[i] = s.free[i] /\ s.free[i] > k /\ longer[j] = s.free[j - 1]
        BY <2>2, <2>4, <2>7, <3>3
      <4>2. s.free[j - 1] < k /\ s.free[j - 1] \in 1..max /\ s.free[i] \in 1..max
        BY <2>2, <2>3, <2>4, <3>3
      <4> QED  BY <4>1, <4>2
    <3>4. CASE i = lo /\ j > lo
      <4>1. longer[j] = s.free[j - 1] /\ s.free[j - 1] < k /\ s.free[j - 1] \in 1..max
        BY <2>2, <2>3, <2>4, <2>7, <3>4
      <4> QED  BY <2>7, <3>4, <4>1
    <3>5. CASE i > lo
      <4>1. longer[i] = s.free[i - 1] /\ longer[j] = s.free[j - 1]
        BY <2>2, <2>7, <3>5
      <4>2. i - 1 \in 1..n /\ j - 1 \in 1..n /\ i - 1 < j - 1
        BY <2>2, <3>5
      <4> QED  BY <4>1, <4>2 DEF StrictlyDown, n
    <3> QED  BY <2>2, <3>1, <3>2, <3>3, <3>4, <3>5
  <2>11. FreeKeys(t) = FreeKeys(s) \cup {k}
    <3>1. FreeKeys(t) = { longer[i] : i \in 1..(n + 1) }
      BY <2>6, <2>9 DEF FreeKeys
    <3>2. \A i \in 1..(n + 1) : longer[i] = k \/ \E j \in 1..n : longer[i] = s.free[j]
      <4> TAKE i \in 1..(n + 1)
      <4>1. CASE i < lo
        <5>1. i \in 1..n /\ longer[i] = s.free[i]
          BY <2>2, <2>7, <4>1
        <5> QED  BY <5>1
      <4>2. CASE i > lo
        <5>1. i - 1 \in 1..n /\ longer[i] = s.free[i - 1]
          BY <2>2, <2>7, <4>2
        <5> QED  BY <5>1
      <4> QED  BY <2>2, <2>7, <4>1, <4>2
    <3>3. \A j \in 1..n : \E i \in 1..(n + 1) : longer[i] = s.free[j]
      <4> TAKE j \in 1..n
      <4>1. CASE j < lo
        <5>1. j \in 1..(n + 1) /\ longer[j] = s.free[j]
          BY <2>2, <2>7, <4>1
        <5> QED  BY <5>1
      <4>2. CASE j >= lo
        <5>1. j + 1 \in 1..(n + 1) /\ longer[j + 1] = s.free[j]
          BY <2>2, <2>7, <4>2
        <5> QED  BY <5>1
      <4> QED  BY <2>2, <4>1, <4>2
    <3>4. \E i \in 1..(n + 1) : longer[i] = k
      BY <2>2, <2>7
    <3>5. FreeKeys(s) = { s.free[j] : j \in 1..n }
      BY DEF FreeKeys
    <3> HIDE DEF longer, n
    <3>6. \A x \in FreeKeys(t) : x \in FreeKeys(s) \cup {k}
      BY <3>1, <3>2, <3>5
    <3>7. \A x \in FreeKeys(s) \cup {k} : x \in FreeKeys(t)
      BY <3>1, <3>3, <3>4, <3>5
    <3> QED  BY <3>6, <3>7
  <2>12. k \notin FreeKeys(s)
    BY <2>3 DEF FreeKeys
  <2> QED  BY <1>3, <2>9, <2>10, <2>11, <2>12 DEF IsTopKey
<1> QED  BY <1>2, <1>3

(* newxref forgets the deleted keys and puts recs[0] above the key it keeps.    *)
LEMMA KeepKeyKeeps ==
    ASSUME NEW max \in Nat, NEW s \in DeleteSets(max), NEW k \in 1..max
    PROVE  /\ KeepKey(s, k) \in DeleteSets(max)
           /\ StrictlyDown(KeepKey(s, k).free)
           /\ FreeKeys(KeepKey(s, k)) = {}
           /\ KeepKey(s, k).next = IF k >= s.next THEN k + 1 ELSE s.next
<1>1. KeepKey(s, k).free = << >>
  BY DEF KeepKey
<1>2. KeepKey(s, k).next = IF k >= s.next THEN k + 1 ELSE s.next
  BY DEF KeepKey
<1>3. KeepKey(s, k) \in DeleteSets(max)
  BY DEF KeepKey, DeleteSets
<1> QED  BY <1>1, <1>2, <1>3 DEF StrictlyDown, FreeKeys

(* Opening the file leaves a sorted list as it is.                              *)
LEMMA SortedStays ==
    ASSUME NEW max \in Nat, NEW free \in Seq(1..max), StrictlyDown(free)
    PROVE  SortXref(free) = free
<1>1. FirstIsHighest(free)
  BY DEF FirstIsHighest, StrictlyDown
<1> QED  BY <1>1 DEF SortXref

(* A list that leaves num_set nothing to count holds every number below recs[0]: *)
(* num_set counts as many listed keys as there are entries, and no more.         *)
LEMMA FreeKeysCount ==
    ASSUME NEW max \in Nat, NEW s \in DeleteSets(max), StrictlyDown(s.free)
    PROVE  IsFiniteSet(FreeKeys(s)) /\ Cardinality(FreeKeys(s)) = Len(s.free)
<1> DEFINE n == Len(s.free)
<1>1. s.free \in Seq(1..max) /\ n \in Nat
  BY DEF DeleteSets
<1>2. s.free \in [1..n -> FreeKeys(s)]
  BY <1>1 DEF FreeKeys
<1>3. s.free \in Surjection(1..n, FreeKeys(s))
  BY <1>2 DEF Surjection, FreeKeys
<1>4. \A i, j \in 1..n : i # j => s.free[i] # s.free[j]
  <2>1. \A i \in 1..n : s.free[i] \in 1..max
    BY <1>1
  <2>2. \A i, j \in 1..n : i < j => s.free[i] > s.free[j]
    BY DEF StrictlyDown
  <2> HIDE DEF n
  <2> QED  BY <1>1, <2>1, <2>2
<1>5. s.free \in Injection(1..n, FreeKeys(s))
  BY <1>2, <1>4 DEF Injection, IsInjective
<1>6. ExistsBijection(1..n, FreeKeys(s))
  BY <1>3, <1>5 DEF ExistsBijection, Bijection
<1>7. IsFiniteSet(FreeKeys(s))
  BY <1>1, <1>3, FS_NatSurjection DEF ExistsSurjection
<1> QED  BY <1>1, <1>6, <1>7, FS_CountingElements

LEMMA NumSetZeroAllFree ==
    ASSUME NEW max \in Nat, NEW s \in DeleteSets(max), StrictlyDown(s.free),
           FreeKeys(s) \subseteq 1..(s.next - 1), NumSet(s) <= 0
    PROVE  FreeKeys(s) = 1..(s.next - 1)
<1>1. s.next \in 1..(max + 1) /\ Len(s.free) \in Nat
  BY DEF DeleteSets
<1>2. Len(s.free) >= s.next - 1
  BY <1>1 DEF NumSet
<1>3. IsFiniteSet(FreeKeys(s)) /\ Cardinality(FreeKeys(s)) = Len(s.free)
  BY FreeKeysCount
<1>4. IsFiniteSet(1..(s.next - 1)) /\ Cardinality(1..(s.next - 1)) = s.next - 1
  <2> DEFINE b == s.next - 1
  <2>1. b \in Nat
    BY <1>1
  <2>2. IsFiniteSet(1..b) /\ Cardinality(1..b) = IF 1 > b THEN 0 ELSE b - 1 + 1
    <3> HIDE DEF b
    <3> QED  BY <2>1, FS_Interval
  <2> QED  BY <2>1, <2>2
<1>5. Cardinality(FreeKeys(s)) <= s.next - 1
  BY <1>4, FS_Subset, ZenonT(40)
<1> QED  BY <1>1, <1>2, <1>3, <1>4, <1>5, FS_Subset

(***************************************************************************)
(* The inductive invariant.  What TypeOK, FreeListSorted and Accounted do  *)
(* not say and the steps need: memory and file agree; a key whose deletion *)
(* has begun is already free; and how far an import has come.              *)
(***************************************************************************)
Mirror == (up => set = file) /\ (~up => set = NewSet /\ op = Idle)

DeletingFreed ==
    op.kind = "deleting" => op.key \in FreeKeys(file) \/ op.key >= file.next

ImportSound ==
    op.kind = "import" =>
      /\ op.keyed \subseteq 1..(file.next - 1)
      /\ op.keyed \cap FreeKeys(file) = {}
      /\ op.todo \cap op.gaps = {} /\ op.keyed \cap (op.todo \cup op.gaps) = {}
      /\ Live \cap (op.todo \cup op.keyed \cup op.gaps) = {}
      /\ op.todo = {} => op.gaps \cap FreeKeys(file) = {}
      /\ \A g \in op.gaps : g < file.next \/ \E t \in op.todo : g < t

\* the numbers that the import will have accounted for when it ends
ImportCovers ==
    op.kind = "import" /\ op.todo # {} =>
      \E top \in Keys :
         /\ file.next <= top + 1
         /\ op.todo \subseteq 1..top
         /\ 1..top \subseteq Live \cup op.todo \cup op.keyed \cup op.gaps

Exact == Sound /\ DeletingFreed /\ ImportSound

IInv ==
    /\ TypeOK
    /\ Mirror
    /\ FreeListSorted
    /\ crashes = 0 => Exact
    /\ crashes = 0 /\ ~hole => Covered /\ ImportCovers

-----------------------------------------------------------------------------
(* What the kind of an operation says about it.                                  *)
LEMMA OpFields ==
    ASSUME NEW o \in Ops
    PROVE  /\ o.kind \in {"idle", "adding", "deleting", "loading", "import"}
           /\ o.kind = "idle" => o = Idle
           /\ o.kind = "adding" => o.key \in Keys /\ o = Adding(o.key)
           /\ o.kind = "deleting" => o.key \in Keys /\ o = Deleting(o.key)
           /\ o.kind = "loading" => o.keyed \in SUBSET Keys /\ o = Loading(o.keyed)
           /\ o.kind = "import" =>
                /\ o.todo \subseteq Keys /\ o.keyed \subseteq Keys /\ o.gaps \subseteq Keys
                /\ o = Importing(o.todo, o.keyed, o.gaps)
  BY DEF Ops, Idle, Adding, Deleting, Loading, Importing

(* A set of keys that is not empty has a lowest and a highest member.            *)
LEMMA LowestExists ==
    ASSUME NEW S \in SUBSET Nat, S # {}
    PROVE  LowestOf(S) \in S /\ \A k \in S : LowestOf(S) <= k
<1>1. PICK m \in S : \A k \in S : ~(<<k, m>> \in OpToRel(<, Nat))
  BY NatLessThanWellFounded, WFMin
<1>2. \A k \in S : m <= k
  <2> SUFFICES ASSUME NEW k \in S, k < m
               PROVE  FALSE
    OBVIOUS
  <2>1. <<k, m>> \in Nat \X Nat /\ <<k, m>>[1] < <<k, m>>[2]
    OBVIOUS
  <2>2. <<k, m>> \in OpToRel(<, Nat)
    BY <2>1 DEF OpToRel
  <2> QED  BY <1>1, <2>2
<1> QED  BY <1>2 DEF LowestOf

LEMMA HighestExists ==
    ASSUME NEW S \in SUBSET Keys, S # {}
    PROVE  HighestOf(S) \in S /\ \A k \in S : k <= HighestOf(S)
<1> USE MaxKeyAssumption DEF Keys
<1> DEFINE mirrored == { n \in Nat : \E k \in S : n = MaxKey - k }
<1>1. mirrored \in SUBSET Nat /\ mirrored # {}
  <2>1. PICK k \in S : TRUE
    OBVIOUS
  <2>2. MaxKey - k \in mirrored
    OBVIOUS
  <2> QED  BY <2>2
<1>2. PICK k \in S : MaxKey - k = LowestOf(mirrored)
  BY <1>1, LowestExists
<1>3. \A j \in S : MaxKey - j \in mirrored
  OBVIOUS
<1>4. \A j \in S : MaxKey - k <= MaxKey - j
  <2> HIDE DEF mirrored
  <2>1. \A n \in mirrored : LowestOf(mirrored) <= n
    BY <1>1, LowestExists
  <2> QED  BY <1>2, <1>3, <2>1
<1>5. \A j \in S : j <= k
  BY <1>4
<1> QED  BY <1>5 DEF HighestOf

-----------------------------------------------------------------------------
(* One lemma per step of the program.                                            *)

LEMMA InitHolds == ASSUME Init PROVE IInv
<1> USE MaxKeyAssumption, MaxCrashesAssumption
<1>1. NewSet \in DeleteSets(MaxKey) /\ NewSet.free = << >> /\ NewSet.next = 1
  BY DEF NewSet, DeleteSets, Keys
<1>2. FreeKeys(NewSet) = {} /\ StrictlyDown(NewSet.free)
  BY <1>1 DEF FreeKeys, StrictlyDown
<1>3. TypeOK
  <2>1. op \in Ops
    BY DEF Init, Ops
  <2>2. store \in [Keys -> {"none", "record", "DELE"}] /\ crashes \in 0..MaxCrashes
    BY DEF Init
  <2> QED  BY <1>1, <2>1, <2>2 DEF Init, TypeOK
<1>4. Idle.kind = "idle" /\ Live = {}
  BY DEF Init, Idle, Live
<1>5. Exact
  BY <1>1, <1>2, <1>4 DEF Init, Exact, Sound, Taken, DeletingFreed, ImportSound
<1>6. Covered /\ ImportCovers
  BY <1>1, <1>4 DEF Init, Covered, ImportCovers
<1> QED  BY <1>2, <1>3, <1>5, <1>6 DEF Init, IInv, Mirror, FreeListSorted

(* Opening, closing and dying change neither the file nor the records.           *)
LEMMA OpenXrefKeeps == ASSUME IInv, OpenXref PROVE IInv'
<1> USE MaxKeyAssumption DEF IInv, OpenXref
<1>1. file \in DeleteSets(MaxKey) /\ StrictlyDown(file.free) /\ file.free \in Seq(1..MaxKey)
  BY DEF TypeOK, FreeListSorted, DeleteSets
<1>2. SortXref(file.free) = file.free
  BY <1>1, SortedStays
<1>3. set' = file
  BY <1>1, <1>2 DEF DeleteSets
<1>4. TypeOK' /\ Mirror' /\ FreeListSorted'
  BY <1>1, <1>3 DEF TypeOK, Mirror, FreeListSorted
<1>5. Live' = Live /\ InFlight' = InFlight
  BY DEF Live, InFlight
<1>6. Exact => Exact'
  BY <1>5 DEF Exact, Sound, Taken, DeletingFreed, ImportSound
<1>7. Covered /\ ImportCovers => Covered' /\ ImportCovers'
  BY <1>5 DEF Covered, ImportCovers
<1> QED  BY <1>4, <1>6, <1>7

LEMMA CloseXrefKeeps == ASSUME IInv, CloseXref PROVE IInv'
<1> USE MaxKeyAssumption DEF IInv, CloseXref
<1>1. NewSet \in DeleteSets(MaxKey) /\ StrictlyDown(NewSet.free)
  BY DEF NewSet, DeleteSets, StrictlyDown
<1>2. TypeOK' /\ Mirror' /\ FreeListSorted'
  BY <1>1 DEF TypeOK, Mirror, FreeListSorted
<1>3. Live' = Live /\ InFlight' = InFlight
  BY DEF Live, InFlight
<1>4. Exact => Exact'
  BY <1>3 DEF Exact, Sound, Taken, DeletingFreed, ImportSound
<1>5. Covered /\ ImportCovers => Covered' /\ ImportCovers'
  BY <1>3 DEF Covered, ImportCovers
<1> QED  BY <1>2, <1>4, <1>5

LEMMA CrashKeeps == ASSUME IInv, Crash PROVE IInv'
<1> USE MaxKeyAssumption, MaxCrashesAssumption DEF IInv, Crash
<1>1. NewSet \in DeleteSets(MaxKey) /\ StrictlyDown(NewSet.free)
  BY DEF NewSet, DeleteSets, StrictlyDown
<1>2. crashes' # 0 /\ crashes' \in 0..MaxCrashes /\ hole' \in BOOLEAN
  BY DEF TypeOK
<1>3. TypeOK' /\ Mirror' /\ FreeListSorted'
  BY <1>1, <1>2 DEF TypeOK, Mirror, FreeListSorted, Ops
<1> QED  BY <1>2, <1>3

(* getxrefnum takes a key that no record has and that it no longer lists.        *)
LEMMA TakeKeyKeeps == ASSUME IInv, TakeKey PROVE IInv'
<1> USE MaxKeyAssumption DEF IInv
<1> DEFINE k == GetKey(file)
<1>1. set = file /\ file \in DeleteSets(MaxKey) /\ StrictlyDown(file.free) /\ k <= MaxKey
  BY DEF TakeKey, TypeOK, Mirror, FreeListSorted
<1>2. set' = GetSet(file) /\ file' = GetSet(file) /\ op' = Adding(k) /\ op = Idle
  BY <1>1 DEF TakeKey, WriteXrefs
<1>3. /\ file' \in DeleteSets(MaxKey)
      /\ StrictlyDown(file'.free)
      /\ k \in Keys
      /\ FreeKeys(file') = FreeKeys(file) \ {k}
      /\ IF file.free = << >> THEN k = file.next /\ file'.next = file.next + 1
         ELSE k \in FreeKeys(file) /\ file'.next = file.next
  BY <1>1, <1>2, GetSetTakes DEF Keys
<1>4. file.next \in 1..(MaxKey + 1)
  BY <1>1 DEF DeleteSets
<1> HIDE DEF k
<1>5. op'.kind = "adding" /\ op'.key = k /\ op' \in Ops /\ op.kind = "idle"
  BY <1>2, <1>3 DEF Adding, Idle, Ops
<1>6. TypeOK' /\ Mirror' /\ FreeListSorted'
  BY <1>2, <1>3, <1>5 DEF TypeOK, Mirror, FreeListSorted, TakeKey
<1>7. Live' = Live /\ InFlight' = {k} /\ InFlight = {} /\ crashes' = crashes /\ hole' = hole
  BY <1>5 DEF Live, InFlight, TakeKey
<1>8. ASSUME Exact PROVE Exact'
  <2>1. file.free = << >> => k \notin FreeKeys(file)
    BY <1>3, <1>4, <1>8 DEF Exact, Sound, Taken
  <2>2. \A j \in Live : j < file.next /\ j \notin FreeKeys(file)
    BY <1>2, <1>8 DEF Exact, Sound, Taken, Idle, Deleting
  <2>3. k \notin Live
    BY <1>3, <1>4, <2>2
  <2>4. k < file'.next /\ file'.next \in Nat /\ file'.next >= file.next
    <3>1. FreeKeys(file) \subseteq 1..(file.next - 1)
      BY <1>8 DEF Exact, Sound, Taken
    <3> QED  BY <1>3, <1>4, <3>1
  <2>5. \A j \in Live : j \in Keys
    BY DEF Live
  <2>6. FreeKeys(file') \subseteq 1..(file'.next - 1)
    <3>1. FreeKeys(file) \subseteq 1..(file.next - 1)
      BY <1>8 DEF Exact, Sound, Taken
    <3> QED  BY <1>3, <1>4, <2>4, <3>1
  <2>7. \A j \in Live' : j < file'.next /\ j \notin FreeKeys(file')
    BY <1>3, <1>4, <1>7, <2>2, <2>4, <2>5 DEF Keys
  <2>8. Sound'
    BY <1>3, <1>5, <1>7, <2>3, <2>4, <2>6, <2>7 DEF Sound, Taken
  <2> QED  BY <1>5, <2>8 DEF Exact, DeletingFreed, ImportSound
<1>9. ASSUME Exact, Covered PROVE Covered'
  <2>1. 1..(file'.next - 1) \subseteq 1..(file.next - 1) \cup {k}
    BY <1>3, <1>4
  <2> QED  BY <1>3, <1>7, <1>9, <2>1 DEF Covered
<1>10. ImportCovers'
  BY <1>5 DEF ImportCovers
<1> QED  BY <1>6, <1>7, <1>8, <1>9, <1>10

(* The text of the new record is stored under the key taken for it.              *)
LEMMA StoreNewKeeps == ASSUME IInv, StoreNew PROVE IInv'
<1> USE MaxKeyAssumption DEF IInv
<1> DEFINE k == op.key
<1>1. op \in Ops /\ op.kind = "adding" /\ op' = Idle /\ store \in [Keys -> {"none", "record", "DELE"}]
  BY DEF StoreNew, TypeOK
<1>2. k \in Keys /\ op = Adding(k) /\ op'.kind = "idle" /\ op' \in Ops
  BY <1>1, OpFields DEF Idle, Ops
<1>3. /\ store' = [store EXCEPT ![k] = "record"]
      /\ UNCHANGED << up, set, file, crashes, hole >>
  BY DEF StoreNew
<1>4. store' \in [Keys -> {"none", "record", "DELE"}]
  BY <1>1, <1>2, <1>3
<1>5. TypeOK' /\ Mirror' /\ FreeListSorted'
  BY <1>1, <1>2, <1>3, <1>4 DEF TypeOK, Mirror, FreeListSorted
<1> HIDE DEF k
<1>6. Live' = Live \cup {k}
  BY <1>1, <1>2, <1>3 DEF Live
<1>7. InFlight = {k} /\ InFlight' = {}
  BY <1>1, <1>2 DEF InFlight, k
<1>8. ASSUME Exact PROVE Exact'
  <2>1. \A j \in Live : j < file.next /\ j \notin FreeKeys(file)
    BY <1>1, <1>8 DEF Exact, Sound, Taken, Deleting
  <2>2. k < file.next /\ k \notin FreeKeys(file) /\ FreeKeys(file) \subseteq 1..(file.next - 1)
    BY <1>1, <1>8 DEF Exact, Sound, Taken, k
  <2>3. Sound'
    BY <1>2, <1>3, <1>6, <2>1, <2>2 DEF Sound, Taken
  <2> QED  BY <1>2, <2>3 DEF Exact, DeletingFreed, ImportSound
<1>9. ASSUME Covered PROVE Covered'
  BY <1>3, <1>6, <1>7, <1>9 DEF Covered
<1>10. ImportCovers'
  BY <1>2 DEF ImportCovers
<1> QED  BY <1>3, <1>5, <1>8, <1>9, <1>10

(* The key of a record goes to the free list before the record is overwritten.   *)
LEMMA FreeKeyKeeps == ASSUME IInv, NEW k \in Keys, FreeKey(k) PROVE IInv'
<1> USE MaxKeyAssumption DEF IInv
<1>1. set = file /\ file \in DeleteSets(MaxKey) /\ StrictlyDown(file.free)
  BY DEF FreeKey, TypeOK, Mirror, FreeListSorted
<1>2. PICK s \in AddedSets(file, k) : set' = s /\ file' = s
  BY <1>1 DEF FreeKey, WriteXrefs
<1>3. /\ op = Idle /\ op' = Deleting(k) /\ store[k] = "record"
      /\ UNCHANGED << up, store, crashes, hole >>
  BY DEF FreeKey
<1>4. /\ file' \in DeleteSets(MaxKey)
      /\ StrictlyDown(file'.free)
      /\ \/ file.next = k + 1 /\ file'.next = k /\ FreeKeys(file') = FreeKeys(file)
         \/ /\ file'.next = file.next
            /\ k \notin FreeKeys(file) /\ FreeKeys(file') = FreeKeys(file) \cup {k}
  BY <1>1, <1>2, AddedSetsAdd DEF Keys
<1>5. op'.kind = "deleting" /\ op'.key = k /\ op' \in Ops /\ op.kind = "idle"
  BY <1>3 DEF Deleting, Idle, Ops
<1>6. TypeOK' /\ Mirror' /\ FreeListSorted'
  BY <1>2, <1>3, <1>4, <1>5 DEF TypeOK, Mirror, FreeListSorted, FreeKey
<1>7. Live' = Live /\ InFlight' = {k} /\ InFlight = {} /\ k \in Live
  BY <1>3, <1>5 DEF Live, InFlight
<1>8. file.next \in 1..(MaxKey + 1) /\ k \in 1..MaxKey
  BY <1>1 DEF DeleteSets, Keys
<1>9. ASSUME Exact PROVE Exact'
  <2>1. /\ FreeKeys(file) \subseteq 1..(file.next - 1)
        /\ \A j \in Live : j < file.next /\ j \notin FreeKeys(file)
    BY <1>3, <1>9 DEF Exact, Sound, Taken, Idle, Deleting
  <2>2. \A j \in Live : op' # Deleting(j) => j # k
    BY <1>3
  <2>3. \A j \in Live : j \in 1..MaxKey
    BY DEF Live, Keys
  <2>4. FreeKeys(file') \subseteq 1..(file'.next - 1)
    BY <1>4, <1>7, <1>8, <2>1
  <2>5. \A j \in Live : j # k => j < file'.next /\ j \notin FreeKeys(file')
    BY <1>4, <1>8, <2>1, <2>3
  <2>6. Sound'
    BY <1>5, <1>7, <2>2, <2>4, <2>5 DEF Sound, Taken
  <2>7. DeletingFreed'
    BY <1>4, <1>5, <1>8 DEF DeletingFreed
  <2> QED  BY <1>5, <2>6, <2>7 DEF Exact, ImportSound
<1>10. ASSUME Covered PROVE Covered'
  <2>1. 1..(file'.next - 1) \subseteq 1..(file.next - 1)
    BY <1>4, <1>8
  <2> QED  BY <1>4, <1>7, <1>10, <2>1 DEF Covered
<1>11. ImportCovers'
  BY <1>5 DEF ImportCovers
<1> QED  BY <1>3, <1>6, <1>9, <1>10, <1>11

LEMMA StoreDeleKeeps == ASSUME IInv, StoreDele PROVE IInv'
<1> USE MaxKeyAssumption DEF IInv
<1> DEFINE k == op.key
<1>1. op \in Ops /\ op.kind = "deleting" /\ op' = Idle /\ store \in [Keys -> {"none", "record", "DELE"}]
  BY DEF StoreDele, TypeOK
<1>2. k \in Keys /\ op = Deleting(k) /\ op'.kind = "idle" /\ op' \in Ops
  BY <1>1, OpFields DEF Idle, Ops
<1>3. /\ store' = [store EXCEPT ![k] = "DELE"]
      /\ UNCHANGED << up, set, file, crashes, hole >>
  BY DEF StoreDele
<1>4. store' \in [Keys -> {"none", "record", "DELE"}]
  BY <1>1, <1>2, <1>3
<1>5. TypeOK' /\ Mirror' /\ FreeListSorted'
  BY <1>1, <1>2, <1>3, <1>4 DEF TypeOK, Mirror, FreeListSorted
<1> HIDE DEF k
<1>6. Live' = Live \ {k}
  BY <1>1, <1>2, <1>3 DEF Live
<1>7. InFlight = {k} /\ InFlight' = {}
  BY <1>1, <1>2 DEF InFlight, k
<1>8. file.next \in 1..(MaxKey + 1) /\ k \in 1..MaxKey
  BY <1>2 DEF TypeOK, DeleteSets, Keys
<1>9. ASSUME Exact PROVE Exact'
  <2>1. \A j \in Live : j # k => op # Deleting(j)
    BY <1>2 DEF Deleting
  <2>2. Sound'
    BY <1>2, <1>3, <1>6, <1>9, <2>1 DEF Exact, Sound, Taken
  <2> QED  BY <1>2, <2>2 DEF Exact, DeletingFreed, ImportSound
<1>10. ASSUME Exact, Covered PROVE Covered'
  <2>1. k \in FreeKeys(file) \/ k >= file.next
    BY <1>1, <1>10 DEF Exact, DeletingFreed, k
  <2> QED  BY <1>3, <1>6, <1>7, <1>8, <1>10, <2>1 DEF Covered
<1>11. ImportCovers'
  BY <1>2 DEF ImportCovers
<1> QED  BY <1>3, <1>5, <1>9, <1>10, <1>11

(* "Tried to add already-deleted record" ends the process and writes nothing.    *)
LEMMA FreeKeyTwiceKeeps == ASSUME IInv, NEW k \in Keys, FreeKeyTwice(k) PROVE IInv'
<1> USE MaxKeyAssumption DEF IInv, FreeKeyTwice
<1>1. NewSet \in DeleteSets(MaxKey) /\ StrictlyDown(NewSet.free)
  BY DEF NewSet, DeleteSets, StrictlyDown
<1>2. TypeOK' /\ Mirror' /\ FreeListSorted'
  BY <1>1 DEF TypeOK, Mirror, FreeListSorted
<1>3. Live' = Live /\ InFlight' = InFlight
  BY DEF Live, InFlight
<1>4. Exact => Exact'
  BY <1>3 DEF Exact, Sound, Taken, DeletingFreed, ImportSound
<1>5. Covered /\ ImportCovers => Covered' /\ ImportCovers'
  BY <1>3 DEF Covered, ImportCovers
<1> QED  BY <1>2, <1>4, <1>5

(* An import under new keys begins with no key taken, and ends with none left.    *)
LEMMA LoadBeginKeeps == ASSUME IInv, LoadBegin PROVE IInv'
<1> USE MaxKeyAssumption DEF IInv, LoadBegin
<1>1. op'.kind = "loading" /\ op'.keyed = {} /\ op' \in Ops /\ op.kind = "idle"
  BY DEF Loading, Idle, Ops
<1>2. TypeOK' /\ Mirror' /\ FreeListSorted'
  BY <1>1 DEF TypeOK, Mirror, FreeListSorted
<1>3. Live' = Live /\ InFlight' = {} /\ InFlight = {} /\ Taken(op') = {}
  BY <1>1 DEF Live, InFlight, Taken
<1>4. ASSUME Exact PROVE Exact'
  <2>1. \A j \in Live : j < file.next /\ j \notin FreeKeys(file)
    BY <1>4 DEF Exact, Sound, Idle, Deleting
  <2>2. Sound'
    BY <1>3, <1>4, <2>1 DEF Exact, Sound
  <2> QED  BY <1>1, <2>2 DEF Exact, DeletingFreed, ImportSound
<1>5. Covered => Covered' /\ ImportCovers'
  BY <1>1, <1>3 DEF Covered, ImportCovers
<1> QED  BY <1>2, <1>4, <1>5

LEMMA LoadEndKeeps == ASSUME IInv, LoadEnd PROVE IInv'
<1> USE MaxKeyAssumption DEF IInv, LoadEnd
<1>1. op'.kind = "idle" /\ op' \in Ops /\ op.kind = "loading" /\ op.keyed = {}
  BY DEF Loading, Idle, Ops
<1>2. TypeOK' /\ Mirror' /\ FreeListSorted'
  BY <1>1 DEF TypeOK, Mirror, FreeListSorted
<1>3. Live' = Live /\ InFlight' = {} /\ InFlight = {} /\ Taken(op') = {}
  BY <1>1 DEF Live, InFlight, Taken
<1>4. ASSUME Exact PROVE Exact'
  <2>1. \A j \in Live : j < file.next /\ j \notin FreeKeys(file)
    BY <1>1, <1>4 DEF Exact, Sound, Deleting
  <2>2. Sound'
    BY <1>3, <1>4, <2>1 DEF Exact, Sound
  <2> QED  BY <1>1, <2>2 DEF Exact, DeletingFreed, ImportSound
<1>5. Covered => Covered' /\ ImportCovers'
  BY <1>1, <1>3 DEF Covered, ImportCovers
<1> QED  BY <1>2, <1>4, <1>5

(* A key taken ahead of its record is new: no record has it, no list, and none    *)
(* of those taken before it is that key.                                          *)
LEMMA LoadKeyKeeps == ASSUME IInv, LoadKey PROVE IInv'
<1> USE MaxKeyAssumption DEF IInv
<1> DEFINE k == GetKey(file)
<1>1. set = file /\ file \in DeleteSets(MaxKey) /\ StrictlyDown(file.free) /\ k <= MaxKey
  BY DEF LoadKey, TypeOK, Mirror, FreeListSorted
<1>2. /\ set' = GetSet(file) /\ file' = GetSet(file) /\ op' = Loading(op.keyed \cup {k})
      /\ op.kind = "loading" /\ op \in Ops
  BY <1>1 DEF LoadKey, WriteXrefs, TypeOK
<1>3. /\ file' \in DeleteSets(MaxKey)
      /\ StrictlyDown(file'.free)
      /\ k \in Keys
      /\ FreeKeys(file') = FreeKeys(file) \ {k}
      /\ IF file.free = << >> THEN k = file.next /\ file'.next = file.next + 1
         ELSE k \in FreeKeys(file) /\ file'.next = file.next
  BY <1>1, <1>2, GetSetTakes DEF Keys
<1>4. file.next \in 1..(MaxKey + 1)
  BY <1>1 DEF DeleteSets
<1> HIDE DEF k
<1>5. op.keyed \in SUBSET Keys
  BY <1>2, OpFields
<1>6. op'.kind = "loading" /\ op'.keyed = op.keyed \cup {k} /\ op' \in Ops
  BY <1>2, <1>3, <1>5 DEF Loading, Ops
<1>7. TypeOK' /\ Mirror' /\ FreeListSorted'
  BY <1>2, <1>3, <1>6 DEF TypeOK, Mirror, FreeListSorted, LoadKey
<1>8. /\ Live' = Live /\ InFlight = op.keyed /\ InFlight' = op.keyed \cup {k}
      /\ Taken(op) = op.keyed /\ Taken(op') = op.keyed \cup {k}
      /\ crashes' = crashes /\ hole' = hole
  BY <1>2, <1>6 DEF Live, InFlight, Taken, LoadKey
<1>9. ASSUME Exact PROVE Exact'
  <2>1. FreeKeys(file) \subseteq 1..(file.next - 1)
    BY <1>9 DEF Exact, Sound
  <2>2. /\ \A j \in Live : j < file.next /\ j \notin FreeKeys(file) /\ j \in Keys
        /\ \A j \in op.keyed : /\ j \notin Live /\ j \notin FreeKeys(file)
                              /\ j < file.next /\ j \in Keys
    BY <1>2, <1>5, <1>8, <1>9 DEF Exact, Sound, Deleting, Live
  <2>3. k \notin Live
    BY <1>3, <1>4, <2>2
  <2>4. k < file'.next /\ file'.next \in Nat /\ file'.next >= file.next
    BY <1>3, <1>4, <2>1
  <2>5. FreeKeys(file') \subseteq 1..(file'.next - 1)
    BY <1>3, <1>4, <2>1, <2>4
  <2>6. \A j \in Live' : j < file'.next /\ j \notin FreeKeys(file')
    BY <1>3, <1>4, <1>8, <2>2, <2>4 DEF Keys
  <2>7. \A j \in Taken(op') : j \notin Live' /\ j \notin FreeKeys(file') /\ j < file'.next
    BY <1>3, <1>4, <1>8, <2>2, <2>3, <2>4 DEF Keys
  <2>8. Sound'
    BY <2>5, <2>6, <2>7 DEF Sound
  <2> QED  BY <1>6, <2>8 DEF Exact, DeletingFreed, ImportSound
<1>10. ASSUME Covered PROVE Covered'
  <2>1. 1..(file'.next - 1) \subseteq 1..(file.next - 1) \cup {k}
    BY <1>3, <1>4
  <2> QED  BY <1>3, <1>8, <1>10, <2>1 DEF Covered
<1>11. ImportCovers'
  BY <1>6 DEF ImportCovers
<1> QED  BY <1>7, <1>8, <1>9, <1>10, <1>11

(* One of the records met is read and stored under its key.                       *)
LEMMA LoadStoreKeeps == ASSUME IInv, NEW k \in Keys, LoadStore(k) PROVE IInv'
<1> USE MaxKeyAssumption DEF IInv
<1>1. /\ op \in Ops /\ op.kind = "loading" /\ k \in op.keyed
      /\ op' = Loading(op.keyed \ {k})
      /\ store \in [Keys -> {"none", "record", "DELE"}]
      /\ store' = [store EXCEPT ![k] = "record"]
      /\ UNCHANGED << up, set, file, crashes, hole >>
  BY DEF LoadStore, TypeOK
<1>2. op.keyed \in SUBSET Keys
  BY <1>1, OpFields
<1>3. op'.kind = "loading" /\ op'.keyed = op.keyed \ {k} /\ op' \in Ops
  BY <1>1, <1>2 DEF Loading, Ops
<1>4. store' \in [Keys -> {"none", "record", "DELE"}]
  BY <1>1
<1>5. TypeOK' /\ Mirror' /\ FreeListSorted'
  BY <1>1, <1>3, <1>4 DEF TypeOK, Mirror, FreeListSorted, LoadStore
<1>6. Live' = Live \cup {k}
  BY <1>1 DEF Live
<1>7. /\ InFlight = op.keyed /\ InFlight' = op.keyed \ {k}
      /\ Taken(op) = op.keyed /\ Taken(op') = op.keyed \ {k}
  BY <1>1, <1>3 DEF InFlight, Taken
<1>8. ASSUME Exact PROVE Exact'
  <2>1. \A j \in Live : j < file.next /\ j \notin FreeKeys(file)
    BY <1>1, <1>8 DEF Exact, Sound, Deleting
  <2>2. \A j \in op.keyed : j \notin Live /\ j \notin FreeKeys(file) /\ j < file.next
    BY <1>7, <1>8 DEF Exact, Sound
  <2>3. FreeKeys(file') \subseteq 1..(file'.next - 1)
    BY <1>1, <1>8 DEF Exact, Sound
  <2>4. \A j \in Live' : j < file'.next /\ j \notin FreeKeys(file')
    BY <1>1, <1>6, <2>1, <2>2
  <2>5. \A j \in Taken(op') : j \notin Live' /\ j \notin FreeKeys(file') /\ j < file'.next
    BY <1>1, <1>6, <1>7, <2>2
  <2>6. Sound'
    BY <2>3, <2>4, <2>5 DEF Sound
  <2> QED  BY <1>3, <2>6 DEF Exact, DeletingFreed, ImportSound
<1>9. ASSUME Covered PROVE Covered'
  BY <1>1, <1>6, <1>7, <1>9 DEF Covered
<1>10. ImportCovers'
  BY <1>3 DEF ImportCovers
<1> QED  BY <1>1, <1>5, <1>8, <1>9, <1>10

(* An import begins in a database without records: num_set is 0 only when every  *)
(* number below recs[0] is free, so that no record has one.                      *)
LEMMA ImportBeginKeeps ==
    ASSUME IInv, NEW S \in (SUBSET Keys) \ {{}}, ImportBegin(S) PROVE IInv'
<1> USE MaxKeyAssumption DEF IInv
<1> DEFINE top == HighestOf(S)
<1>1. /\ set = file /\ file \in DeleteSets(MaxKey) /\ StrictlyDown(file.free) /\ op = Idle
      /\ NumSet(file) <= 0
      /\ op' = Importing(S, {}, 1..top \ S)
      /\ hole' = (hole \/ file.next > top + 1)
      /\ UNCHANGED << up, set, file, store, crashes >>
  BY DEF ImportBegin, TypeOK, Mirror, FreeListSorted
<1>2. top \in S /\ \A k \in S : k <= top
  BY HighestExists
<1>3. file.next \in 1..(MaxKey + 1)
  BY <1>1 DEF DeleteSets
<1> HIDE DEF top
<1>4. /\ op'.kind = "import" /\ op'.todo = S /\ op'.keyed = {} /\ op'.gaps = 1..top \ S
      /\ op' \in Ops /\ op.kind = "idle"
  <2>1. 1..top \ S \in SUBSET Keys
    BY <1>2 DEF Keys
  <2> QED  BY <1>1, <2>1 DEF Importing, Idle, Ops
<1>5. TypeOK' /\ Mirror' /\ FreeListSorted'
  BY <1>1, <1>4 DEF TypeOK, Mirror, FreeListSorted, ImportBegin
<1>6. Live' = Live /\ InFlight' = 1..top /\ InFlight = {}
  <2>1. S \subseteq 1..top
    BY <1>2 DEF Keys
  <2>2. S \cup (1..top \ S) = 1..top
    BY <2>1
  <2> QED  BY <1>1, <1>4, <2>2 DEF Live, InFlight
<1>7. ASSUME Exact PROVE Live = {} /\ FreeKeys(file) = 1..(file.next - 1)
  <2>1. FreeKeys(file) \subseteq 1..(file.next - 1)
    BY <1>7 DEF Exact, Sound, Taken
  <2>2. FreeKeys(file) = 1..(file.next - 1)
    BY <1>1, <2>1, NumSetZeroAllFree
  <2>3. \A j \in Live : j < file.next /\ j \notin FreeKeys(file) /\ j \in 1..MaxKey
    BY <1>1, <1>7 DEF Exact, Sound, Taken, Idle, Deleting, Live, Keys
  <2> QED  BY <1>3, <2>2, <2>3
<1>8. ASSUME Exact PROVE Exact'
  <2>1. Sound'
    BY <1>1, <1>4, <1>6, <1>7, <1>8 DEF Exact, Sound, Taken
  <2>2. \A g \in 1..top \ S : g < top
    BY <1>2 DEF Keys
  <2>3. ImportSound'
    BY <1>1, <1>2, <1>4, <1>6, <1>7, <1>8, <2>2 DEF ImportSound
  <2> QED  BY <1>4, <2>1, <2>3 DEF Exact, DeletingFreed
<1>9. ASSUME Covered, Exact, ~hole' PROVE Covered' /\ ImportCovers'
  <2>1. file.next <= top + 1
    <3>1. ~(file.next > top + 1)
      BY <1>1, <1>9, Zenon
    <3> QED  BY <1>2, <1>3, <3>1 DEF Keys
  <2>2. S \subseteq 1..top
    BY <1>2 DEF Keys
  <2>3. top \in Keys
    BY <1>2
  <2>4. ImportCovers'
    BY <1>1, <1>4, <1>6, <2>1, <2>2, <2>3 DEF ImportCovers
  <2>5. Covered'
    BY <1>1, <1>6, <1>9 DEF Covered
  <2> QED  BY <2>4, <2>5
<1> QED  BY <1>1, <1>5, <1>8, <1>9

(* A key of the GEDCOM file becomes a key of the database.                       *)
LEMMA ImportKeyKeeps == ASSUME IInv, NEW k \in Keys, ImportKey(k) PROVE IInv'
<1> USE MaxKeyAssumption DEF IInv
<1>1. /\ set = file /\ file \in DeleteSets(MaxKey)
      /\ op \in Ops /\ op.kind = "import" /\ k \in op.todo
      /\ set' = KeepKey(file, k) /\ file' = KeepKey(file, k)
      /\ op' = [op EXCEPT !.todo = @ \ {k}, !.keyed = @ \cup {k}]
      /\ UNCHANGED << up, store, crashes, hole >>
  BY DEF ImportKey, WriteXrefs, TypeOK, Mirror
<1>2. /\ op.todo \subseteq Keys /\ op.keyed \subseteq Keys /\ op.gaps \subseteq Keys
      /\ op = Importing(op.todo, op.keyed, op.gaps)
  BY <1>1, OpFields
<1>3. /\ op'.kind = "import" /\ op'.todo = op.todo \ {k} /\ op'.keyed = op.keyed \cup {k}
      /\ op'.gaps = op.gaps /\ op' \in Ops
  BY <1>1, <1>2 DEF Importing, Ops
<1>4. /\ file' \in DeleteSets(MaxKey)
      /\ StrictlyDown(file'.free)
      /\ FreeKeys(file') = {}
      /\ file'.next = IF k >= file.next THEN k + 1 ELSE file.next
  BY <1>1, KeepKeyKeeps DEF Keys
<1>5. file.next \in 1..(MaxKey + 1) /\ k \in 1..MaxKey
  BY <1>1 DEF DeleteSets, Keys
<1>6. TypeOK' /\ Mirror' /\ FreeListSorted'
  BY <1>1, <1>3, <1>4 DEF TypeOK, Mirror, FreeListSorted, ImportKey
<1>7. /\ Live' = Live /\ InFlight' = InFlight
      /\ InFlight = op.todo \cup op.keyed \cup op.gaps
  BY <1>1, <1>3 DEF Live, InFlight
<1>8. file'.next \in Nat /\ file'.next >= file.next /\ k < file'.next
  BY <1>4, <1>5
<1>9. ASSUME Exact PROVE Exact'
  <2>1. \A j \in Live : j < file.next /\ j \in 1..MaxKey
    BY <1>1, <1>9 DEF Exact, Sound, Taken, Deleting, Live, Keys
  <2>2. Sound'
    BY <1>3, <1>4, <1>5, <1>7, <1>8, <2>1 DEF Sound, Taken
  <2>3. ImportSound
    BY <1>9 DEF Exact
  <2>4. op'.keyed \subseteq 1..(file'.next - 1)
    BY <1>1, <1>3, <1>5, <1>8, <2>3 DEF ImportSound
  <2>5. \A g \in op'.gaps : g < file'.next \/ \E t \in op'.todo : g < t
    <3> TAKE g \in op'.gaps
    <3>1. g \in 1..MaxKey
      BY <1>2, <1>3 DEF Keys
    <3>2. g < file.next \/ \E t \in op.todo : g < t
      BY <1>1, <1>3, <2>3 DEF ImportSound
    <3>3. CASE g < file.next
      BY <1>5, <1>8, <3>1, <3>3
    <3>4. CASE \E t \in op.todo : g < t
      BY <1>3, <1>5, <1>8, <3>1, <3>4
    <3> QED  BY <3>2, <3>3, <3>4
  <2>6. ImportSound'
    BY <1>1, <1>3, <1>4, <1>7, <2>3, <2>4, <2>5 DEF ImportSound
  <2> QED  BY <1>3, <2>2, <2>6 DEF Exact, DeletingFreed
<1>10. ASSUME Covered, ImportCovers PROVE Covered' /\ ImportCovers'
  <2>1. PICK top \in Keys : /\ file.next <= top + 1
                            /\ op.todo \subseteq 1..top
                            /\ 1..top \subseteq Live \cup op.todo \cup op.keyed \cup op.gaps
    BY <1>1, <1>10 DEF ImportCovers
  <2>2. top \in 1..MaxKey /\ k <= top
    BY <1>1, <2>1 DEF Keys
  <2>3. file'.next <= top + 1
    BY <1>4, <1>5, <2>1, <2>2
  <2>4. 1..(file'.next - 1) \subseteq 1..top
    BY <1>8, <2>2, <2>3
  <2>5. Covered'
    BY <1>7, <2>1, <2>4 DEF Covered
  <2>6. ImportCovers'
    BY <1>3, <1>7, <2>1, <2>3 DEF ImportCovers
  <2> QED  BY <2>5, <2>6
<1> QED  BY <1>1, <1>6, <1>9, <1>10

LEMMA ImportStoreKeeps == ASSUME IInv, NEW k \in Keys, ImportStore(k) PROVE IInv'
<1> USE MaxKeyAssumption DEF IInv
<1>1. /\ op \in Ops /\ op.kind = "import" /\ k \in op.keyed
      /\ store \in [Keys -> {"none", "record", "DELE"}]
      /\ store' = [store EXCEPT ![k] = "record"]
      /\ op' = [op EXCEPT !.keyed = @ \ {k}]
      /\ UNCHANGED << up, set, file, crashes, hole >>
  BY DEF ImportStore, TypeOK
<1>2. /\ op.todo \subseteq Keys /\ op.keyed \subseteq Keys /\ op.gaps \subseteq Keys
      /\ op = Importing(op.todo, op.keyed, op.gaps)
  BY <1>1, OpFields
<1>3. /\ op'.kind = "import" /\ op'.todo = op.todo /\ op'.keyed = op.keyed \ {k}
      /\ op'.gaps = op.gaps /\ op' \in Ops
  BY <1>1, <1>2 DEF Importing, Ops
<1>4. store' \in [Keys -> {"none", "record", "DELE"}]
  BY <1>1
<1>5. TypeOK' /\ Mirror' /\ FreeListSorted'
  BY <1>1, <1>3, <1>4 DEF TypeOK, Mirror, FreeListSorted, ImportStore
<1>6. Live' = Live \cup {k}
  BY <1>1 DEF Live
<1>7. InFlight' = op'.todo \cup op'.keyed \cup op'.gaps /\ InFlight = op.todo \cup op.keyed \cup op.gaps
  BY <1>1, <1>3 DEF InFlight
<1>8. file.next \in 1..(MaxKey + 1) /\ k \in 1..MaxKey
  BY DEF TypeOK, DeleteSets, Keys
<1>9. ASSUME Exact PROVE Exact'
  <2>1. \A j \in Live : j < file.next /\ j \notin FreeKeys(file)
    BY <1>1, <1>9 DEF Exact, Sound, Taken, Deleting
  <2>2. ImportSound
    BY <1>9 DEF Exact
  <2>3. k \in 1..(file.next - 1) /\ k \notin FreeKeys(file)
    BY <1>1, <2>2 DEF ImportSound
  <2>4. Sound'
    BY <1>1, <1>3, <1>6, <1>8, <1>9, <2>1, <2>3 DEF Exact, Sound, Taken
  <2>5. ImportSound'
    BY <1>1, <1>3, <1>6, <2>2 DEF ImportSound
  <2> QED  BY <1>3, <2>4, <2>5 DEF Exact, DeletingFreed
<1>10. ASSUME Covered PROVE Covered'
  BY <1>1, <1>3, <1>6, <1>7, <1>10 DEF Covered
<1>11. ASSUME ImportCovers PROVE ImportCovers'
  BY <1>1, <1>3, <1>6, <1>11 DEF ImportCovers
<1> QED  BY <1>1, <1>5, <1>9, <1>10, <1>11

(* addmissingkeys: the numbers the file does not use go to the free list.        *)
LEMMA AddMissingKeyKeeps == ASSUME IInv, AddMissingKey PROVE IInv'
<1> USE MaxKeyAssumption DEF IInv
<1> DEFINE k == LowestOf(op.gaps)
<1>1. /\ set = file /\ file \in DeleteSets(MaxKey) /\ StrictlyDown(file.free)
      /\ op \in Ops /\ op.kind = "import" /\ op.todo = {} /\ op.keyed = {} /\ op.gaps # {}
      /\ op' = [op EXCEPT !.gaps = @ \ {k}]
      /\ UNCHANGED << up, store, crashes, hole >>
  BY DEF AddMissingKey, TypeOK, Mirror, FreeListSorted
<1>2. /\ op.todo \subseteq Keys /\ op.keyed \subseteq Keys /\ op.gaps \subseteq Keys
      /\ op = Importing(op.todo, op.keyed, op.gaps)
  BY <1>1, OpFields
<1>3. k \in op.gaps /\ k \in Keys
  BY <1>1, <1>2, LowestExists DEF Keys
<1>4. PICK s \in AddedSets(file, k) : set' = s /\ file' = s
  BY <1>1 DEF AddMissingKey, WriteXrefs
<1> HIDE DEF k
<1>5. /\ file' \in DeleteSets(MaxKey)
      /\ StrictlyDown(file'.free)
      /\ \/ file.next = k + 1 /\ file'.next = k /\ FreeKeys(file') = FreeKeys(file)
         \/ /\ file.next # k + 1 /\ file'.next = file.next
            /\ k \notin FreeKeys(file) /\ FreeKeys(file') = FreeKeys(file) \cup {k}
  BY <1>1, <1>3, <1>4, AddedSetsAdd DEF Keys
<1>6. /\ op'.kind = "import" /\ op'.todo = {} /\ op'.keyed = {}
      /\ op'.gaps = op.gaps \ {k} /\ op' \in Ops
  BY <1>1, <1>2 DEF Importing, Ops
<1>7. TypeOK' /\ Mirror' /\ FreeListSorted'
  BY <1>1, <1>4, <1>5, <1>6 DEF TypeOK, Mirror, FreeListSorted, AddMissingKey
<1>8. Live' = Live /\ InFlight' = op.gaps \ {k} /\ InFlight = op.gaps
  BY <1>1, <1>6 DEF Live, InFlight
<1>9. file.next \in 1..(MaxKey + 1) /\ k \in 1..MaxKey
  BY <1>1, <1>3 DEF DeleteSets, Keys
<1>10. ASSUME Exact PROVE Exact'
  <2>1. \A j \in Live : j < file.next /\ j \notin FreeKeys(file) /\ j \in 1..MaxKey
    BY <1>1, <1>10 DEF Exact, Sound, Taken, Deleting, Live, Keys
  <2>2. /\ op.gaps \cap FreeKeys(file) = {}
        /\ Live \cap op.gaps = {}
        /\ \A g \in op.gaps : g < file.next /\ g \in 1..MaxKey
    BY <1>1, <1>2, <1>10 DEF Exact, ImportSound, Keys
  <2>3. k \notin Live /\ k \notin FreeKeys(file) /\ k < file.next
    BY <1>3, <2>2
  <2>4. FreeKeys(file) \subseteq 1..(file.next - 1)
    BY <1>10 DEF Exact, Sound, Taken
  <2>5. FreeKeys(file') \subseteq 1..(file'.next - 1)
    BY <1>5, <1>9, <2>3, <2>4
  <2>6. \A j \in Live : j < file'.next /\ j \notin FreeKeys(file')
    BY <1>5, <1>9, <2>1, <2>3
  <2>7. Sound'
    BY <1>6, <1>8, <2>5, <2>6 DEF Sound, Taken
  <2>8. \A g \in op'.gaps : g < file'.next /\ g \notin FreeKeys(file')
    BY <1>5, <1>6, <1>9, <2>2
  <2>9. ImportSound'
    BY <1>6, <1>8, <2>2, <2>8 DEF ImportSound
  <2> QED  BY <1>6, <2>7, <2>9 DEF Exact, DeletingFreed
<1>11. ASSUME Covered PROVE Covered'
  <2>1. 1..(file'.next - 1) \subseteq 1..(file.next - 1)
    BY <1>5, <1>9
  <2>2. k \in FreeKeys(file') \/ k \notin 1..(file'.next - 1)
    BY <1>5, <1>9
  <2>3. FreeKeys(file) \subseteq FreeKeys(file')
    BY <1>5
  <2> QED  BY <1>8, <1>11, <2>1, <2>2, <2>3 DEF Covered
<1>12. ImportCovers'
  BY <1>6 DEF ImportCovers
<1> QED  BY <1>1, <1>7, <1>10, <1>11, <1>12

LEMMA ImportEndKeeps == ASSUME IInv, ImportEnd PROVE IInv'
<1> USE MaxKeyAssumption DEF IInv, ImportEnd
<1>1. op'.kind = "idle" /\ op' \in Ops
  BY DEF Idle, Ops
<1>2. TypeOK' /\ Mirror' /\ FreeListSorted'
  BY <1>1 DEF TypeOK, Mirror, FreeListSorted
<1>3. Live' = Live /\ InFlight' = {} /\ InFlight = {}
  BY <1>1 DEF Live, InFlight
<1>4. Exact => Exact'
  BY <1>1, <1>3 DEF Exact, Sound, Taken, DeletingFreed, ImportSound, Deleting
<1>5. Covered => Covered' /\ ImportCovers'
  BY <1>1, <1>3 DEF Covered, ImportCovers
<1> QED  BY <1>2, <1>4, <1>5

-----------------------------------------------------------------------------
LEMMA NextKeeps == ASSUME IInv, [Next]_vars PROVE IInv'
<1>1. CASE OpenXref   BY <1>1, OpenXrefKeeps
<1>2. CASE CloseXref  BY <1>2, CloseXrefKeeps
<1>3. CASE Crash      BY <1>3, CrashKeeps
<1>4. CASE TakeKey    BY <1>4, TakeKeyKeeps
<1>5. CASE StoreNew   BY <1>5, StoreNewKeeps
<1>6. CASE \E k \in Keys : FreeKey(k) \/ FreeKeyTwice(k)
  BY <1>6, FreeKeyKeeps, FreeKeyTwiceKeeps
<1>7. CASE StoreDele  BY <1>7, StoreDeleKeeps
<1>8. CASE \E S \in (SUBSET Keys) \ {{}} : ImportBegin(S)
  BY <1>8, ImportBeginKeeps
<1>9. CASE \E k \in Keys : ImportKey(k) \/ ImportStore(k)
  BY <1>9, ImportKeyKeeps, ImportStoreKeeps
<1>10. CASE AddMissingKey  BY <1>10, AddMissingKeyKeeps
<1>11. CASE ImportEnd      BY <1>11, ImportEndKeeps
<1>13. CASE LoadBegin \/ LoadKey \/ LoadEnd
  BY <1>13, LoadBeginKeeps, LoadKeyKeeps, LoadEndKeeps
<1>14. CASE \E k \in Keys : LoadStore(k)
  BY <1>14, LoadStoreKeeps
<1>12. CASE UNCHANGED vars
  <2> USE <1>12 DEF vars
  <2>1. Live' = Live /\ InFlight' = InFlight
    BY DEF Live, InFlight
  <2>2. TypeOK' /\ Mirror' /\ FreeListSorted'
    BY DEF IInv, TypeOK, Mirror, FreeListSorted
  <2>3. Exact => Exact'
    BY <2>1 DEF Exact, Sound, Taken, DeletingFreed, ImportSound
  <2>4. Covered /\ ImportCovers => Covered' /\ ImportCovers'
    BY <2>1 DEF Covered, ImportCovers
  <2> QED  BY <2>2, <2>3, <2>4 DEF IInv
<1> QED
  BY <1>1, <1>2, <1>3, <1>4, <1>5, <1>6, <1>7, <1>8, <1>9, <1>10, <1>11, <1>12, <1>13, <1>14
  DEF Next

THEOREM Invariance == Spec => []IInv
<1>1. Init => IInv
  BY InitHolds
<1>2. IInv /\ [Next]_vars => IInv'
  BY NextKeeps
<1> QED  BY <1>1, <1>2, PTL DEF Spec

(* The variables keep their types: in particular no key above MaxKey, and none   *)
(* below 1, is ever listed or handed out, whatever the crashes.                  *)
THEOREM TypeCorrect == Spec => []TypeOK
<1>1. IInv => TypeOK
  BY DEF IInv
<1> QED  BY <1>1, Invariance, PTL

(* The free list is strictly descending in memory and in the file, after any     *)
(* number of crashes: what find_slot and xref_isvalid_impl take for granted.     *)
THEOREM FreeListStaysSorted == Spec => []FreeListSorted
<1>1. IInv => FreeListSorted
  BY DEF IInv
<1> QED  BY <1>1, Invariance, PTL

(* Until the first crash the delete set tells exactly which keys are in use.     *)
THEOREM DeleteSetAccounts == Spec => []Accounted
<1>1. IInv => Accounted
  BY DEF IInv, Exact, Accounted
<1> QED  BY <1>1, Invariance, PTL

(* num_set is the number of live records, of any database without a crash or an  *)
(* import that left numbers unused.                                              *)
LEMMA CountIsExact == ASSUME IInv PROVE NumSetExact
<1> USE MaxKeyAssumption
<1> SUFFICES ASSUME op = Idle, crashes = 0, ~hole
             PROVE  NumSet(file) = Cardinality(Live)
  BY DEF NumSetExact
<1>1. /\ file \in DeleteSets(MaxKey) /\ StrictlyDown(file.free)
      /\ file.next \in 1..(MaxKey + 1) /\ Len(file.free) \in Nat
  BY DEF IInv, TypeOK, FreeListSorted, DeleteSets
<1>2. InFlight = {}
  BY DEF InFlight, Idle
<1>3. /\ FreeKeys(file) \subseteq 1..(file.next - 1)
      /\ \A k \in Live : k < file.next /\ k \notin FreeKeys(file) /\ k \in 1..MaxKey
      /\ 1..(file.next - 1) \subseteq Live \cup FreeKeys(file)
  BY <1>2 DEF IInv, Exact, Sound, Taken, Covered, Idle, Deleting, Live, Keys
<1>4. Live \subseteq 1..(file.next - 1)
  BY <1>1, <1>3
<1>5. Live \cap FreeKeys(file) = {} /\ Live \cup FreeKeys(file) = 1..(file.next - 1)
  BY <1>3, <1>4
<1>6. IsFiniteSet(FreeKeys(file)) /\ Cardinality(FreeKeys(file)) = Len(file.free)
  BY <1>1, FreeKeysCount
<1>7. IsFiniteSet(1..(file.next - 1)) /\ Cardinality(1..(file.next - 1)) = file.next - 1
  <2> DEFINE b == file.next - 1
  <2>1. b \in Nat
    BY <1>1
  <2>2. IsFiniteSet(1..b) /\ Cardinality(1..b) = IF 1 > b THEN 0 ELSE b - 1 + 1
    <3> HIDE DEF b
    <3> QED  BY <2>1, FS_Interval
  <2> QED  BY <2>1, <2>2
<1>8. IsFiniteSet(Live)
  BY <1>4, <1>7, FS_Subset
<1>9. Cardinality(Live \cup FreeKeys(file))
        = Cardinality(Live) + Cardinality(FreeKeys(file)) - Cardinality(Live \cap FreeKeys(file))
  BY <1>6, <1>8, FS_Union
<1>10. Cardinality(Live \cap FreeKeys(file)) = 0 /\ Cardinality(Live) \in Nat
  BY <1>5, <1>8, FS_EmptySet, FS_CardinalityType
<1>11. file.next - 1 = Cardinality(Live) + Len(file.free)
  <2> DEFINE u == Cardinality(Live \cup FreeKeys(file))
             i == Cardinality(Live \cap FreeKeys(file))
             l == Cardinality(Live)
             c == Cardinality(FreeKeys(file))
  <2>1. u = file.next - 1
    BY <1>5, <1>7, Zenon
  <2>2. u = l + c - i /\ i = 0 /\ l \in Nat /\ c = Len(file.free)
    BY <1>6, <1>9, <1>10
  <2> HIDE DEF u, i, l, c
  <2>3. file.next - 1 = l + Len(file.free)
    BY <1>1, <2>1, <2>2
  <2> QED  BY <2>3 DEF l
<1> QED  BY <1>1, <1>10, <1>11 DEF NumSet

THEOREM NumSetCounts == Spec => []NumSetExact
<1>1. IInv => NumSetExact
  BY CountIsExact
<1> QED  BY <1>1, Invariance, PTL

(* While no deletion has been cut short, getxrefnum hands out no key of a record *)
(* that exists, neither to an adding nor to an import, also in a database that   *)
(* an import left with unused numbers.                                           *)
THEOREM HandedOutIsUnused == Spec => KeyHandedOutIsUnused
<1>1. ASSUME IInv, [Next]_vars, crashes = 0
      PROVE  (Taken(op') \ Taken(op)) \cap Live = {}
  <2>1. CASE TakeKey \/ LoadKey
    <3>1. IInv' /\ crashes' = 0 /\ Live' = Live
      BY <1>1, <2>1, TakeKeyKeeps, LoadKeyKeeps DEF TakeKey, LoadKey, Live
    <3>2. \A k \in Taken(op') : k \notin Live'
      BY <3>1 DEF IInv, Exact, Sound
    <3> QED  BY <3>1, <3>2
  <2>2. CASE OpenXref \/ CloseXref \/ UNCHANGED vars \/ \E k \in Keys : FreeKeyTwice(k)
    BY <2>2 DEF OpenXref, CloseXref, vars, FreeKeyTwice
  <2>3. CASE Crash \/ StoreNew \/ StoreDele \/ ImportEnd \/ LoadEnd
    BY <2>3 DEF Crash, StoreNew, StoreDele, ImportEnd, LoadEnd, Taken, Idle
  <2>4. CASE LoadBegin
    BY <2>4 DEF LoadBegin, Taken, Loading
  <2>5. CASE \E k \in Keys : FreeKey(k)
    BY <2>5 DEF FreeKey, Taken, Deleting
  <2>6. CASE \E S \in (SUBSET Keys) \ {{}} : ImportBegin(S)
    BY <2>6 DEF ImportBegin, Taken, Importing
  <2>7. CASE AddMissingKey \/ \E k \in Keys : ImportKey(k) \/ ImportStore(k)
    <3>1. op \in Ops /\ op.kind = "import"
      BY <1>1, <2>7 DEF IInv, TypeOK, AddMissingKey, ImportKey, ImportStore
    <3>2. op = Importing(op.todo, op.keyed, op.gaps)
      BY <3>1, OpFields
    <3>3. op'.kind = "import"
      BY <2>7, <3>2 DEF AddMissingKey, ImportKey, ImportStore, Importing
    <3> QED  BY <3>3 DEF Taken
  <2>8. ASSUME NEW k \in Keys, LoadStore(k) PROVE (Taken(op') \ Taken(op)) \cap Live = {}
    BY <2>8 DEF LoadStore, Taken, Loading
  <2> QED
    BY <1>1, <2>1, <2>2, <2>3, <2>4, <2>5, <2>6, <2>7, <2>8 DEF Next
<1>2. IInv /\ [Next]_vars => [crashes = 0 => (Taken(op') \ Taken(op)) \cap Live = {}]_vars
  BY <1>1
<1> QED  BY <1>2, Invariance, PTL DEF Spec, KeyHandedOutIsUnused

-----------------------------------------------------------------------------
(***************************************************************************)
(* What a crash costs.  IInv says nothing of a database after one, so what *)
(* a crash may lose needs an invariant of its own: that a key is free      *)
(* before its record is overwritten, and that an import which leaves no    *)
(* hole accounts for every number, hold after crashes too.                 *)
(***************************************************************************)
ImportLosesNothing == ~hole /\ op.kind = "import" => Covered /\ ImportCovers

LeakInv == IInv /\ DeletingFreed /\ ImportLosesNothing

LosesNothing == ~hole' => Lost' \subseteq Lost

(* While nothing changes but the memory of the program.                          *)
LEMMA SameFiles ==
    ASSUME LeakInv, IInv', UNCHANGED << file, store, op, crashes, hole >>
    PROVE  LeakInv' /\ LosesNothing
<1>1. Live' = Live /\ InFlight' = InFlight /\ Lost' = Lost
  BY DEF Live, InFlight, Lost
<1>2. DeletingFreed' /\ ImportLosesNothing'
  BY <1>1 DEF LeakInv, DeletingFreed, ImportLosesNothing, Covered, ImportCovers
<1> QED  BY <1>1, <1>2 DEF LeakInv, LosesNothing

(* A crash loses the keys that were taken for records not stored: a key that is  *)
(* being deleted is free already.                                                *)
LEMMA CrashCosts ==
    ASSUME LeakInv, Crash PROVE LeakInv' /\ (~hole' => Lost' \ Lost \subseteq Taken(op))
<1> USE MaxKeyAssumption, MaxCrashesAssumption
<1>1. IInv /\ IInv'
  BY CrashKeeps DEF LeakInv
<1>2. op'.kind = "idle" /\ InFlight' = {} /\ Live' = Live /\ file' = file
  BY DEF Crash, Idle, InFlight, Live
<1>3. DeletingFreed' /\ ImportLosesNothing'
  BY <1>2 DEF DeletingFreed, ImportLosesNothing
<1>4. ASSUME ~hole' PROVE Lost' \ Lost \subseteq Taken(op)
  <2>1. ~hole /\ op.kind # "import" /\ op \in Ops
    BY <1>1, <1>4 DEF Crash, IInv, TypeOK
  <2>2. Lost' \ Lost \subseteq InFlight /\ Lost' \subseteq 1..(file.next - 1) \ FreeKeys(file)
    BY <1>2 DEF Lost
  <2>3. CASE op.kind \in {"idle", "adding", "loading"}
    BY <2>2, <2>3 DEF InFlight, Taken
  <2>4. CASE op.kind = "deleting"
    <3>1. InFlight = {op.key} /\ op.key \in Keys
      BY <2>1, <2>4, OpFields DEF InFlight
    <3>2. op.key \in FreeKeys(file) \/ op.key >= file.next
      BY <2>4 DEF LeakInv, DeletingFreed
    <3>3. file.next \in 1..(MaxKey + 1) /\ op.key \in 1..MaxKey
      BY <1>1, <3>1 DEF IInv, TypeOK, DeleteSets, Keys
    <3>4. op.key \notin 1..(file.next - 1) \ FreeKeys(file)
      BY <3>2, <3>3
    <3> QED  BY <2>2, <3>1, <3>4
  <2> QED  BY <2>1, <2>3, <2>4, OpFields
<1> QED  BY <1>1, <1>3, <1>4 DEF LeakInv

(* A key that is taken, and one that is freed, stays accounted for: it goes from *)
(* the unused numbers or the free list to the operation, and from there to a     *)
(* record, or from a record to the operation and to the free list.               *)
LEMMA TakeKeyCosts == ASSUME LeakInv, TakeKey PROVE LeakInv' /\ LosesNothing
<1> USE MaxKeyAssumption
<1> DEFINE k == GetKey(file)
<1>1. IInv /\ IInv'
  BY TakeKeyKeeps DEF LeakInv
<1>2. set = file /\ file \in DeleteSets(MaxKey) /\ StrictlyDown(file.free) /\ k <= MaxKey
  BY <1>1 DEF TakeKey, IInv, TypeOK, Mirror, FreeListSorted
<1>3. file' = GetSet(file) /\ op' = Adding(k) /\ op = Idle
  BY <1>2 DEF TakeKey, WriteXrefs
<1>4. /\ k \in Keys
      /\ FreeKeys(file') = FreeKeys(file) \ {k}
      /\ IF file.free = << >> THEN k = file.next /\ file'.next = file.next + 1
         ELSE k \in FreeKeys(file) /\ file'.next = file.next
  BY <1>2, <1>3, GetSetTakes DEF Keys
<1>5. file.next \in 1..(MaxKey + 1)
  BY <1>2 DEF DeleteSets
<1> HIDE DEF k
<1>6. op'.kind = "adding" /\ op'.key = k /\ op.kind = "idle"
  BY <1>3 DEF Adding, Idle
<1>7. Live' = Live /\ InFlight' = {k} /\ InFlight = {} /\ crashes' = crashes /\ hole' = hole
  BY <1>6 DEF Live, InFlight, TakeKey
<1>8. 1..(file'.next - 1) \subseteq 1..(file.next - 1) \cup {k}
  BY <1>4, <1>5
<1>9. Lost' \subseteq Lost
  BY <1>4, <1>7, <1>8 DEF Lost
<1>10. DeletingFreed' /\ ImportLosesNothing'
  BY <1>6 DEF DeletingFreed, ImportLosesNothing
<1>11. LosesNothing
  BY <1>9 DEF LosesNothing
<1> QED  BY <1>1, <1>10, <1>11 DEF LeakInv

LEMMA StoreNewCosts == ASSUME LeakInv, StoreNew PROVE LeakInv' /\ LosesNothing
<1> DEFINE k == op.key
<1>1. IInv /\ IInv'
  BY StoreNewKeeps DEF LeakInv
<1>2. /\ op \in Ops /\ op.kind = "adding" /\ op' = Idle
      /\ store \in [Keys -> {"none", "record", "DELE"}]
  BY <1>1 DEF StoreNew, IInv, TypeOK
<1>3. k \in Keys /\ op'.kind = "idle"
  BY <1>2, OpFields DEF Idle
<1>4. store' = [store EXCEPT ![k] = "record"] /\ UNCHANGED << file, crashes, hole >>
  BY DEF StoreNew
<1> HIDE DEF k
<1>5. Live' = Live \cup {k}
  BY <1>2, <1>3, <1>4 DEF Live
<1>6. InFlight = {k} /\ InFlight' = {}
  BY <1>2, <1>3 DEF InFlight, k
<1>7. Lost' \subseteq Lost
  BY <1>4, <1>5, <1>6 DEF Lost
<1>8. DeletingFreed' /\ ImportLosesNothing'
  BY <1>3 DEF DeletingFreed, ImportLosesNothing
<1>9. LosesNothing
  BY <1>7 DEF LosesNothing
<1> QED  BY <1>1, <1>8, <1>9 DEF LeakInv

LEMMA FreeKeyCosts == ASSUME LeakInv, NEW k \in Keys, FreeKey(k) PROVE LeakInv' /\ LosesNothing
<1> USE MaxKeyAssumption
<1>1. IInv /\ IInv'
  BY FreeKeyKeeps DEF LeakInv
<1>2. set = file /\ file \in DeleteSets(MaxKey) /\ StrictlyDown(file.free)
  BY <1>1 DEF FreeKey, IInv, TypeOK, Mirror, FreeListSorted
<1>3. PICK s \in AddedSets(file, k) : file' = s
  BY <1>2 DEF FreeKey, WriteXrefs
<1>4. op = Idle /\ op' = Deleting(k) /\ UNCHANGED << store, crashes, hole >>
  BY DEF FreeKey
<1>5. \/ file.next = k + 1 /\ file'.next = k /\ FreeKeys(file') = FreeKeys(file)
      \/ file'.next = file.next /\ FreeKeys(file') = FreeKeys(file) \cup {k}
  BY <1>2, <1>3, AddedSetsAdd DEF Keys
<1>6. op'.kind = "deleting" /\ op'.key = k /\ op.kind = "idle"
  BY <1>4 DEF Deleting, Idle
<1>7. Live' = Live /\ InFlight' = {k} /\ InFlight = {}
  BY <1>4, <1>6 DEF Live, InFlight
<1>8. file.next \in 1..(MaxKey + 1) /\ k \in 1..MaxKey
  BY <1>2 DEF DeleteSets, Keys
<1>9. 1..(file'.next - 1) \subseteq 1..(file.next - 1) /\ FreeKeys(file) \subseteq FreeKeys(file')
  BY <1>5, <1>8
<1>10. Lost' \subseteq Lost
  BY <1>7, <1>9 DEF Lost
<1>11. DeletingFreed' /\ ImportLosesNothing'
  BY <1>5, <1>6, <1>8 DEF DeletingFreed, ImportLosesNothing
<1>12. LosesNothing
  BY <1>10 DEF LosesNothing
<1> QED  BY <1>1, <1>11, <1>12 DEF LeakInv

LEMMA StoreDeleCosts == ASSUME LeakInv, StoreDele PROVE LeakInv' /\ LosesNothing
<1> USE MaxKeyAssumption
<1> DEFINE k == op.key
<1>1. IInv /\ IInv'
  BY StoreDeleKeeps DEF LeakInv
<1>2. /\ op \in Ops /\ op.kind = "deleting" /\ op' = Idle
      /\ store \in [Keys -> {"none", "record", "DELE"}]
  BY <1>1 DEF StoreDele, IInv, TypeOK
<1>3. k \in Keys /\ op'.kind = "idle"
  BY <1>2, OpFields DEF Idle
<1>4. store' = [store EXCEPT ![k] = "DELE"] /\ UNCHANGED << file, crashes, hole >>
  BY DEF StoreDele
<1>5. k \in FreeKeys(file) \/ k >= file.next
  BY <1>2 DEF LeakInv, DeletingFreed
<1> HIDE DEF k
<1>6. Live' = Live \ {k}
  BY <1>2, <1>3, <1>4 DEF Live
<1>7. InFlight = {k} /\ InFlight' = {}
  BY <1>2, <1>3 DEF InFlight, k
<1>8. file.next \in 1..(MaxKey + 1) /\ k \in 1..MaxKey
  BY <1>1, <1>3 DEF IInv, TypeOK, DeleteSets, Keys
<1>9. Lost' \subseteq Lost
  BY <1>4, <1>5, <1>6, <1>7, <1>8 DEF Lost
<1>10. DeletingFreed' /\ ImportLosesNothing'
  BY <1>3 DEF DeletingFreed, ImportLosesNothing
<1>11. LosesNothing
  BY <1>9 DEF LosesNothing
<1> QED  BY <1>1, <1>10, <1>11 DEF LeakInv

(* When every number is accounted for, nothing is lost.                          *)
LEMMA NothingLost ==
    ASSUME ~hole' => Covered'
    PROVE  LosesNothing
  BY DEF Covered, Lost, LosesNothing

(* An import: whatever was lost before, below the highest key of its file it     *)
(* accounts for every number, and above it only when it leaves a hole.           *)
LEMMA ImportBeginCosts ==
    ASSUME LeakInv, NEW S \in (SUBSET Keys) \ {{}}, ImportBegin(S) PROVE LeakInv' /\ LosesNothing
<1> USE MaxKeyAssumption
<1> DEFINE top == HighestOf(S)
<1>1. IInv /\ IInv'
  BY ImportBeginKeeps DEF LeakInv
<1>2. /\ set = file
      /\ op' = Importing(S, {}, 1..top \ S)
      /\ hole' = (hole \/ file.next > top + 1)
      /\ UNCHANGED << file, store, crashes >>
  BY <1>1 DEF ImportBegin, IInv, TypeOK, Mirror
<1>3. top \in S /\ \A k \in S : k <= top
  BY HighestExists
<1>4. file.next \in 1..(MaxKey + 1)
  BY <1>1 DEF IInv, TypeOK, DeleteSets
<1> HIDE DEF top
<1>5. op'.kind = "import" /\ op'.todo = S /\ op'.keyed = {} /\ op'.gaps = 1..top \ S
  BY <1>2 DEF Importing
<1>6. S \subseteq 1..top /\ top \in Keys
  BY <1>3 DEF Keys
<1>7. InFlight' = 1..top
  BY <1>5, <1>6 DEF InFlight
<1>8. ASSUME ~hole' PROVE Covered' /\ ImportCovers'
  <2>1. file'.next <= top + 1 /\ top \in Nat
    <3>1. ~(file.next > top + 1)
      BY <1>2, <1>8, Zenon
    <3> QED  BY <1>2, <1>4, <1>6, <3>1 DEF Keys
  <2>2. 1..(file'.next - 1) \subseteq 1..top
    BY <1>2, <1>4, <2>1
  <2>3. Covered'
    BY <1>7, <2>2 DEF Covered
  <2>4. ImportCovers'
    BY <1>5, <1>6, <2>1 DEF ImportCovers
  <2> QED  BY <2>3, <2>4
<1>9. DeletingFreed' /\ ImportLosesNothing'
  BY <1>5, <1>8 DEF DeletingFreed, ImportLosesNothing
<1>10. LosesNothing
  BY <1>8, NothingLost
<1> QED  BY <1>1, <1>9, <1>10 DEF LeakInv

LEMMA ImportKeyCosts == ASSUME LeakInv, NEW k \in Keys, ImportKey(k) PROVE LeakInv' /\ LosesNothing
<1> USE MaxKeyAssumption
<1>1. IInv /\ IInv'
  BY ImportKeyKeeps DEF LeakInv
<1>2. /\ set = file /\ file \in DeleteSets(MaxKey)
      /\ op \in Ops /\ op.kind = "import" /\ k \in op.todo
      /\ file' = KeepKey(file, k)
      /\ op' = [op EXCEPT !.todo = @ \ {k}, !.keyed = @ \cup {k}]
      /\ UNCHANGED << store, hole >>
  BY <1>1 DEF ImportKey, WriteXrefs, IInv, TypeOK, Mirror
<1>3. /\ op.todo \subseteq Keys /\ op.keyed \subseteq Keys /\ op.gaps \subseteq Keys
      /\ op = Importing(op.todo, op.keyed, op.gaps)
  BY <1>2, OpFields
<1>4. /\ op'.kind = "import" /\ op'.todo = op.todo \ {k} /\ op'.keyed = op.keyed \cup {k}
      /\ op'.gaps = op.gaps
  BY <1>2, <1>3 DEF Importing
<1>5. file'.next = IF k >= file.next THEN k + 1 ELSE file.next
  BY <1>2, KeepKeyKeeps DEF Keys
<1>6. file.next \in 1..(MaxKey + 1) /\ k \in 1..MaxKey
  BY <1>2 DEF DeleteSets, Keys
<1>7. Live' = Live /\ InFlight' = op.todo \cup op.keyed \cup op.gaps
  BY <1>2, <1>4 DEF Live, InFlight
<1>8. ASSUME ~hole' PROVE Covered' /\ ImportCovers'
  <2>1. PICK top \in Keys : /\ file.next <= top + 1
                            /\ op.todo \subseteq 1..top
                            /\ 1..top \subseteq Live \cup op.todo \cup op.keyed \cup op.gaps
    BY <1>2, <1>8 DEF LeakInv, ImportLosesNothing, ImportCovers
  <2>2. top \in 1..MaxKey /\ k <= top
    BY <1>2, <2>1 DEF Keys
  <2>3. file'.next <= top + 1 /\ file'.next \in Nat
    BY <1>5, <1>6, <2>1, <2>2
  <2>4. 1..(file'.next - 1) \subseteq 1..top
    BY <2>2, <2>3
  <2>5. Covered'
    BY <1>7, <2>1, <2>4 DEF Covered
  <2>6. ImportCovers'
    BY <1>4, <1>7, <2>1, <2>3 DEF ImportCovers
  <2> QED  BY <2>5, <2>6
<1>9. DeletingFreed' /\ ImportLosesNothing'
  BY <1>4, <1>8 DEF DeletingFreed, ImportLosesNothing
<1>10. LosesNothing
  BY <1>8, NothingLost
<1> QED  BY <1>1, <1>9, <1>10 DEF LeakInv

LEMMA ImportStoreCosts == ASSUME LeakInv, NEW k \in Keys, ImportStore(k) PROVE LeakInv' /\ LosesNothing
<1>1. IInv /\ IInv'
  BY ImportStoreKeeps DEF LeakInv
<1>2. /\ op \in Ops /\ op.kind = "import" /\ k \in op.keyed
      /\ store \in [Keys -> {"none", "record", "DELE"}]
      /\ store' = [store EXCEPT ![k] = "record"]
      /\ op' = [op EXCEPT !.keyed = @ \ {k}]
      /\ UNCHANGED << file, crashes, hole >>
  BY <1>1 DEF ImportStore, IInv, TypeOK
<1>3. op = Importing(op.todo, op.keyed, op.gaps)
  BY <1>2, OpFields
<1>4. /\ op'.kind = "import" /\ op'.todo = op.todo /\ op'.keyed = op.keyed \ {k}
      /\ op'.gaps = op.gaps
  BY <1>2, <1>3 DEF Importing
<1>5. Live' = Live \cup {k}
  BY <1>2 DEF Live
<1>6. InFlight' = op'.todo \cup op'.keyed \cup op'.gaps /\ InFlight = op.todo \cup op.keyed \cup op.gaps
  BY <1>2, <1>4 DEF InFlight
<1>7. ASSUME ~hole' PROVE Covered' /\ ImportCovers'
  <2>1. Covered /\ ImportCovers
    BY <1>2, <1>7 DEF LeakInv, ImportLosesNothing
  <2>2. Covered'
    BY <1>2, <1>4, <1>5, <1>6, <2>1 DEF Covered
  <2>3. ImportCovers'
    BY <1>2, <1>4, <1>5, <2>1 DEF ImportCovers
  <2> QED  BY <2>2, <2>3
<1>8. DeletingFreed' /\ ImportLosesNothing'
  BY <1>4, <1>7 DEF DeletingFreed, ImportLosesNothing
<1>9. LosesNothing
  BY <1>7, NothingLost
<1> QED  BY <1>1, <1>8, <1>9 DEF LeakInv

LEMMA AddMissingKeyCosts == ASSUME LeakInv, AddMissingKey PROVE LeakInv' /\ LosesNothing
<1> USE MaxKeyAssumption
<1> DEFINE k == LowestOf(op.gaps)
<1>1. IInv /\ IInv'
  BY AddMissingKeyKeeps DEF LeakInv
<1>2. /\ set = file /\ file \in DeleteSets(MaxKey) /\ StrictlyDown(file.free)
      /\ op \in Ops /\ op.kind = "import" /\ op.todo = {} /\ op.keyed = {} /\ op.gaps # {}
      /\ op' = [op EXCEPT !.gaps = @ \ {k}]
      /\ UNCHANGED << store, hole >>
  BY <1>1 DEF AddMissingKey, IInv, TypeOK, Mirror, FreeListSorted
<1>3. op.gaps \subseteq Keys /\ op = Importing(op.todo, op.keyed, op.gaps)
  BY <1>2, OpFields
<1>4. k \in op.gaps /\ k \in Keys
  BY <1>2, <1>3, LowestExists DEF Keys
<1>5. PICK s \in AddedSets(file, k) : file' = s
  BY <1>2 DEF AddMissingKey, WriteXrefs
<1> HIDE DEF k
<1>6. \/ file.next = k + 1 /\ file'.next = k /\ FreeKeys(file') = FreeKeys(file)
      \/ file'.next = file.next /\ FreeKeys(file') = FreeKeys(file) \cup {k}
  BY <1>2, <1>4, <1>5, AddedSetsAdd DEF Keys
<1>7. op'.kind = "import" /\ op'.todo = {} /\ op'.keyed = {} /\ op'.gaps = op.gaps \ {k}
  BY <1>2, <1>3 DEF Importing
<1>8. Live' = Live /\ InFlight' = op.gaps \ {k} /\ InFlight = op.gaps
  BY <1>2, <1>7 DEF Live, InFlight
<1>9. file.next \in 1..(MaxKey + 1) /\ k \in 1..MaxKey
  BY <1>2, <1>4 DEF DeleteSets, Keys
<1>10. ASSUME ~hole' PROVE Covered'
  <2>1. Covered
    BY <1>2, <1>10 DEF LeakInv, ImportLosesNothing
  <2>2. 1..(file'.next - 1) \subseteq 1..(file.next - 1)
    BY <1>6, <1>9
  <2>3. k \in FreeKeys(file') \/ k \notin 1..(file'.next - 1)
    BY <1>6, <1>9
  <2>4. FreeKeys(file) \subseteq FreeKeys(file')
    BY <1>6
  <2> QED  BY <1>8, <2>1, <2>2, <2>3, <2>4 DEF Covered
<1>11. DeletingFreed' /\ ImportLosesNothing'
  BY <1>7, <1>10 DEF DeletingFreed, ImportLosesNothing, ImportCovers
<1>12. LosesNothing
  BY <1>10, NothingLost
<1> QED  BY <1>1, <1>11, <1>12 DEF LeakInv

LEMMA ImportEndCosts == ASSUME LeakInv, ImportEnd PROVE LeakInv' /\ LosesNothing
<1>1. IInv /\ IInv'
  BY ImportEndKeeps DEF LeakInv
<1>2. op'.kind = "idle" /\ InFlight = {} /\ UNCHANGED << file, store, crashes, hole >>
  BY DEF ImportEnd, Idle, InFlight
<1>3. Live' = Live /\ InFlight' = {} /\ Lost' \subseteq Lost
  BY <1>2 DEF Live, InFlight, Lost
<1>4. DeletingFreed' /\ ImportLosesNothing'
  BY <1>2 DEF DeletingFreed, ImportLosesNothing
<1>5. LosesNothing
  BY <1>3 DEF LosesNothing
<1> QED  BY <1>1, <1>4, <1>5 DEF LeakInv

(* The keys that an import takes ahead of its records are its own until they     *)
(* have records.                                                                 *)
LEMMA LoadBeginCosts == ASSUME LeakInv, LoadBegin PROVE LeakInv' /\ LosesNothing
<1>1. IInv'
  BY LoadBeginKeeps DEF LeakInv
<1>2. op.kind = "idle" /\ op'.kind = "loading" /\ UNCHANGED << file, store >>
  BY DEF LoadBegin, Idle, Loading
<1>3. Live' = Live /\ InFlight = {} /\ Lost' \subseteq Lost
  BY <1>2 DEF Live, InFlight, Lost
<1>4. DeletingFreed' /\ ImportLosesNothing'
  BY <1>2 DEF DeletingFreed, ImportLosesNothing
<1> QED  BY <1>1, <1>3, <1>4 DEF LeakInv, LosesNothing

LEMMA LoadEndCosts == ASSUME LeakInv, LoadEnd PROVE LeakInv' /\ LosesNothing
<1>1. IInv'
  BY LoadEndKeeps DEF LeakInv
<1>2. /\ op.kind = "loading" /\ op.keyed = {} /\ op'.kind = "idle"
      /\ UNCHANGED << file, store >>
  BY DEF LoadEnd, Idle, Loading
<1>3. Live' = Live /\ InFlight = {} /\ Lost' \subseteq Lost
  BY <1>2 DEF Live, InFlight, Lost
<1>4. DeletingFreed' /\ ImportLosesNothing'
  BY <1>2 DEF DeletingFreed, ImportLosesNothing
<1> QED  BY <1>1, <1>3, <1>4 DEF LeakInv, LosesNothing

LEMMA LoadKeyCosts == ASSUME LeakInv, LoadKey PROVE LeakInv' /\ LosesNothing
<1> USE MaxKeyAssumption
<1> DEFINE k == GetKey(file)
<1>1. IInv /\ IInv'
  BY LoadKeyKeeps DEF LeakInv
<1>2. set = file /\ file \in DeleteSets(MaxKey) /\ StrictlyDown(file.free) /\ k <= MaxKey
  BY <1>1 DEF LoadKey, IInv, TypeOK, Mirror, FreeListSorted
<1>3. file' = GetSet(file) /\ op' = Loading(op.keyed \cup {k}) /\ op.kind = "loading"
  BY <1>2 DEF LoadKey, WriteXrefs
<1>4. /\ k \in Keys
      /\ FreeKeys(file') = FreeKeys(file) \ {k}
      /\ IF file.free = << >> THEN k = file.next /\ file'.next = file.next + 1
         ELSE k \in FreeKeys(file) /\ file'.next = file.next
  BY <1>2, <1>3, GetSetTakes DEF Keys
<1>5. file.next \in 1..(MaxKey + 1)
  BY <1>2 DEF DeleteSets
<1> HIDE DEF k
<1>6. op'.kind = "loading" /\ op'.keyed = op.keyed \cup {k}
  BY <1>3 DEF Loading
<1>7. Live' = Live /\ InFlight' = op.keyed \cup {k} /\ InFlight = op.keyed
  BY <1>3, <1>6 DEF Live, InFlight, LoadKey
<1>8. 1..(file'.next - 1) \subseteq 1..(file.next - 1) \cup {k}
  BY <1>4, <1>5
<1>9. Lost' \subseteq Lost
  BY <1>4, <1>7, <1>8 DEF Lost
<1>10. DeletingFreed' /\ ImportLosesNothing'
  BY <1>6 DEF DeletingFreed, ImportLosesNothing
<1> QED  BY <1>1, <1>9, <1>10 DEF LeakInv, LosesNothing

LEMMA LoadStoreCosts ==
    ASSUME LeakInv, NEW k \in Keys, LoadStore(k) PROVE LeakInv' /\ LosesNothing
<1>1. IInv /\ IInv'
  BY LoadStoreKeeps DEF LeakInv
<1>2. /\ op.kind = "loading" /\ op' = Loading(op.keyed \ {k})
      /\ store \in [Keys -> {"none", "record", "DELE"}]
      /\ store' = [store EXCEPT ![k] = "record"] /\ UNCHANGED << file, hole >>
  BY <1>1 DEF LoadStore, IInv, TypeOK
<1>3. op'.kind = "loading" /\ op'.keyed = op.keyed \ {k}
  BY <1>2 DEF Loading
<1>4. Live' = Live \cup {k}
  BY <1>2 DEF Live
<1>5. InFlight = op.keyed /\ InFlight' = op.keyed \ {k}
  BY <1>2, <1>3 DEF InFlight
<1>6. Lost' \subseteq Lost
  BY <1>2, <1>4, <1>5 DEF Lost
<1>7. DeletingFreed' /\ ImportLosesNothing'
  BY <1>3 DEF DeletingFreed, ImportLosesNothing
<1> QED  BY <1>1, <1>6, <1>7 DEF LeakInv, LosesNothing

LEMMA NextCosts ==
    ASSUME LeakInv, [Next]_vars
    PROVE  LeakInv' /\ (LosesNothing \/ (Crash /\ (~hole' => Lost' \ Lost \subseteq Taken(op))))
<1> IInv'
  BY NextKeeps DEF LeakInv
<1>1. CASE OpenXref   BY <1>1, SameFiles DEF OpenXref
<1>2. CASE CloseXref  BY <1>2, SameFiles DEF CloseXref
<1>3. CASE Crash      BY <1>3, CrashCosts
<1>4. CASE TakeKey    BY <1>4, TakeKeyCosts
<1>5. CASE StoreNew   BY <1>5, StoreNewCosts
<1>6. CASE \E k \in Keys : FreeKey(k) \/ FreeKeyTwice(k)
  BY <1>6, FreeKeyCosts, SameFiles DEF FreeKeyTwice
<1>7. CASE StoreDele  BY <1>7, StoreDeleCosts
<1>8. CASE \E S \in (SUBSET Keys) \ {{}} : ImportBegin(S)
  BY <1>8, ImportBeginCosts
<1>9. CASE \E k \in Keys : ImportKey(k) \/ ImportStore(k)
  BY <1>9, ImportKeyCosts, ImportStoreCosts
<1>10. CASE AddMissingKey   BY <1>10, AddMissingKeyCosts
<1>11. CASE ImportEnd       BY <1>11, ImportEndCosts
<1>12. CASE LoadBegin \/ LoadKey \/ LoadEnd
  BY <1>12, LoadBeginCosts, LoadKeyCosts, LoadEndCosts
<1>13. CASE \E k \in Keys : LoadStore(k)
  BY <1>13, LoadStoreCosts
<1>14. CASE UNCHANGED vars  BY <1>14, SameFiles DEF vars
<1> QED
  BY <1>1, <1>2, <1>3, <1>4, <1>5, <1>6, <1>7, <1>8, <1>9, <1>10, <1>11, <1>12, <1>13, <1>14
  DEF Next

(* However often the program dies and at whatever step, a number that neither a  *)
(* record nor the free list has was taken by the operation that a crash cut      *)
(* short, for a record it had not stored.                                        *)
THEOREM CrashCostsOnlyTaken == Spec => CrashLosesOnlyTaken
<1>1. Init => LeakInv
  <2> SUFFICES ASSUME Init PROVE LeakInv
    OBVIOUS
  <2>1. IInv
    BY InitHolds
  <2>2. op.kind = "idle"
    BY DEF Init, Idle
  <2> QED  BY <2>1, <2>2 DEF LeakInv, DeletingFreed, ImportLosesNothing
<1>2. LeakInv /\ [Next]_vars => LeakInv'
  BY NextCosts
<1>3. ASSUME LeakInv, [Next]_vars, ~hole'
      PROVE  Lost' \ Lost \subseteq (IF crashes' # crashes THEN Taken(op) ELSE {})
  <2>1. CASE Crash
    <3>1. crashes' # crashes
      BY <1>3, <2>1 DEF Crash, LeakInv, IInv, TypeOK
    <3> QED  BY <1>3, <2>1, <3>1, CrashCosts
  <2>2. CASE LosesNothing
    BY <1>3, <2>2 DEF LosesNothing
  <2> QED  BY <1>3, <2>1, <2>2, NextCosts
<1>4. LeakInv /\ [Next]_vars =>
        [~hole' => Lost' \ Lost \subseteq (IF crashes' # crashes THEN Taken(op) ELSE {})]_vars
  BY <1>3
<1> QED  BY <1>1, <1>2, <1>4, PTL DEF Spec, CrashLosesOnlyTaken

(***************************************************************************)
(*                      dbverify and the delete sets                       *)
(***************************************************************************)

(***************************************************************************)
(* The inductive invariant.  IInv, of the allocation, does not survive the *)
(* repair, which can list a key twice: of the order of the list there is   *)
(* left that it does not rise.  Of the walks of dbverify it says where the *)
(* two cursors stand: the live records still to be compared are in order,  *)
(* those passed are below the valid key; and, if the delete set was sound, *)
(* that it still is, and that all numbers passed are accounted for.        *)
(***************************************************************************)
Sorted == HighToLow(set.free) /\ HighToLow(file.free)

Base == TypeOK /\ Mirror /\ Sorted

VerifyTypeOK ==
    verify \in { NotRunning, Died }
                 \cup [phase : {"set"}, i : 0..MaxKey, rest : Seq(Keys),
                       sound : BOOLEAN, writable : BOOLEAN]
                 \cup [phase : {"missing"}, i : 0..MaxKey,
                       sound : BOOLEAN, writable : BOOLEAN]

Walking == verify.phase \in {"set", "missing"}

\* the cursor is past k
Passed(k) == verify.i = 0 \/ k < verify.i

SoundNow ==
    /\ \A k \in Live : k < set.next /\ k \notin FreeKeys(set)
    /\ \A k \in FreeKeys(set) : k < set.next
    /\ StrictlyDown(set.free)

Rising(rest) == \A a, b \in 1..Len(rest) : a < b => rest[a] < rest[b]

Members(rest) == { rest[a] : a \in 1..Len(rest) }

Comparing ==
    verify.phase = "set" =>
      /\ Rising(verify.rest)
      /\ Members(verify.rest) \subseteq Live
      /\ \A k \in Live : k \in Members(verify.rest) \/ Passed(k)
      /\ verify.sound =>
           \A k \in 1..(set.next - 1) : Passed(k) => k \in Live \cup FreeKeys(set)

Collecting ==
    verify.phase = "missing" /\ verify.sound =>
      \A k \in 1..(set.next - 1) :
         \/ k \in Live \cup FreeKeys(set)
         \/ (\A r \in Live : r < k) /\ (Passed(k) => store[k] = "none")

RInv ==
    /\ Base
    /\ VerifyTypeOK
    /\ Walking => /\ up /\ op = Idle /\ (verify.sound => SoundNow)
                  /\ verify.i < set.next /\ verify.i \notin FreeKeys(set)
    /\ Comparing
    /\ Collecting

-----------------------------------------------------------------------------
(* What the functions of xreffile.c do to a list that does not rise, in which a  *)
(* key may stand twice.                                                          *)

LEMMA SetFields ==
    ASSUME NEW s \in DeleteSets(MaxKey)
    PROVE  /\ s.next \in 1..(MaxKey + 1) /\ s.free \in Seq(Keys) /\ Len(s.free) \in Nat
           /\ \A i \in 1..Len(s.free) : s.free[i] \in Keys /\ s.free[i] \in FreeKeys(s)
           /\ FreeKeys(s) \subseteq Keys
<1>1. s.next \in 1..(MaxKey + 1) /\ s.free \in Seq(Keys) /\ Len(s.free) \in Nat
  BY DEF DeleteSets, Keys
<1>2. \A i \in 1..Len(s.free) : s.free[i] \in Keys
  <2> HIDE DEF Keys
  <2> QED  BY <1>1
<1> QED  BY <1>1, <1>2 DEF FreeKeys

LEMMA DownIsSorted ==
    ASSUME NEW s \in DeleteSets(MaxKey), StrictlyDown(s.free)
    PROVE  HighToLow(s.free)
<1>1. \A i \in 1..Len(s.free) : s.free[i] \in Int
  BY SetFields DEF Keys
<1> QED  BY <1>1 DEF StrictlyDown, HighToLow

LEMMA NewSetSorted == NewSet \in DeleteSets(MaxKey) /\ HighToLow(NewSet.free) /\ FreeKeys(NewSet) = {}
  BY MaxKeyAssumption DEF NewSet, DeleteSets, HighToLow, FreeKeys

LEMMA GetSetSorted ==
    ASSUME NEW s \in DeleteSets(MaxKey), HighToLow(s.free), GetKey(s) <= MaxKey
    PROVE  /\ GetSet(s) \in DeleteSets(MaxKey)
           /\ HighToLow(GetSet(s).free)
           /\ GetKey(s) \in Keys
<1> USE MaxKeyAssumption
<1>1. s.next \in 1..(MaxKey + 1) /\ s.free \in Seq(1..MaxKey)
  BY DEF DeleteSets
<1>2. CASE s.free = << >>
  <2>1. GetSet(s) = [s EXCEPT !.next = @ + 1] /\ GetKey(s) = s.next
    BY <1>2 DEF GetSet, GetKey
  <2>2. GetSet(s).free = s.free /\ GetSet(s) \in DeleteSets(MaxKey)
    BY <1>1, <2>1 DEF DeleteSets
  <2> QED  BY <1>1, <2>1, <2>2 DEF Keys
<1>3. CASE s.free # << >>
  <2> DEFINE n == Len(s.free)
             shorter == [i \in 1..(n - 1) |-> s.free[i]]
  <2>1. n \in Nat /\ n >= 1
    BY <1>1, <1>3
  <2>2. shorter \in [1..(n - 1) -> 1..MaxKey]
    BY <1>1, <2>1
  <2>3. shorter \in Seq(1..MaxKey) /\ Len(shorter) = n - 1
    BY <2>1, <2>2, FunctionIsSequence
  <2>4. GetSet(s) = [s EXCEPT !.free = shorter] /\ GetKey(s) = s.free[n]
    BY <1>3 DEF GetSet, GetKey, DeleteSets
  <2>5. GetSet(s).free = shorter /\ GetSet(s) \in DeleteSets(MaxKey)
    BY <1>1, <2>3, <2>4 DEF DeleteSets
  <2>6. \A i \in 1..(n - 1) : shorter[i] = s.free[i] /\ i \in 1..n
    BY <2>1
  <2>7. HighToLow(shorter)
    <3> SUFFICES ASSUME NEW i \in 1..(n - 1), NEW j \in 1..(n - 1), i < j
                 PROVE  shorter[i] >= shorter[j]
      BY <2>3 DEF HighToLow
    <3>1. i \in 1..n /\ j \in 1..n /\ shorter[i] = s.free[i] /\ shorter[j] = s.free[j]
      BY <2>6
    <3> QED  BY <3>1 DEF HighToLow
  <2>8. s.free[n] \in Keys
    BY <1>1, <2>1 DEF Keys
  <2> QED  BY <2>4, <2>5, <2>7, <2>8
<1> QED  BY <1>2, <1>3

LEMMA AddedSorted ==
    ASSUME NEW s \in DeleteSets(MaxKey), HighToLow(s.free), NEW k \in Keys, NEW t \in AddedSets(s, k)
    PROVE  /\ t \in DeleteSets(MaxKey)
           /\ HighToLow(t.free)
           /\ \/ s.next = k + 1 /\ t.next = k /\ FreeKeys(t) = FreeKeys(s)
              \/ s.next # k + 1 /\ t.next = s.next /\ FreeKeys(t) \subseteq FreeKeys(s) \cup {k}
<1> USE MaxKeyAssumption DEF Keys
<1>1. s.next \in 1..(MaxKey + 1) /\ s.free \in Seq(1..MaxKey)
  BY DEF DeleteSets
<1>2. CASE IsTopKey(s, k)
  <2>1. t = [s EXCEPT !.next = k] /\ s.next = k + 1
    BY <1>2 DEF AddedSets, AddTop, IsTopKey
  <2>2. t.next = k /\ t.free = s.free
    BY <2>1 DEF DeleteSets
  <2>3. t \in DeleteSets(MaxKey)
    BY <1>1, <2>1 DEF DeleteSets
  <2> QED  BY <2>1, <2>2, <2>3 DEF FreeKeys
<1>3. CASE ~IsTopKey(s, k)
  <2>1. PICK lo \in Slots(k, s.free) : t = AddAt(s, k, lo)
    BY <1>3 DEF AddedSets
  <2> DEFINE n == Len(s.free)
             longer == InsertSlot(s.free, lo, k)
  <2>2. n \in Nat /\ lo \in 1..(n + 1) /\ IsSlot(k, s.free, lo)
    BY <1>1, <2>1 DEF Slots
  <2>3. \A i \in 1..n : s.free[i] \in 1..MaxKey
    BY <1>1
  <2>4. /\ \A i \in 1..(lo - 1) : s.free[i] >= k
        /\ \A i \in lo..n : s.free[i] <= k
    BY <2>2 DEF IsSlot
  <2>5. longer \in [1..(n + 1) -> 1..MaxKey]
    BY <2>2, <2>3 DEF InsertSlot
  <2>6. longer \in Seq(1..MaxKey) /\ Len(longer) = n + 1
    BY <2>2, <2>5, FunctionIsSequence
  <2>7. /\ \A i \in 1..(lo - 1) : longer[i] = s.free[i]
        /\ longer[lo] = k
        /\ \A i \in (lo + 1)..(n + 1) : longer[i] = s.free[i - 1]
    BY <2>2 DEF InsertSlot
  <2>8. t = [s EXCEPT !.free = longer]
    BY <2>1 DEF AddAt, DeleteSets
  <2>9. t.next = s.next /\ t.free = longer /\ t \in DeleteSets(MaxKey)
    BY <1>1, <2>6, <2>8 DEF DeleteSets
  <2>10. HighToLow(longer)
    <3> SUFFICES ASSUME NEW i \in 1..(n + 1), NEW j \in 1..(n + 1), i < j
                 PROVE  longer[i] >= longer[j]
      BY <2>6 DEF HighToLow
    <3> HIDE DEF longer, n
    <3>1. CASE i < lo /\ j < lo
      BY <2>2, <2>7, <3>1 DEF HighToLow, n
    <3>2. CASE i < lo /\ j = lo
      BY <2>2, <2>4, <2>7, <3>2
    <3>3. CASE i < lo /\ j > lo
      <4>1. longer[i] = s.free[i] /\ s.free[i] >= k /\ longer[j] = s.free[j - 1]
        BY <2>2, <2>4, <2>7, <3>3
      <4>2. s.free[j - 1] <= k /\ s.free[j - 1] \in 1..MaxKey /\ s.free[i] \in 1..MaxKey
        BY <2>2, <2>3, <2>4, <3>3
      <4> QED  BY <4>1, <4>2
    <3>4. CASE i = lo /\ j > lo
      <4>1. longer[j] = s.free[j - 1] /\ s.free[j - 1] <= k /\ s.free[j - 1] \in 1..MaxKey
        BY <2>2, <2>3, <2>4, <2>7, <3>4
      <4> QED  BY <2>7, <3>4, <4>1
    <3>5. CASE i > lo
      <4>1. longer[i] = s.free[i - 1] /\ longer[j] = s.free[j - 1]
        BY <2>2, <2>7, <3>5
      <4>2. i - 1 \in 1..n /\ j - 1 \in 1..n /\ i - 1 < j - 1
        BY <2>2, <3>5
      <4> QED  BY <4>1, <4>2 DEF HighToLow, n
    <3> QED  BY <2>2, <3>1, <3>2, <3>3, <3>4, <3>5
  <2>11. \A i \in 1..(n + 1) : longer[i] = k \/ \E j \in 1..n : longer[i] = s.free[j]
    <3> TAKE i \in 1..(n + 1)
    <3>1. CASE i < lo
      <4>1. i \in 1..n /\ longer[i] = s.free[i]
        BY <2>2, <2>7, <3>1
      <4> QED  BY <4>1
    <3>2. CASE i > lo
      <4>1. i - 1 \in 1..n /\ longer[i] = s.free[i - 1]
        BY <2>2, <2>7, <3>2
      <4> QED  BY <4>1
    <3> QED  BY <2>2, <2>7, <3>1, <3>2
  <2>12. FreeKeys(t) \subseteq FreeKeys(s) \cup {k}
    <3>1. FreeKeys(t) = { longer[i] : i \in 1..(n + 1) }
      BY <2>6, <2>9 DEF FreeKeys
    <3>2. FreeKeys(s) = { s.free[j] : j \in 1..n }
      BY DEF FreeKeys
    <3> HIDE DEF longer, n
    <3> QED  BY <2>11, <3>1, <3>2
  <2> QED  BY <1>3, <2>9, <2>10, <2>12 DEF IsTopKey
<1> QED  BY <1>2, <1>3

LEMMA DeletedSorted ==
    ASSUME NEW s \in DeleteSets(MaxKey), HighToLow(s.free), NEW k \in Keys, NEW t \in DeletedSets(s, k)
    PROVE  /\ t \in DeleteSets(MaxKey)
           /\ HighToLow(t.free)
           /\ t.next = s.next /\ FreeKeys(t) \subseteq FreeKeys(s)
           /\ k \notin FreeKeys(s) => t = s
<1> USE MaxKeyAssumption DEF Keys
<1> DEFINE n == Len(s.free)
           found == { l \in Slots(k, s.free) : Listed(k, s.free, l) }
<1>1. s.next \in 1..(MaxKey + 1) /\ s.free \in Seq(1..MaxKey) /\ n \in Nat
  BY DEF DeleteSets
<1>2. CASE found = {}
  BY <1>2 DEF DeletedSets
<1>3. CASE found # {}
  <2>1. PICK lo \in found : t = [s EXCEPT !.free = DropSlot(@, lo)]
    BY <1>3 DEF DeletedSets
  <2> DEFINE shorter == DropSlot(s.free, lo)
  <2>2. lo \in 1..n /\ s.free[lo] = k
    BY <1>1, <2>1 DEF Slots, Listed
  <2>3. \A i \in 1..n : s.free[i] \in 1..MaxKey
    BY <1>1
  <2>4. n - 1 \in Nat /\ shorter \in [1..(n - 1) -> 1..MaxKey]
    <3>1. \A i \in 1..(n - 1) : i \in 1..n /\ i + 1 \in 1..n
      BY <1>1
    <3>2. n - 1 \in Nat
      BY <1>1, <2>2
    <3> HIDE DEF n
    <3> QED  BY <2>3, <3>1, <3>2 DEF DropSlot, n
  <2>5. shorter \in Seq(1..MaxKey) /\ Len(shorter) = n - 1
    BY <2>4, FunctionIsSequence
  <2>6. t.next = s.next /\ t.free = shorter /\ t \in DeleteSets(MaxKey)
    BY <1>1, <2>1, <2>5 DEF DeleteSets
  <2>7. \A i \in 1..(n - 1) :
          shorter[i] = IF i >= lo /\ i + 1 < n THEN s.free[i + 1] ELSE s.free[i]
    BY DEF DropSlot
  <2>8. HighToLow(shorter)
    <3> SUFFICES ASSUME NEW i \in 1..(n - 1), NEW j \in 1..(n - 1), i < j
                 PROVE  shorter[i] >= shorter[j]
      BY <2>5 DEF HighToLow
    <3> HIDE DEF shorter
    <3> DEFINE From(x) == IF x >= lo /\ x + 1 < n THEN x + 1 ELSE x
    <3>1. shorter[i] = s.free[From(i)] /\ shorter[j] = s.free[From(j)]
      BY <2>7
    <3>2. From(i) \in 1..n /\ From(j) \in 1..n /\ (From(i) < From(j) \/ From(i) = From(j))
      BY <1>1, <2>2
    <3> HIDE DEF From
    <3>3. CASE From(i) < From(j)
      BY <3>1, <3>2, <3>3 DEF HighToLow
    <3>4. CASE From(i) = From(j)
      BY <2>3, <3>1, <3>2, <3>4
    <3> QED  BY <3>2, <3>3, <3>4
  <2>9. FreeKeys(t) \subseteq FreeKeys(s)
    <3> SUFFICES ASSUME NEW i \in 1..(n - 1)
                 PROVE  shorter[i] \in FreeKeys(s)
      BY <2>5, <2>6 DEF FreeKeys
    <3>1. i \in 1..n /\ i + 1 \in 1..n
      BY <1>1
    <3> HIDE DEF shorter
    <3> QED  BY <2>7, <3>1 DEF FreeKeys
  <2>10. k \in FreeKeys(s)
    BY <2>2 DEF FreeKeys
  <2> QED  BY <2>6, <2>8, <2>9, <2>10
<1> QED  BY <1>2, <1>3

LEMMA NotRisingStays ==
    ASSUME NEW s \in DeleteSets(MaxKey), HighToLow(s.free)
    PROVE  [s EXCEPT !.free = SortXref(@)] = s
<1>1. s = [s EXCEPT !.free = s.free]
  BY DEF DeleteSets
<1>2. FirstIsHighest(s.free)
  BY SetFields DEF HighToLow, FirstIsHighest
<1> QED  BY <1>1, <1>2 DEF SortXref

(* xref_next goes forward, and on a sound list passes over free keys only.       *)
LEMMA NextValidIs ==
    ASSUME NEW s \in DeleteSets(MaxKey), NEW i \in 0..MaxKey
    PROVE  /\ NextValid(s, i) \in 0..MaxKey /\ NextValid(s, i) < s.next
           /\ NextValid(s, i) \notin FreeKeys(s)
           /\ NextValid(s, i) # 0 => i < NextValid(s, i)
           /\ StrictlyDown(s.free) /\ (\A k \in FreeKeys(s) : k < s.next) =>
                \A k \in (i + 1)..(s.next - 1) :
                   NextValid(s, i) = 0 \/ k < NextValid(s, i) => k \in FreeKeys(s)
<1> USE MaxKeyAssumption
<1> DEFINE later == { k \in (i + 1)..(s.next - 1) : IsValid(s, k) }
           m == NextValid(s, i)
<1>1. s.next \in 1..(MaxKey + 1) /\ later \in SUBSET Nat
  BY SetFields
<1>2. later = {} => m = 0
  BY DEF NextValid
<1>3. later # {} => m \in later /\ \A k \in later : m <= k
  <2> SUFFICES ASSUME later # {} PROVE m \in later /\ \A k \in later : m <= k
    OBVIOUS
  <2>1. m = LowestOf(later)
    BY DEF NextValid, LowestOf
  <2> HIDE DEF later, m
  <2> QED  BY <1>1, <2>1, LowestExists
<1>4. m \in 0..MaxKey /\ m < s.next /\ (m # 0 => i < m)
  <2>1. \A k \in later : k \in Nat /\ i < k /\ k < s.next
    BY <1>1
  <2>2. s.next \in 1..(MaxKey + 1)
    BY <1>1
  <2> HIDE DEF later, m
  <2>3. CASE later = {}
    BY <1>2, <2>2, <2>3
  <2>4. CASE later # {}
    <3>1. m \in Nat /\ i < m /\ m < s.next
      BY <1>3, <2>1, <2>4
    <3> QED  BY <2>2, <3>1
  <2> QED  BY <2>3, <2>4
<1>5. ASSUME StrictlyDown(s.free), \A k \in FreeKeys(s) : k < s.next,
             NEW k \in (i + 1)..(s.next - 1), m = 0 \/ k < m
      PROVE  k \in FreeKeys(s)
  <2>1. k \notin later
    <3>1. k \in later => m \in later /\ m <= k
      BY <1>3
    <3>2. \A x \in later : x # 0
      OBVIOUS
    <3> HIDE DEF later, m
    <3> QED  BY <1>1, <1>4, <1>5, <3>1, <3>2
  <2>2. ~IsValid(s, k)
    BY <2>1
  <2>3. CASE NoValids(s)
    <3>1. NumSet(s) <= 0
      BY <1>1, <2>3, SetFields DEF NoValids, NumSet
    <3>2. FreeKeys(s) \subseteq 1..(s.next - 1)
      BY <1>1, <1>5, SetFields DEF Keys
    <3>3. FreeKeys(s) = 1..(s.next - 1)
      BY <1>5, <3>1, <3>2, NumSetZeroAllFree
    <3>4. k \in 1..(s.next - 1)
      BY <1>1
    <3> QED  BY <3>3, <3>4
  <2> QED  BY <2>2, <2>3 DEF IsValid
<1>6. m \notin FreeKeys(s)
  <2>1. \A k \in later : k \notin FreeKeys(s)
    BY DEF IsValid
  <2>2. 0 \notin FreeKeys(s)
    BY SetFields DEF Keys
  <2> HIDE DEF later, m
  <2> QED  BY <1>2, <1>3, <2>1, <2>2
<1> QED  BY <1>4, <1>5, <1>6

(* The live keys can be listed in order, and the list has them all.              *)
AscendsOver(q, S) ==
    /\ q \in [1..Cardinality(S) -> S]
    /\ \A a, b \in 1..Cardinality(S) : a < b => q[a] < q[b]

LEMMA KeysAreFinite ==
    ASSUME NEW S \in SUBSET Keys
    PROVE  IsFiniteSet(S) /\ Cardinality(S) \in Nat
<1>1. IsFiniteSet(Keys)
  BY MaxKeyAssumption, FS_Interval DEF Keys
<1>2. IsFiniteSet(S)
  BY <1>1, FS_Subset
<1> QED  BY <1>2, FS_CardinalityType

LEMMA ListExists ==
    ASSUME NEW S \in SUBSET Keys
    PROVE  \E q : AscendsOver(q, S)
<1> DEFINE Ok(n) == \A T \in SUBSET Keys : Cardinality(T) = n => \E q : AscendsOver(q, T)
           bad == { n \in Nat : ~Ok(n) }
<1>1. CASE bad = {}
  <2>1. Cardinality(S) \in Nat
    BY KeysAreFinite
  <2> QED  BY <1>1, <2>1
<1>2. CASE bad # {}
  <2>1. LowestOf(bad) \in bad /\ \A n \in bad : LowestOf(bad) <= n
    <3>1. bad \in SUBSET Nat
      OBVIOUS
    <3> HIDE DEF bad
    <3> QED  BY <1>2, <3>1, LowestExists
  <2>2. PICK n \in Nat : n = LowestOf(bad) /\ ~Ok(n)
    BY <2>1
  <2>3. PICK T \in SUBSET Keys : Cardinality(T) = n /\ ~ \E q : AscendsOver(q, T)
    BY <2>2
  <2>4. IsFiniteSet(T)
    BY KeysAreFinite
  <2>5. CASE n = 0
    <3>1. T = {}
      BY <2>3, <2>4, <2>5, FS_EmptySet
    <3>2. PICK q : q = [a \in 1..Cardinality(T) |-> 0]
      OBVIOUS
    <3>3. 1..Cardinality(T) = {}
      BY <2>3, <2>5
    <3>4. AscendsOver(q, T)
      BY <3>2, <3>3 DEF AscendsOver
    <3> QED  BY <2>3, <3>4
  <2>6. CASE n # 0
    <3>1. T # {}
      BY <2>3, <2>6, FS_EmptySet
    <3>2. PICK h : h = HighestOf(T)
      OBVIOUS
    <3>3. h \in T /\ \A k \in T : k <= h
      BY <3>1, <3>2, HighestExists
    <3>4. Cardinality(T \ {h}) = n - 1
      BY <2>3, <2>4, <3>3, FS_RemoveElement
    <3>5. n - 1 \in Nat /\ n - 1 \notin bad
      <4> HIDE DEF bad
      <4> QED  BY <2>1, <2>2, <2>6
    <3>6. PICK q : AscendsOver(q, T \ {h})
      BY <3>4, <3>5
    <3>7. /\ q \in [1..(n - 1) -> T \ {h}]
          /\ \A a, b \in 1..(n - 1) : a < b => q[a] < q[b]
      BY <3>4, <3>6 DEF AscendsOver
    <3>8. PICK r : r = [a \in 1..n |-> IF a = n THEN h ELSE q[a]]
      OBVIOUS
    <3>9. \A a \in 1..n : a # n => a \in 1..(n - 1)
      OBVIOUS
    <3>10. r \in [1..n -> T]
      BY <3>3, <3>7, <3>8, <3>9
    <3>11. \A a, b \in 1..n : a < b => r[a] < r[b]
      <4> SUFFICES ASSUME NEW a \in 1..n, NEW b \in 1..n, a < b
                   PROVE  r[a] < r[b]
        OBVIOUS
      <4>1. a \in 1..(n - 1) /\ r[a] = q[a] /\ q[a] \in T \ {h}
        BY <3>7, <3>8, <3>9
      <4>2. CASE b = n
        <5>1. r[b] = h /\ q[a] <= h /\ q[a] # h
          BY <3>3, <3>8, <4>1, <4>2
        <5>2. q[a] \in Nat /\ h \in Nat
          <6>1. \A k \in T : k \in Nat
            BY DEF Keys
          <6> QED  BY <3>3, <4>1, <6>1
        <5> QED  BY <4>1, <5>1, <5>2
      <4>3. CASE b # n
        BY <3>7, <3>8, <3>9, <4>1, <4>3
      <4> QED  BY <4>2, <4>3
    <3>12. AscendsOver(r, T)
      BY <2>3, <3>10, <3>11 DEF AscendsOver
    <3> QED  BY <2>3, <3>12
  <2> QED  BY <2>5, <2>6
<1> QED  BY <1>1, <1>2

LEMMA AscendingLists ==
    ASSUME NEW S \in SUBSET Keys
    PROVE  Ascending(S) \in Seq(Keys) /\ Rising(Ascending(S)) /\ Members(Ascending(S)) = S
<1> DEFINE n == Cardinality(S)
<1>1. PICK q : q = Ascending(S)
  OBVIOUS
<1>2. IsFiniteSet(S) /\ n \in Nat
  BY KeysAreFinite
<1>3. q \in [1..n -> S] /\ \A a, b \in 1..n : a < b => q[a] < q[b]
  <2>1. \E r \in [1..n -> S] : \A a, b \in 1..n : a < b => r[a] < r[b]
    BY ListExists DEF AscendsOver
  <2> QED  BY <1>1, <2>1 DEF Ascending
<1>4. q \in Seq(S) /\ Len(q) = n
  <2> HIDE DEF n
  <2> QED  BY <1>2, <1>3, FunctionIsSequence
<1>5. q \in Seq(Keys)
  <2> HIDE DEF n
  <2>1. q \in [1..n -> Keys]
    BY <1>3
  <2> QED  BY <1>2, <2>1, FunctionIsSequence
<1>6. Rising(q)
  BY <1>3, <1>4 DEF Rising
<1>7. Members(q) \subseteq S
  BY <1>3, <1>4 DEF Members
<1>8. \A a, b \in 1..n : a # b => q[a] # q[b]
  <2>0. \A k \in S : k \in Int
    BY DEF Keys
  <2>1. \A a \in 1..n : q[a] \in Int
    BY <1>3, <2>0
  <2> HIDE DEF n
  <2> QED  BY <1>2, <1>3, <2>1
<1>9. q \in Surjection(1..n, Members(q)) /\ q \in Injection(1..n, Members(q))
  <2>1. q \in [1..n -> Members(q)]
    BY <1>3, <1>4 DEF Members
  <2>2. q \in Surjection(1..n, Members(q))
    BY <1>4, <2>1 DEF Surjection, Members
  <2>3. q \in Injection(1..n, Members(q))
    BY <1>8, <2>1 DEF Injection, IsInjective
  <2> QED  BY <2>2, <2>3
<1>10. ExistsBijection(1..n, Members(q))
  BY <1>9 DEF ExistsBijection, Bijection
<1>11. IsFiniteSet(Members(q))
  BY <1>2, <1>7, FS_Subset
<1>12. Cardinality(Members(q)) = n
  BY <1>2, <1>10, <1>11, FS_CountingElements
<1>13. Members(q) = S
  BY <1>2, <1>7, <1>11, <1>12, FS_Subset
<1> QED  BY <1>1, <1>5, <1>6, <1>13

-----------------------------------------------------------------------------
(* The program between two repairs.                                              *)

LEMMA BaseFields ==
    ASSUME Base
    PROVE  /\ set \in DeleteSets(MaxKey) /\ file \in DeleteSets(MaxKey) /\ op \in Ops
           /\ up => set = file
  BY DEF Base, TypeOK, Mirror

LEMMA InitBase == ASSUME Init PROVE Base
<1>1. NewSet \in DeleteSets(MaxKey) /\ HighToLow(NewSet.free)
  BY NewSetSorted
<1>2. TypeOK
  <2>1. op \in Ops
    BY DEF Init, Ops
  <2>2. store \in [Keys -> {"none", "record", "DELE"}] /\ crashes \in 0..MaxCrashes
    BY MaxCrashesAssumption DEF Init
  <2> QED  BY <1>1, <2>1, <2>2 DEF Init, TypeOK
<1> QED  BY <1>1, <1>2 DEF Init, Base, Mirror, Sorted

(* A step that writes a new set to the file.                                     *)
LEMMA WritesBase ==
    ASSUME Base, up, NEW s \in DeleteSets(MaxKey), HighToLow(s.free), WriteXrefs(s),
           up' = up, store' = store, op' \in Ops, crashes' = crashes, hole' = hole
    PROVE  Base'
  BY DEF Base, TypeOK, Mirror, Sorted, WriteXrefs

(* A step that leaves both sets alone while the file is open.                    *)
LEMMA KeepsBase ==
    ASSUME Base, up, up' = up, set' = set, file' = file,
           store' \in [Keys -> {"none", "record", "DELE"}], op' \in Ops,
           crashes' = crashes, hole' \in BOOLEAN
    PROVE  Base'
  BY DEF Base, TypeOK, Mirror, Sorted

(* A step with which the program closes the file or ends.                        *)
LEMMA EndsBase ==
    ASSUME Base, up' = FALSE, set' = NewSet, op' = Idle, store' = store,
           NEW s \in DeleteSets(MaxKey), HighToLow(s.free), file' = s,
           crashes' \in 0..MaxCrashes, hole' \in BOOLEAN
    PROVE  Base'
<1>1. NewSet \in DeleteSets(MaxKey) /\ HighToLow(NewSet.free)
  BY NewSetSorted
<1>2. Idle \in Ops
  BY DEF Ops
<1> QED  BY <1>1, <1>2 DEF Base, TypeOK, Mirror, Sorted

LEMMA OpensBase ==
    ASSUME Base, ~up, up' = TRUE, set' = [file EXCEPT !.free = SortXref(@)],
           UNCHANGED << file, store, op, crashes, hole >>
    PROVE  Base' /\ set' = file
<1>1. file \in DeleteSets(MaxKey) /\ HighToLow(file.free)
  BY DEF Base, TypeOK, Sorted
<1>2. set' = file
  BY <1>1, NotRisingStays
<1> QED  BY <1>1, <1>2 DEF Base, TypeOK, Mirror, Sorted

LEMMA StoreStep ==
    ASSUME TypeOK, NEW k \in Keys, NEW text \in {"record", "DELE"},
           store' = [store EXCEPT ![k] = text]
    PROVE  store' \in [Keys -> {"none", "record", "DELE"}]
  BY DEF TypeOK

LEMMA ProgramKeepsBase == ASSUME Base, Next PROVE Base'
<1> USE BaseFields
<1>1. TypeOK /\ HighToLow(set.free) /\ HighToLow(file.free)
  BY DEF Base, Sorted
<1>2. crashes \in 0..MaxCrashes /\ hole \in BOOLEAN /\ (op = Idle \/ up)
  BY DEF Base, TypeOK, Mirror
<1>3. Idle \in Ops
  BY DEF Ops
<1>4. CASE OpenXref
  BY <1>4, OpensBase DEF OpenXref
<1>5. CASE CloseXref
  BY <1>1, <1>2, <1>5, EndsBase DEF CloseXref
<1>6. CASE Crash
  <2>1. crashes' \in 0..MaxCrashes /\ hole' \in BOOLEAN
    BY <1>2, <1>6, MaxCrashesAssumption DEF Crash
  <2> QED  BY <1>1, <1>6, <2>1, EndsBase DEF Crash
<1>7. CASE TakeKey
  <2>1. GetSet(set) \in DeleteSets(MaxKey) /\ HighToLow(GetSet(set).free) /\ GetKey(set) \in Keys
    BY <1>1, <1>7, GetSetSorted DEF TakeKey
  <2>2. Adding(GetKey(set)) \in Ops
    BY <2>1 DEF Ops
  <2> QED  BY <1>7, <2>1, <2>2, WritesBase DEF TakeKey
<1>8. CASE StoreNew
  <2>1. op.key \in Keys
    BY <1>8, OpFields DEF StoreNew
  <2>2. store' \in [Keys -> {"none", "record", "DELE"}]
    BY <1>1, <1>8, <2>1, StoreStep DEF StoreNew
  <2> QED  BY <1>2, <1>3, <1>8, <2>2, KeepsBase DEF StoreNew
<1>9. ASSUME NEW k \in Keys, FreeKey(k) PROVE Base'
  <2>1. PICK s \in AddedSets(set, k) : WriteXrefs(s)
    BY <1>9 DEF FreeKey
  <2>2. s \in DeleteSets(MaxKey) /\ HighToLow(s.free)
    BY <1>1, AddedSorted
  <2>3. Deleting(k) \in Ops
    BY DEF Ops
  <2> QED  BY <1>9, <2>1, <2>2, <2>3, WritesBase DEF FreeKey
<1>10. ASSUME NEW k \in Keys, FreeKeyTwice(k) PROVE Base'
  BY <1>1, <1>2, <1>10, EndsBase DEF FreeKeyTwice
<1>11. CASE StoreDele
  <2>1. op.key \in Keys
    BY <1>11, OpFields DEF StoreDele
  <2>2. store' \in [Keys -> {"none", "record", "DELE"}]
    BY <1>1, <1>11, <2>1, StoreStep DEF StoreDele
  <2> QED  BY <1>2, <1>3, <1>11, <2>2, KeepsBase DEF StoreDele
<1>12. ASSUME NEW S \in (SUBSET Keys) \ {{}}, ImportBegin(S) PROVE Base'
  <2>1. 1..HighestOf(S) \subseteq Keys
    <3>1. HighestOf(S) \in Keys
      BY HighestExists
    <3>2. PICK h : h = HighestOf(S)
      OBVIOUS
    <3> QED  BY <3>1, <3>2, MaxKeyAssumption DEF Keys
  <2>2. op' \in Ops
    BY <1>12, <2>1 DEF ImportBegin, Importing, Ops
  <2>3. hole' \in BOOLEAN
    BY <1>2, <1>12 DEF ImportBegin
  <2>4. store' \in [Keys -> {"none", "record", "DELE"}]
    BY <1>1, <1>12 DEF ImportBegin, TypeOK
  <2> QED  BY <1>12, <2>2, <2>3, <2>4, KeepsBase DEF ImportBegin
<1>13. ASSUME NEW k \in Keys, ImportKey(k) PROVE Base'
  <2>1. KeepKey(set, k) \in DeleteSets(MaxKey) /\ StrictlyDown(KeepKey(set, k).free)
    BY MaxKeyAssumption, KeepKeyKeeps DEF Keys
  <2>2. HighToLow(KeepKey(set, k).free)
    BY <2>1, DownIsSorted
  <2>3. op' \in Ops
    <3>1. /\ op.todo \subseteq Keys /\ op.keyed \subseteq Keys /\ op.gaps \subseteq Keys
          /\ op = Importing(op.todo, op.keyed, op.gaps)
      BY <1>13, OpFields DEF ImportKey
    <3>2. op' = Importing(op.todo \ {k}, op.keyed \cup {k}, op.gaps)
      BY <1>13, <3>1 DEF ImportKey, Importing
    <3>3. op.todo \ {k} \subseteq Keys /\ op.keyed \cup {k} \subseteq Keys
      BY <3>1
    <3> QED  BY <3>1, <3>2, <3>3 DEF Importing, Ops
  <2> QED  BY <1>13, <2>1, <2>2, <2>3, WritesBase DEF ImportKey
<1>14. ASSUME NEW k \in Keys, ImportStore(k) PROVE Base'
  <2>1. op' \in Ops
    BY <1>14, OpFields DEF ImportStore, Importing, Ops
  <2>2. store' \in [Keys -> {"none", "record", "DELE"}]
    BY <1>1, <1>14, StoreStep DEF ImportStore
  <2> QED  BY <1>2, <1>14, <2>1, <2>2, KeepsBase DEF ImportStore
<1>15. CASE AddMissingKey
  <2>1. op' \in Ops /\ op.gaps \in SUBSET Keys /\ op.gaps # {}
    BY <1>15, OpFields DEF AddMissingKey, Importing, Ops
  <2>2. LowestOf(op.gaps) \in Keys
    <3>1. op.gaps \in SUBSET Nat
      BY <2>1 DEF Keys
    <3> QED  BY <2>1, <3>1, LowestExists
  <2>3. PICK s \in AddedSets(set, LowestOf(op.gaps)) : WriteXrefs(s)
    BY <1>15 DEF AddMissingKey
  <2>4. s \in DeleteSets(MaxKey) /\ HighToLow(s.free)
    BY <1>1, <2>2, AddedSorted
  <2> QED  BY <1>15, <2>1, <2>3, <2>4, WritesBase DEF AddMissingKey
<1>16. CASE ImportEnd
  <2>1. store' \in [Keys -> {"none", "record", "DELE"}]
    BY <1>1, <1>16 DEF ImportEnd, TypeOK
  <2> QED  BY <1>2, <1>3, <1>16, <2>1, KeepsBase DEF ImportEnd
<1>17. CASE LoadBegin \/ LoadEnd
  <2>1. store' \in [Keys -> {"none", "record", "DELE"}]
    BY <1>1, <1>17 DEF LoadBegin, LoadEnd, TypeOK
  <2>2. Loading({}) \in Ops
    BY DEF Ops
  <2> QED  BY <1>2, <1>3, <1>17, <2>1, <2>2, KeepsBase DEF LoadBegin, LoadEnd
<1>18. CASE LoadKey
  <2>1. GetSet(set) \in DeleteSets(MaxKey) /\ HighToLow(GetSet(set).free) /\ GetKey(set) \in Keys
    BY <1>1, <1>18, GetSetSorted DEF LoadKey
  <2>2. op.keyed \in SUBSET Keys
    BY <1>18, OpFields DEF LoadKey
  <2>3. Loading(op.keyed \cup {GetKey(set)}) \in Ops
    BY <2>1, <2>2 DEF Ops
  <2> QED  BY <1>18, <2>1, <2>3, WritesBase DEF LoadKey
<1>19. ASSUME NEW k \in Keys, LoadStore(k) PROVE Base'
  <2>1. op.keyed \in SUBSET Keys
    BY <1>19, OpFields DEF LoadStore
  <2>2. Loading(op.keyed \ {k}) \in Ops
    BY <2>1 DEF Ops
  <2>3. store' \in [Keys -> {"none", "record", "DELE"}]
    BY <1>1, <1>19, StoreStep DEF LoadStore
  <2> QED  BY <1>2, <1>19, <2>2, <2>3, KeepsBase DEF LoadStore
<1> QED
  BY <1>4, <1>5, <1>6, <1>7, <1>8, <1>9, <1>10, <1>11, <1>12, <1>13, <1>14, <1>15, <1>16,
     <1>17, <1>18, <1>19 DEF Next

-----------------------------------------------------------------------------
(* Where dbverify is.                                                            *)

LEMMA VerifyFields ==
    ASSUME VerifyTypeOK
    PROVE  /\ verify.phase = "set" =>
                /\ verify = Checking(verify.i, verify.rest, verify.sound, verify.writable)
                /\ verify.i \in 0..MaxKey /\ verify.rest \in Seq(Keys)
                /\ verify.sound \in BOOLEAN /\ verify.writable \in BOOLEAN
           /\ verify.phase = "missing" =>
                /\ verify = Missing(verify.i, verify.sound, verify.writable)
                /\ verify.i \in 0..MaxKey
                /\ verify.sound \in BOOLEAN /\ verify.writable \in BOOLEAN
  BY DEF VerifyTypeOK, NotRunning, Died, Checking, Missing

LEMMA NotWalking ==
    ASSUME Base', verify' \in { NotRunning, Died }
    PROVE  RInv'
<1>1. verify'.phase \notin {"set", "missing"}
  BY DEF NotRunning, Died
<1>2. VerifyTypeOK'
  BY DEF VerifyTypeOK
<1> QED  BY <1>1, <1>2 DEF RInv, Walking, Comparing, Collecting

LEMMA WalksSet ==
    ASSUME Base', up', op' = Idle,
           NEW i \in 0..MaxKey, NEW rest \in Seq(Keys), NEW sound \in BOOLEAN, NEW writable \in BOOLEAN,
           verify' = Checking(i, rest, sound, writable),
           i < set'.next, i \notin FreeKeys(set'), sound => SoundNow',
           Rising(rest), Members(rest) \subseteq Live',
           \A k \in Live' : k \in Members(rest) \/ i = 0 \/ k < i,
           sound => \A k \in 1..(set'.next - 1) :
                       i = 0 \/ k < i => k \in Live' \/ k \in FreeKeys(set')
    PROVE  RInv'
<1>1. /\ verify'.phase = "set" /\ verify'.i = i /\ verify'.rest = rest
      /\ verify'.sound = sound /\ verify'.writable = writable
  BY DEF Checking
<1>2. VerifyTypeOK'
  BY DEF VerifyTypeOK, Checking
<1>3. Comparing'
  BY <1>1 DEF Comparing, Passed
<1>4. Collecting'
  BY <1>1 DEF Collecting
<1> QED  BY <1>1, <1>2, <1>3, <1>4 DEF RInv, Walking

LEMMA WalksMissing ==
    ASSUME Base', up', op' = Idle,
           NEW i \in 0..MaxKey, NEW sound \in BOOLEAN, NEW writable \in BOOLEAN,
           verify' = Missing(i, sound, writable),
           i < set'.next, i \notin FreeKeys(set'), sound => SoundNow',
           sound => \A k \in 1..(set'.next - 1) :
                       \/ k \in Live' \/ k \in FreeKeys(set')
                       \/ (\A r \in Live' : r < k) /\ (i = 0 \/ k < i => store'[k] = "none")
    PROVE  RInv'
<1>1. /\ verify'.phase = "missing" /\ verify'.i = i
      /\ verify'.sound = sound /\ verify'.writable = writable
  BY DEF Missing
<1>2. VerifyTypeOK'
  BY DEF VerifyTypeOK, Missing
<1>3. Comparing'
  BY <1>1 DEF Comparing
<1>4. Collecting'
  BY <1>1 DEF Collecting, Passed
<1> QED  BY <1>1, <1>2, <1>3, <1>4 DEF RInv, Walking

LEMMA LiveAreKeys == Live \in SUBSET Keys
  BY DEF Live

(* The head of a rising list is below its other members.                         *)
LEMMA HeadIsLowest ==
    ASSUME NEW rest \in Seq(Keys), Rising(rest), rest # << >>
    PROVE  /\ Head(rest) \in Keys /\ Tail(rest) \in Seq(Keys) /\ Rising(Tail(rest))
           /\ Members(rest) = {Head(rest)} \cup Members(Tail(rest))
           /\ \A k \in Members(Tail(rest)) : Head(rest) < k
<1> DEFINE n == Len(rest)
<1>1. n \in Nat /\ n >= 1 /\ Head(rest) = rest[1] /\ Tail(rest) \in Seq(Keys) /\ Len(Tail(rest)) = n - 1
  <2> HIDE DEF Keys
  <2> QED  OBVIOUS
<1>2. \A a \in 1..(n - 1) : Tail(rest)[a] = rest[a + 1] /\ a + 1 \in 1..n /\ 1 < a + 1
  OBVIOUS
<1>3. 1 \in 1..n /\ Head(rest) \in Keys
  <2> HIDE DEF Keys
  <2> QED  BY <1>1
<1>4. Rising(Tail(rest))
  <2> SUFFICES ASSUME NEW a \in 1..(n - 1), NEW b \in 1..(n - 1), a < b
               PROVE  Tail(rest)[a] < Tail(rest)[b]
    BY <1>1 DEF Rising
  <2>1. a + 1 < b + 1
    OBVIOUS
  <2> QED  BY <1>2, <2>1 DEF Rising
<1>5. \A a \in 1..n : a = 1 \/ (a - 1 \in 1..(n - 1) /\ rest[a] = Tail(rest)[a - 1])
  <2> TAKE a \in 1..n
  <2>1. a # 1 => a - 1 \in 1..(n - 1) /\ (a - 1) + 1 = a
    BY <1>1
  <2> QED  BY <1>2, <2>1
<1>6. Members(Tail(rest)) = { Tail(rest)[a] : a \in 1..(n - 1) } /\ Members(rest) = { rest[a] : a \in 1..n }
  BY <1>1 DEF Members
<1>7. Members(rest) = {Head(rest)} \cup Members(Tail(rest))
  <2>1. \A k \in Members(rest) : k \in {Head(rest)} \cup Members(Tail(rest))
    <3> HIDE DEF n
    <3> QED  BY <1>1, <1>5, <1>6
  <2>2. \A k \in {Head(rest)} \cup Members(Tail(rest)) : k \in Members(rest)
    <3> HIDE DEF n
    <3> QED  BY <1>1, <1>2, <1>3, <1>6
  <2> QED  BY <2>1, <2>2
<1>8. \A k \in Members(Tail(rest)) : Head(rest) < k
  BY <1>1, <1>2, <1>3, <1>6 DEF Rising
<1> QED  BY <1>1, <1>3, <1>4, <1>7, <1>8

-----------------------------------------------------------------------------
(* One lemma per step of dbverify.                                               *)

LEMMA VerifyBeginKeeps ==
    ASSUME RInv, NEW writable \in BOOLEAN, VerifyBegin(writable)
    PROVE  RInv'
<1> USE DEF VerifyBegin
<1>1. Base /\ ~up /\ op = Idle
  BY DEF RInv, Base, Mirror
<1>2. Base' /\ set' = file
  BY <1>1, OpensBase
<1>3. file \in DeleteSets(MaxKey) /\ Live' = Live /\ Live \in SUBSET Keys
  BY <1>1, LiveAreKeys DEF Base, TypeOK, Live
<1> DEFINE i == NextValid(file, 0)
           rest == Ascending(Live)
<1>4. PICK sound \in BOOLEAN :
        /\ sound = (/\ \A k \in Live : k < file.next /\ k \notin FreeKeys(file)
                    /\ \A k \in FreeKeys(file) : k < file.next
                    /\ StrictlyDown(file.free))
        /\ verify' = Checking(i, rest, sound, writable)
  BY <1>2
<1>5. 0 \in 0..MaxKey
  BY MaxKeyAssumption
<1>6. /\ i \in 0..MaxKey /\ i < file.next /\ i \notin FreeKeys(file)
      /\ StrictlyDown(file.free) /\ (\A k \in FreeKeys(file) : k < file.next) =>
           \A k \in (0 + 1)..(file.next - 1) : i = 0 \/ k < i => k \in FreeKeys(file)
  BY <1>3, <1>5, NextValidIs
<1>7. rest \in Seq(Keys) /\ Rising(rest) /\ Members(rest) = Live
  BY <1>3, AscendingLists
<1>8. sound => SoundNow'
  BY <1>2, <1>3, <1>4 DEF SoundNow
<1>9. sound => \A k \in 1..(file.next - 1) : i = 0 \/ k < i => k \in Live \/ k \in FreeKeys(file)
  <2> HIDE DEF i
  <2> SUFFICES ASSUME sound, NEW k \in 1..(file.next - 1), i = 0 \/ k < i
               PROVE  k \in FreeKeys(file)
    OBVIOUS
  <2>1. k \in (0 + 1)..(file.next - 1)
    OBVIOUS
  <2> QED  BY <1>4, <1>6, <2>1
<1>10. up' /\ op' = Idle
  BY <1>1
<1> HIDE DEF i, rest
<1> QED  BY <1>2, <1>3, <1>4, <1>6, <1>7, <1>8, <1>9, <1>10, WalksSet

(* What the walk beside the live records knows, whichever of the two keys is lower. *)
LEMMA SetPhase ==
    ASSUME RInv, verify.phase = "set"
    PROVE  /\ Base /\ up /\ op = Idle /\ set = file
           /\ set \in DeleteSets(MaxKey) /\ HighToLow(set.free)
           /\ verify = Checking(verify.i, verify.rest, verify.sound, verify.writable)
           /\ verify.i \in 0..MaxKey /\ verify.rest \in Seq(Keys)
           /\ verify.sound \in BOOLEAN /\ verify.writable \in BOOLEAN
           /\ verify.i < set.next /\ verify.i \notin FreeKeys(set) /\ (verify.sound => SoundNow)
           /\ Rising(verify.rest) /\ Members(verify.rest) \subseteq Live
           /\ \A k \in Live : k \in Members(verify.rest) \/ verify.i = 0 \/ k < verify.i
           /\ verify.sound =>
                \A k \in 1..(set.next - 1) :
                   verify.i = 0 \/ k < verify.i => k \in Live \/ k \in FreeKeys(set)
<1>1. VerifyTypeOK /\ Base /\ Comparing
  BY DEF RInv
<1>2. Walking
  BY DEF Walking
<1>3. /\ up /\ op = Idle /\ (verify.sound => SoundNow)
      /\ verify.i < set.next /\ verify.i \notin FreeKeys(set)
  BY <1>2 DEF RInv
<1>4. set = file /\ set \in DeleteSets(MaxKey) /\ HighToLow(set.free)
  BY <1>1, <1>3 DEF Base, Sorted, Mirror, TypeOK
<1> QED  BY <1>1, <1>3, <1>4, VerifyFields DEF Comparing, Passed

LEMMA MissingPhase ==
    ASSUME RInv, verify.phase = "missing"
    PROVE  /\ Base /\ up /\ op = Idle /\ set = file
           /\ set \in DeleteSets(MaxKey) /\ HighToLow(set.free)
           /\ verify = Missing(verify.i, verify.sound, verify.writable)
           /\ verify.i \in 0..MaxKey
           /\ verify.sound \in BOOLEAN /\ verify.writable \in BOOLEAN
           /\ verify.i < set.next /\ verify.i \notin FreeKeys(set) /\ (verify.sound => SoundNow)
           /\ verify.sound =>
                \A k \in 1..(set.next - 1) :
                   \/ k \in Live \/ k \in FreeKeys(set)
                   \/ (\A r \in Live : r < k) /\ (verify.i = 0 \/ k < verify.i => store[k] = "none")
<1>1. VerifyTypeOK /\ Base /\ Collecting
  BY DEF RInv
<1>2. Walking
  BY DEF Walking
<1>3. /\ up /\ op = Idle /\ (verify.sound => SoundNow)
      /\ verify.i < set.next /\ verify.i \notin FreeKeys(set)
  BY <1>2 DEF RInv
<1>4. set = file /\ set \in DeleteSets(MaxKey) /\ HighToLow(set.free)
  BY <1>1, <1>3 DEF Base, Sorted, Mirror, TypeOK
<1> QED  BY <1>1, <1>3, <1>4, VerifyFields DEF Collecting, Passed

(* Freeing a key without a record keeps a sound set sound, and the walk over the  *)
(* valid keys goes on in the changed set.                                         *)
LEMMA FreeingIsSound ==
    ASSUME SoundNow, set \in DeleteSets(MaxKey), NEW i \in Keys, i \notin Live,
           i < set.next, i \notin FreeKeys(set),
           NEW s \in AddedSets(set, i)
    PROVE  /\ s \in DeleteSets(MaxKey) /\ StrictlyDown(s.free)
           /\ \A k \in Live : k < s.next /\ k \notin FreeKeys(s)
           /\ \A k \in FreeKeys(s) : k < s.next
           /\ s.next <= set.next /\ FreeKeys(set) \subseteq FreeKeys(s)
           /\ i < s.next => i \in FreeKeys(s)
           /\ \A k \in (i + 1)..(s.next - 1) :
                NextValid(s, i) = 0 \/ k < NextValid(s, i) => k \in FreeKeys(s)
<1> USE MaxKeyAssumption
<1>1. /\ s \in DeleteSets(MaxKey)
      /\ StrictlyDown(s.free)
      /\ \/ set.next = i + 1 /\ s.next = i /\ FreeKeys(s) = FreeKeys(set)
         \/ /\ set.next # i + 1 /\ s.next = set.next
            /\ i \notin FreeKeys(set) /\ FreeKeys(s) = FreeKeys(set) \cup {i}
  BY AddedSetsAdd DEF SoundNow, Keys
<1>2. set.next \in Int /\ i \in Nat /\ FreeKeys(set) \subseteq Keys /\ Live \subseteq Keys
  BY SetFields, LiveAreKeys DEF Keys
<1>3. \A k \in Keys : k \in Int
  BY DEF Keys
<1>4. \A k \in Live : k < s.next /\ k \notin FreeKeys(s)
  <2> SUFFICES ASSUME NEW k \in Live PROVE k < s.next /\ k \notin FreeKeys(s)
    OBVIOUS
  <2>1. k < set.next /\ k \notin FreeKeys(set) /\ k # i /\ k \in Int
    BY <1>2, <1>3 DEF SoundNow
  <2> QED  BY <1>1, <1>2, <2>1
<1>5. \A k \in FreeKeys(s) : k < s.next
  <2> SUFFICES ASSUME NEW k \in FreeKeys(s) PROVE k < s.next
    OBVIOUS
  <2>1. CASE k \in FreeKeys(set)
    <3>1. k < set.next /\ k # i /\ k \in Int
      BY <1>2, <1>3, <2>1 DEF SoundNow
    <3> QED  BY <1>1, <1>2, <3>1
  <2>2. CASE k = i
    BY <1>1, <1>2, <2>2
  <2> QED  BY <1>1, <2>1, <2>2
<1>6. s.next <= set.next /\ FreeKeys(set) \subseteq FreeKeys(s) /\ (i < s.next => i \in FreeKeys(s))
  BY <1>1, <1>2
<1>7. \A k \in (i + 1)..(s.next - 1) :
         NextValid(s, i) = 0 \/ k < NextValid(s, i) => k \in FreeKeys(s)
  <2>1. i \in 0..MaxKey
    BY DEF Keys
  <2> QED  BY <1>1, <1>5, <2>1, NextValidIs
<1> QED  BY <1>1, <1>4, <1>5, <1>6, <1>7

(* The next live record is above the valid key, which so is nobody's.             *)
LEMMA BelowIsMissing ==
    ASSUME RInv, verify.phase = "set", verify.rest # << >>,
           verify.i < Head(verify.rest), verify.i # 0
    PROVE  verify.i \in Keys /\ verify.i \notin Live
<1> USE SetPhase, HeadIsLowest
<1>1. verify.i \in Keys
  BY MaxKeyAssumption DEF Keys
<1>2. ASSUME verify.i \in Live PROVE FALSE
  <2>1. verify.i \in Members(verify.rest)
    BY <1>2
  <2>2. \A k \in Members(verify.rest) : k = Head(verify.rest) \/ Head(verify.rest) < k
    OBVIOUS
  <2>3. Head(verify.rest) \in Nat
    BY DEF Keys
  <2> QED  BY <2>1, <2>2, <2>3
<1> QED  BY <1>1, <1>2

LEMMA MarkDeletedKeeps == ASSUME RInv, MarkDeleted PROVE RInv'
<1> USE SetPhase DEF MarkDeleted
<1> DEFINE i == verify.i
<1>1. i \in Keys /\ i \notin Live
  BY BelowIsMissing
<1>2. PICK s \in AddedSets(set, i) : WriteXrefs(s) /\ verify' = [verify EXCEPT !.i = NextValid(s, @)]
  OBVIOUS
<1>3. s \in DeleteSets(MaxKey) /\ HighToLow(s.free)
  BY <1>1, AddedSorted
<1>4. Base' /\ set' = s
  BY <1>2, <1>3, WritesBase DEF WriteXrefs, Base, TypeOK
<1> DEFINE next == NextValid(s, i)
<1>5. verify' = Checking(next, verify.rest, verify.sound, verify.writable)
  BY <1>2 DEF Checking
<1>6. next \in 0..MaxKey /\ next < s.next /\ next \notin FreeKeys(s) /\ (next # 0 => i < next)
  BY <1>3, NextValidIs
<1>7. Live' = Live /\ Live \subseteq Keys
  BY LiveAreKeys DEF Live
<1>8. verify.sound =>
        /\ SoundNow'
        /\ \A k \in 1..(s.next - 1) : next = 0 \/ k < next => k \in Live \/ k \in FreeKeys(s)
  <2> SUFFICES ASSUME verify.sound
               PROVE  /\ SoundNow'
                      /\ \A k \in 1..(s.next - 1) : next = 0 \/ k < next => k \in Live \/ k \in FreeKeys(s)
    OBVIOUS
  <2>1. SoundNow
    OBVIOUS
  <2>2. /\ StrictlyDown(s.free)
        /\ \A k \in Live : k < s.next /\ k \notin FreeKeys(s)
        /\ \A k \in FreeKeys(s) : k < s.next
        /\ s.next <= set.next /\ FreeKeys(set) \subseteq FreeKeys(s)
        /\ i < s.next => i \in FreeKeys(s)
        /\ \A k \in (i + 1)..(s.next - 1) :
             NextValid(s, i) = 0 \/ k < NextValid(s, i) => k \in FreeKeys(s)
    BY <1>1, <2>1, FreeingIsSound
  <2>3. SoundNow'
    BY <1>4, <1>7, <2>2 DEF SoundNow
  <2>4. ASSUME NEW k \in 1..(s.next - 1), next = 0 \/ k < next
        PROVE  k \in Live \/ k \in FreeKeys(s)
    <3>1. i \in Nat /\ s.next \in Nat /\ set.next \in Nat
      BY <1>1, <1>3, SetFields DEF Keys
    <3>2. CASE k < i
      <4>1. k \in 1..(set.next - 1)
        BY <2>2, <3>1
      <4> QED  BY <2>2, <3>2, <4>1
    <3>3. CASE k = i
      BY <2>2, <3>1, <3>3
    <3>4. CASE k > i
      <4>1. k \in (i + 1)..(s.next - 1)
        BY <3>1, <3>4
      <4> QED  BY <2>2, <2>4, <4>1
    <3> QED  BY <3>1, <3>2, <3>3, <3>4
  <2> QED  BY <2>3, <2>4
<1>9. \A k \in Live : k \in Members(verify.rest) \/ next = 0 \/ k < next
  <2> SUFFICES ASSUME NEW k \in Live, k \notin Members(verify.rest), next # 0
               PROVE  k < next
    OBVIOUS
  <2>1. k < i /\ i < next /\ k \in Nat /\ i \in Nat /\ next \in Nat
    BY <1>1, <1>6, <1>7 DEF Keys
  <2> HIDE DEF i, next
  <2> QED  BY <2>1
<1>10. up' /\ op' = Idle
  OBVIOUS
<1> HIDE DEF next
<1> QED  BY <1>4, <1>5, <1>6, <1>7, <1>8, <1>9, <1>10, WalksSet

LEMMA MarkKeyZeroKeeps == ASSUME RInv, MarkKeyZero PROVE RInv'
<1>1. Base /\ op = Idle /\ file \in DeleteSets(MaxKey) /\ HighToLow(file.free)
  BY SetPhase DEF MarkKeyZero, Base, TypeOK, Sorted
<1>2. crashes \in 0..MaxCrashes /\ hole \in BOOLEAN
  BY <1>1 DEF Base, TypeOK
<1>3. Base'
  BY <1>1, <1>2, EndsBase DEF MarkKeyZero
<1> QED  BY <1>3, NotWalking DEF MarkKeyZero

LEMMA VerifyEndKeeps == ASSUME RInv, VerifyEnd PROVE RInv'
<1>1. Base /\ op = Idle /\ file \in DeleteSets(MaxKey) /\ HighToLow(file.free)
  BY MissingPhase DEF VerifyEnd, Base, TypeOK, Sorted
<1>2. crashes \in 0..MaxCrashes /\ hole \in BOOLEAN
  BY <1>1 DEF Base, TypeOK
<1>3. Base'
  BY <1>1, <1>2, EndsBase DEF VerifyEnd
<1> QED  BY <1>3, NotWalking DEF VerifyEnd

(* Nothing changes but where dbverify is.                                         *)
LEMMA SameBase ==
    ASSUME Base, UNCHANGED vars
    PROVE  Base' /\ Live' = Live /\ set' = set /\ up' = up /\ op' = op /\ store' = store
           /\ (SoundNow => SoundNow')
  BY DEF Base, TypeOK, Mirror, Sorted, Live, vars, SoundNow

LEMMA InSynchKeeps == ASSUME RInv, InSynch PROVE RInv'
<1> USE SetPhase DEF InSynch
<1> DEFINE i == verify.i
           next == NextValid(set, i)
<1>1. Base' /\ Live' = Live /\ set' = set /\ up' = up /\ op' = op /\ (SoundNow => SoundNow')
  BY SameBase
<1>2. verify' = Checking(next, Tail(verify.rest), verify.sound, verify.writable)
  BY DEF Checking
<1>3. next \in 0..MaxKey /\ next < set.next /\ next \notin FreeKeys(set) /\ (next # 0 => i < next)
  BY NextValidIs
<1>4. /\ i \in Keys /\ Tail(verify.rest) \in Seq(Keys) /\ Rising(Tail(verify.rest))
      /\ Members(verify.rest) = {i} \cup Members(Tail(verify.rest))
  BY HeadIsLowest
<1>5. Live \subseteq Keys /\ i \in Live /\ Members(Tail(verify.rest)) \subseteq Live
  BY <1>4, LiveAreKeys
<1>6. \A k \in Live : k \in Members(Tail(verify.rest)) \/ next = 0 \/ k < next
  <2> SUFFICES ASSUME NEW k \in Live, k \notin Members(Tail(verify.rest)), next # 0
               PROVE  k < next
    OBVIOUS
  <2>1. k \in Members(verify.rest) => k = i
    BY <1>4
  <2>2. i # 0
    BY <1>4 DEF Keys
  <2>3. (k = i \/ k < i) /\ i < next /\ k \in Nat /\ i \in Nat /\ next \in Nat
    BY <1>3, <1>4, <1>5, <2>1, <2>2 DEF Keys
  <2> HIDE DEF i, next
  <2> QED  BY <2>3
<1>7. ASSUME verify.sound, NEW k \in 1..(set.next - 1), next = 0 \/ k < next
      PROVE  k \in Live \/ k \in FreeKeys(set)
  <2>1. i \in Nat /\ set.next \in Nat
    BY <1>4, SetFields DEF Keys
  <2>2. CASE k < i
    BY <1>7, <2>2
  <2>3. CASE k = i
    BY <1>5, <2>3
  <2>4. CASE k > i
    <3>1. k \in (i + 1)..(set.next - 1)
      BY <2>1, <2>4
    <3>2. StrictlyDown(set.free) /\ \A r \in FreeKeys(set) : r < set.next
      BY <1>7 DEF SoundNow
    <3> QED  BY <1>7, <3>1, <3>2, NextValidIs
  <2> QED  BY <2>1, <2>2, <2>3, <2>4
<1>8. up' /\ op' = Idle
  BY <1>1
<1> HIDE DEF next
<1> QED  BY <1>1, <1>2, <1>3, <1>4, <1>5, <1>6, <1>7, <1>8, WalksSet, ZenonT(40)

LEMMA MarkLiveKeeps == ASSUME RInv, MarkLive PROVE RInv'
<1> USE SetPhase DEF MarkLive
<1> DEFINE i == verify.i
           h == Head(verify.rest)
<1>1. /\ h \in Keys /\ Tail(verify.rest) \in Seq(Keys) /\ Rising(Tail(verify.rest))
      /\ Members(verify.rest) = {h} \cup Members(Tail(verify.rest))
  BY HeadIsLowest
<1>2. PICK s \in DeletedSets(set, h) : WriteXrefs(s)
  OBVIOUS
<1>3. /\ s \in DeleteSets(MaxKey) /\ HighToLow(s.free)
      /\ s.next = set.next /\ FreeKeys(s) \subseteq FreeKeys(set)
      /\ h \notin FreeKeys(set) => s = set
  BY <1>1, DeletedSorted
<1>4. Base' /\ set' = s
  BY <1>2, <1>3, WritesBase DEF WriteXrefs, Base, TypeOK
<1>5. verify' = Checking(i, Tail(verify.rest), verify.sound, verify.writable)
  BY DEF Checking
<1>6. Live' = Live /\ Live \subseteq Keys /\ h \in Live /\ Members(Tail(verify.rest)) \subseteq Live
  BY <1>1, LiveAreKeys DEF Live
<1>7. verify.sound => s = set
  BY <1>3, <1>6 DEF SoundNow
<1>8. verify.sound => SoundNow'
  BY <1>4, <1>6, <1>7 DEF SoundNow
<1>9. \A k \in Live : k \in Members(Tail(verify.rest)) \/ i = 0 \/ k < i
  BY <1>1
<1>10. verify.sound => \A k \in 1..(s.next - 1) : i = 0 \/ k < i => k \in Live \/ k \in FreeKeys(s)
  BY <1>7
<1>11. i \in 0..MaxKey /\ i < s.next /\ i \notin FreeKeys(s) /\ up' /\ op' = Idle
  BY <1>3
<1> HIDE DEF i
<1> QED  BY <1>1, <1>4, <1>5, <1>6, <1>8, <1>9, <1>10, <1>11, WalksSet

LEMMA CheckMissingKeeps == ASSUME RInv, CheckMissing PROVE RInv'
<1> USE SetPhase DEF CheckMissing
<1> DEFINE i == verify.i
           next == NextValid(set, 0)
<1>1. Base' /\ Live' = Live /\ set' = set /\ up' = up /\ op' = op /\ store' = store /\ (SoundNow => SoundNow')
  BY SameBase
<1>2. 0 \in 0..MaxKey
  BY MaxKeyAssumption
<1>3. next \in 0..MaxKey /\ next < set.next /\ next \notin FreeKeys(set)
  BY <1>2, NextValidIs
<1>4. \A k \in Live : i = 0 \/ k < i
  BY DEF Members
<1>5. ASSUME verify.sound, NEW k \in 1..(set.next - 1)
      PROVE  \/ k \in Live \/ k \in FreeKeys(set)
             \/ (\A r \in Live : r < k) /\ (next = 0 \/ k < next => store[k] = "none")
  <2>1. StrictlyDown(set.free) /\ \A r \in FreeKeys(set) : r < set.next
    BY <1>5 DEF SoundNow
  <2>2. k \in (0 + 1)..(set.next - 1) /\ k \in Int
    BY SetFields
  <2>3. CASE i = 0 \/ k < i
    BY <1>5, <2>3
  <2>4. CASE i # 0 /\ ~(k < i)
    <3>1. \A r \in Live : r < i /\ r \in Int
      <4>1. \A r \in Live : r < i
        BY <1>4, <2>4
      <4>2. \A r \in Live : r \in Int
        BY LiveAreKeys DEF Keys
      <4> QED  BY <4>1, <4>2
    <3>2. i \in Int
      OBVIOUS
    <3>3. \A r \in Live : r < k
      <4> HIDE DEF i
      <4> QED  BY <2>2, <2>4, <3>1, <3>2
    <3>4. next = 0 \/ k < next => k \in FreeKeys(set)
      BY <1>2, <2>1, <2>2, NextValidIs
    <3> QED  BY <3>3, <3>4
  <2> QED  BY <2>3, <2>4
<1>6. up' /\ op' = Idle
  BY <1>1
<1>7. verify' = Missing(next, verify.sound, verify.writable)
  OBVIOUS
<1> HIDE DEF next
<1> QED  BY <1>1, <1>3, <1>5, <1>6, <1>7, WalksMissing

LEMMA SkipPresentKeeps == ASSUME RInv, SkipPresent PROVE RInv'
<1> USE MissingPhase DEF SkipPresent
<1> DEFINE i == verify.i
           next == NextValid(set, i)
<1>1. Base' /\ Live' = Live /\ set' = set /\ up' = up /\ op' = op /\ store' = store /\ (SoundNow => SoundNow')
  BY SameBase
<1>2. next \in 0..MaxKey /\ next < set.next /\ next \notin FreeKeys(set) /\ (next # 0 => i < next)
  BY NextValidIs
<1>3. i \in Keys
  BY MaxKeyAssumption DEF Keys
<1>4. i \in Live \/ store[i] = "none"
  <2>1. store \in [Keys -> {"none", "record", "DELE"}]
    BY DEF Base, TypeOK
  <2>2. store[i] \in {"none", "record"}
    BY <1>3, <2>1
  <2> QED  BY <1>3, <2>2 DEF Live
<1>5. ASSUME verify.sound, NEW k \in 1..(set.next - 1)
      PROVE  \/ k \in Live \/ k \in FreeKeys(set)
             \/ (\A r \in Live : r < k) /\ (next = 0 \/ k < next => store[k] = "none")
  <2>1. StrictlyDown(set.free) /\ \A r \in FreeKeys(set) : r < set.next
    BY <1>5 DEF SoundNow
  <2>2. i \in Nat /\ set.next \in Nat
    BY <1>3, SetFields DEF Keys
  <2>3. CASE k < i
    BY <1>5, <2>3
  <2>4. CASE k = i
    BY <1>4, <1>5, <2>4
  <2>5. CASE k > i
    <3>1. k \in (i + 1)..(set.next - 1)
      BY <2>2, <2>5
    <3>2. next = 0 \/ k < next => k \in FreeKeys(set)
      BY <2>1, <3>1, NextValidIs
    <3> QED  BY <1>5, <3>2
  <2> QED  BY <2>2, <2>3, <2>4, <2>5
<1>6. up' /\ op' = Idle
  BY <1>1
<1>7. verify' = Missing(next, verify.sound, verify.writable)
  BY DEF Missing
<1> HIDE DEF next
<1> QED  BY <1>1, <1>2, <1>5, <1>6, <1>7, WalksMissing

LEMMA FreeMissingKeeps == ASSUME RInv, FreeMissing PROVE RInv'
<1> USE MissingPhase DEF FreeMissing
<1> DEFINE i == verify.i
<1>1. i \in Keys /\ i \notin Live
  BY MaxKeyAssumption DEF Keys, Live
<1>2. PICK s \in AddedSets(set, i) : WriteXrefs(s) /\ verify' = [verify EXCEPT !.i = NextValid(s, @)]
  OBVIOUS
<1>3. s \in DeleteSets(MaxKey) /\ HighToLow(s.free)
  BY <1>1, AddedSorted
<1>4. Base' /\ set' = s
  BY <1>2, <1>3, WritesBase DEF WriteXrefs, Base, TypeOK
<1> DEFINE next == NextValid(s, i)
<1>5. verify' = Missing(next, verify.sound, verify.writable)
  BY <1>2 DEF Missing
<1>6. next \in 0..MaxKey /\ next < s.next /\ next \notin FreeKeys(s) /\ (next # 0 => i < next)
  BY <1>3, NextValidIs
<1>7. Live' = Live /\ Live \subseteq Keys /\ store' = store
  BY LiveAreKeys DEF Live
<1>8. verify.sound =>
        /\ SoundNow'
        /\ \A k \in 1..(s.next - 1) :
             \/ k \in Live \/ k \in FreeKeys(s)
             \/ (\A r \in Live : r < k) /\ (next = 0 \/ k < next => store[k] = "none")
  <2> SUFFICES ASSUME verify.sound
               PROVE  /\ SoundNow'
                      /\ \A k \in 1..(s.next - 1) :
                           \/ k \in Live \/ k \in FreeKeys(s)
                           \/ (\A r \in Live : r < k) /\ (next = 0 \/ k < next => store[k] = "none")
    OBVIOUS
  <2>1. SoundNow
    OBVIOUS
  <2>2. /\ StrictlyDown(s.free)
        /\ \A k \in Live : k < s.next /\ k \notin FreeKeys(s)
        /\ \A k \in FreeKeys(s) : k < s.next
        /\ s.next <= set.next /\ FreeKeys(set) \subseteq FreeKeys(s)
        /\ i < s.next => i \in FreeKeys(s)
        /\ \A k \in (i + 1)..(s.next - 1) :
             NextValid(s, i) = 0 \/ k < NextValid(s, i) => k \in FreeKeys(s)
    BY <1>1, <2>1, FreeingIsSound
  <2>3. SoundNow'
    BY <1>4, <1>7, <2>2 DEF SoundNow
  <2>4. ASSUME NEW k \in 1..(s.next - 1)
        PROVE  \/ k \in Live \/ k \in FreeKeys(s)
               \/ (\A r \in Live : r < k) /\ (next = 0 \/ k < next => store[k] = "none")
    <3>1. i \in Nat /\ s.next \in Nat /\ set.next \in Nat
      BY <1>1, <1>3, SetFields DEF Keys
    <3>2. k \in 1..(set.next - 1)
      BY <2>2, <3>1
    <3>3. \/ k \in Live \/ k \in FreeKeys(set)
          \/ (\A r \in Live : r < k) /\ (k < i => store[k] = "none")
      BY <3>2
    <3>4. CASE k < i
      BY <2>2, <3>3, <3>4
    <3>5. CASE k = i
      BY <2>2, <3>1, <3>5
    <3>6. CASE k > i
      <4>1. k \in (i + 1)..(s.next - 1)
        BY <3>1, <3>6
      <4>2. next = 0 \/ k < next => k \in FreeKeys(s)
        BY <2>2, <4>1
      <4> QED  BY <2>2, <3>3, <4>2
    <3> QED  BY <3>1, <3>4, <3>5, <3>6
  <2> QED  BY <2>3, <2>4
<1>9. up' /\ op' = Idle
  OBVIOUS
<1> HIDE DEF next
<1> QED  BY <1>4, <1>5, <1>6, <1>7, <1>8, <1>9, WalksMissing

LEMMA FreeMissingReaderKeeps == ASSUME RInv, FreeMissingReader PROVE RInv'
<1> USE MissingPhase DEF FreeMissingReader
<1>1. verify.i \in Keys
  BY MaxKeyAssumption DEF Keys
<1>2. PICK s \in AddedSets(set, verify.i) : file' = s
  OBVIOUS
<1>3. s \in DeleteSets(MaxKey) /\ HighToLow(s.free)
  BY <1>1, AddedSorted
<1>4. crashes \in 0..MaxCrashes /\ hole \in BOOLEAN
  BY DEF Base, TypeOK
<1>5. Base'
  BY <1>2, <1>3, <1>4, EndsBase
<1> QED  BY <1>5, NotWalking

LEMMA RepairInitHolds == ASSUME RepairInit PROVE RInv
<1>1. Base /\ verify = NotRunning
  BY InitBase DEF RepairInit
<1>2. verify.phase \notin {"set", "missing"}
  BY <1>1 DEF NotRunning
<1>3. VerifyTypeOK
  BY <1>1 DEF VerifyTypeOK
<1> QED  BY <1>1, <1>2, <1>3 DEF RInv, Walking, Comparing, Collecting

LEMMA RepairNextKeeps == ASSUME RInv, [RepairNext]_rvars PROVE RInv'
<1>1. CASE verify \in { NotRunning, Died } /\ Next /\ verify' = NotRunning
  <2>1. Base'
    BY <1>1, ProgramKeepsBase DEF RInv
  <2> QED  BY <1>1, <2>1, NotWalking
<1>2. CASE \E writable \in BOOLEAN : VerifyBegin(writable)
  BY <1>2, VerifyBeginKeeps
<1>3. CASE VerifyStep
  BY <1>3, MarkDeletedKeeps, MarkKeyZeroKeeps, InSynchKeeps, MarkLiveKeeps, CheckMissingKeeps,
     FreeMissingKeeps, FreeMissingReaderKeeps, SkipPresentKeeps, VerifyEndKeeps DEF VerifyStep
<1>4. CASE UNCHANGED rvars
  <2>1. UNCHANGED vars /\ verify' = verify
    BY <1>4 DEF rvars
  <2>2. Base' /\ Live' = Live /\ set' = set /\ up' = up /\ op' = op /\ store' = store
        /\ (SoundNow => SoundNow')
    BY <2>1, SameBase DEF RInv
  <2> QED  BY <2>1, <2>2 DEF RInv, VerifyTypeOK, Walking, Comparing, Collecting, Passed
<1> QED  BY <1>1, <1>2, <1>3, <1>4 DEF RepairNext

(* The invariant of the repair: what stays true of the two delete sets whatever   *)
(* deletions were cut short and whatever was repaired, and where the two walks of *)
(* check_set and check_typed_missing_data_records stand.                          *)
THEOREM RepairInvariance == RepairSpec => []RInv
<1>1. RepairInit => RInv
  BY RepairInitHolds
<1>2. RInv /\ [RepairNext]_rvars => RInv'
  BY RepairNextKeeps
<1> QED  BY <1>1, <1>2, PTL DEF RepairSpec

-----------------------------------------------------------------------------
(* What follows from the invariant.                                              *)

LEMMA AddsNoRecord ==
    ASSUME set = file, set \in DeleteSets(MaxKey), HighToLow(set.free),
           NEW i \in Keys, i \notin Live, NEW s \in AddedSets(set, i), NEW k \in Live
    PROVE  /\ k \in FreeKeys(s) => k \in FreeKeys(file)
           /\ k >= s.next => k >= file.next
<1>1. \/ set.next = i + 1 /\ s.next = i /\ FreeKeys(s) = FreeKeys(set)
      \/ set.next # i + 1 /\ s.next = set.next /\ FreeKeys(s) \subseteq FreeKeys(set) \cup {i}
  BY AddedSorted
<1>2. k \in Nat /\ i \in Nat /\ k # i
  BY LiveAreKeys DEF Keys
<1> QED  BY <1>1, <1>2

LEMMA StepFreesNoRecord ==
    ASSUME RInv, [RepairNext]_rvars, verify.phase \in {"set", "missing"}, NEW k \in Live
    PROVE  /\ k \in FreeKeys(file') => k \in FreeKeys(file)
           /\ k >= file'.next => k >= file.next
<1>1. verify \notin { NotRunning, Died }
  BY DEF NotRunning, Died
<1>2. CASE MarkDeleted
  <2>1. verify.i \in Keys /\ verify.i \notin Live
    BY <1>2, BelowIsMissing DEF MarkDeleted
  <2>2. PICK s \in AddedSets(set, verify.i) : file' = s
    BY <1>2 DEF MarkDeleted, WriteXrefs
  <2> QED  BY <1>2, <2>1, <2>2, SetPhase, AddsNoRecord DEF MarkDeleted
<1>3. CASE FreeMissing \/ FreeMissingReader
  <2>1. verify.phase = "missing" /\ verify.i # 0 /\ store[verify.i] = "DELE"
    BY <1>3 DEF FreeMissing, FreeMissingReader
  <2>2. verify.i \in Keys /\ verify.i \notin Live
    BY <2>1, MissingPhase, MaxKeyAssumption DEF Keys, Live
  <2>3. PICK s \in AddedSets(set, verify.i) : file' = s
    BY <1>3 DEF FreeMissing, FreeMissingReader, WriteXrefs
  <2> QED  BY <2>1, <2>2, <2>3, MissingPhase, AddsNoRecord
<1>4. CASE MarkLive
  <2>1. Head(verify.rest) \in Keys
    BY <1>4, SetPhase, HeadIsLowest DEF MarkLive
  <2>2. PICK s \in DeletedSets(set, Head(verify.rest)) : file' = s
    BY <1>4 DEF MarkLive, WriteXrefs
  <2>3. set = file /\ s.next = set.next /\ FreeKeys(s) \subseteq FreeKeys(set)
    BY <1>4, <2>1, SetPhase, DeletedSorted DEF MarkLive
  <2> QED  BY <2>2, <2>3
<1>5. CASE file' = file
  BY <1>5
<1>6. VerifyStep => MarkDeleted \/ FreeMissing \/ FreeMissingReader \/ MarkLive \/ file' = file
  BY DEF VerifyStep, MarkKeyZero, InSynch, CheckMissing, SkipPresent, VerifyEnd, vars
<1>7. ~ \E writable \in BOOLEAN : VerifyBegin(writable)
  BY <1>1 DEF VerifyBegin
<1> QED  BY <1>1, <1>2, <1>3, <1>4, <1>5, <1>6, <1>7 DEF RepairNext, rvars, vars

(* Whatever crashes left behind, dbverify frees no key of a record that exists and *)
(* puts none above recs[0].                                                        *)
THEOREM RepairFreesNoRecord == RepairSpec => RepairFreesOnlyMissing
<1>1. RInv /\ [RepairNext]_rvars =>
        (verify.phase \in {"set", "missing"} =>
           \A k \in Live :
             /\ k \in FreeKeys(file') => k \in FreeKeys(file)
             /\ k >= file'.next => k >= file.next)
  BY StepFreesNoRecord
<1> QED  BY <1>1, RepairInvariance, PTL DEF RepairSpec, RepairFreesOnlyMissing

LEMMA EndAccounts ==
    ASSUME RInv, [RepairNext]_rvars,
           verify.phase = "missing", verify' = NotRunning, verify.sound,
           NEW k \in 1..(file.next - 1)
    PROVE  k \in Live \cup FreeKeys(file) \/ (store[k] = "none" /\ \A r \in Live : r < k)
<1>1. verify.i = 0
  <2>1. verify'.phase = "off" /\ verify \notin { NotRunning, Died } /\ verify' # verify
    BY DEF NotRunning, Died
  <2>2. ~(FreeMissing \/ SkipPresent \/ FreeMissingReader)
    <3>1. FreeMissing => verify'.phase = "missing"
      BY MissingPhase DEF FreeMissing, Missing
    <3>2. SkipPresent => verify'.phase = "missing"
      BY MissingPhase DEF SkipPresent, Missing
    <3>3. FreeMissingReader => verify'.phase = "died"
      BY DEF FreeMissingReader, Died
    <3> QED  BY <2>1, <3>1, <3>2, <3>3
  <2>3. VerifyEnd
    BY <2>1, <2>2 DEF RepairNext, rvars, VerifyBegin, VerifyStep, MarkDeleted, MarkKeyZero, InSynch,
       MarkLive, CheckMissing
  <2> QED  BY <2>3 DEF VerifyEnd
<1> QED  BY <1>1, MissingPhase

(* The repair leaves no number of a sound delete set unaccounted for.              *)
THEOREM RepairLeavesNoHole == RepairSpec => RepairAccounts
<1>1. RInv /\ [RepairNext]_rvars =>
        (verify.phase = "missing" /\ verify' = NotRunning /\ verify.sound =>
           \A k \in 1..(file.next - 1) :
             k \in Live \cup FreeKeys(file) \/ (store[k] = "none" /\ \A r \in Live : r < k))
  BY EndAccounts
<1> QED  BY <1>1, RepairInvariance, PTL DEF RepairSpec, RepairAccounts

-----------------------------------------------------------------------------
(* The bisection of find_slot.  Its recursive function is what CHOOSE makes of an  *)
(* equation; that some function satisfies the equation, and what the function      *)
(* returns, is shown by looking at the shortest interval where it would not.       *)

Intervals(free) == (1..(Len(free) + 1)) \X (0..Len(free))

Halved(f, k, free, lo, hi) ==
    LET md == (lo + hi) \div 2
    IN  IF lo > hi THEN lo
        ELSE IF k > free[md] THEN f[<<lo, md - 1>>]
        ELSE IF k < free[md] THEN f[<<md + 1, hi>>]
        ELSE md

Bisects(f, k, free) ==
    f = [p \in Intervals(free) |-> Halved(f, k, free, p[1], p[2])]

LEMMA FindSlotIs ==
    ASSUME NEW k, NEW free
    PROVE  FindSlot(k, free) = (CHOOSE f : Bisects(f, k, free))[<<1, Len(free)>>]
  BY DEF FindSlot, Bisects, Halved, Intervals

LEMMA MiddleIs ==
    ASSUME NEW lo \in Nat, NEW hi \in Nat, lo <= hi
    PROVE  (lo + hi) \div 2 \in lo..hi
  OBVIOUS

LEMMA HalvedValue ==
    ASSUME NEW k, NEW free, NEW f, NEW g,
           g = [p \in Intervals(free) |-> Halved(f, k, free, p[1], p[2])],
           NEW lo \in 1..(Len(free) + 1), NEW hi \in 0..Len(free)
    PROVE  g[<<lo, hi>>] = Halved(f, k, free, lo, hi)
<1>1. <<lo, hi>> \in Intervals(free) /\ <<lo, hi>>[1] = lo /\ <<lo, hi>>[2] = hi
  BY DEF Intervals
<1> QED  BY <1>1

(* On intervals shorter than m, f is as the equation says.                         *)
BisectsBelow(f, k, free, m) ==
    \A lo \in 1..(Len(free) + 1), hi \in 0..Len(free) :
       hi - lo < m => f[<<lo, hi>>] = Halved(f, k, free, lo, hi)

AgreeBelow(f, g, free, m) ==
    \A a \in 1..(Len(free) + 1), b \in 0..Len(free) : b - a < m => f[<<a, b>>] = g[<<a, b>>]

LEMMA HalvedAgrees ==
    ASSUME NEW k \in Nat, NEW free \in Seq(Nat), NEW f, NEW g, NEW m \in Nat,
           AgreeBelow(f, g, free, m),
           NEW lo \in 1..(Len(free) + 1), NEW hi \in 0..Len(free), hi - lo <= m
    PROVE  Halved(f, k, free, lo, hi) = Halved(g, k, free, lo, hi)
<1> DEFINE n == Len(free)
           md == (lo + hi) \div 2
<1>1. n \in Nat /\ lo \in Nat /\ hi \in Nat
  OBVIOUS
<1>2. CASE lo > hi
  BY <1>2 DEF Halved
<1>3. CASE ~(lo > hi)
  <2>1. md \in lo..hi
    BY <1>1, <1>3, MiddleIs
  <2> HIDE DEF md
  <2>2. /\ md - 1 \in 0..n /\ (md - 1) - lo < m
        /\ md + 1 \in 1..(n + 1) /\ hi - (md + 1) < m
    BY <1>1, <2>1
  <2>3. f[<<lo, md - 1>>] = g[<<lo, md - 1>>] /\ f[<<md + 1, hi>>] = g[<<md + 1, hi>>]
    BY <2>2 DEF AgreeBelow
  <2> QED  BY <2>3 DEF Halved, md
<1> QED  BY <1>2, <1>3

LEMMA SomeBisects ==
    ASSUME NEW k \in Nat, NEW free \in Seq(Nat)
    PROVE  \E f : Bisects(f, k, free)
<1> DEFINE n == Len(free)
           bad == { m \in Nat : ~ \E f : BisectsBelow(f, k, free, m) }
<1>1. n \in Nat /\ bad \in SUBSET Nat
  OBVIOUS
<1>2. bad = {}
  <2> SUFFICES ASSUME bad # {} PROVE FALSE
    OBVIOUS
  <2>1. PICK m \in bad : \A x \in bad : m <= x
    <3> HIDE DEF bad
    <3> QED  BY <1>1, LowestExists
  <2>2. m \in Nat /\ ~ \E f : BisectsBelow(f, k, free, m)
    BY <2>1
  <2>3. CASE m = 0
    <3>1. PICK f : f = [p \in Intervals(free) |-> p[1]]
      OBVIOUS
    <3>2. ASSUME NEW lo \in 1..(n + 1), NEW hi \in 0..n, hi - lo < 0
          PROVE  f[<<lo, hi>>] = Halved(f, k, free, lo, hi)
      <4>1. <<lo, hi>> \in Intervals(free) /\ lo > hi
        BY <1>1, <3>2 DEF Intervals
      <4>2. f[<<lo, hi>>] = lo
        BY <3>1, <4>1
      <4> QED  BY <4>1, <4>2 DEF Halved
    <3> QED  BY <2>2, <2>3, <3>2 DEF BisectsBelow
  <2>4. CASE m # 0
    <3>1. m - 1 \in Nat /\ m - 1 \notin bad
      <4> HIDE DEF bad
      <4> QED  BY <2>1, <2>2, <2>4
    <3>2. PICK f : BisectsBelow(f, k, free, m - 1)
      BY <3>1
    <3>3. PICK g : g = [p \in Intervals(free) |-> Halved(f, k, free, p[1], p[2])]
      OBVIOUS
    <3>4. \A lo \in 1..(n + 1), hi \in 0..n : g[<<lo, hi>>] = Halved(f, k, free, lo, hi)
      BY <3>3, HalvedValue, ZenonT(40)
    <3>5. AgreeBelow(f, g, free, m - 1)
      BY <3>2, <3>4 DEF BisectsBelow, AgreeBelow
    <3>6. ASSUME NEW lo \in 1..(n + 1), NEW hi \in 0..n, hi - lo < m
          PROVE  g[<<lo, hi>>] = Halved(g, k, free, lo, hi)
      <4>1. hi - lo <= m - 1
        BY <2>2, <3>6
      <4>2. Halved(f, k, free, lo, hi) = Halved(g, k, free, lo, hi)
        <5> HIDE DEF bad
        <5> QED  BY <3>1, <3>5, <4>1, HalvedAgrees
      <4> QED  BY <3>4, <4>2
    <3> QED  BY <2>2, <3>6 DEF BisectsBelow
  <2> QED  BY <2>3, <2>4
<1>3. PICK f : BisectsBelow(f, k, free, n)
  BY <1>1, <1>2
<1>4. PICK g : g = [p \in Intervals(free) |-> Halved(f, k, free, p[1], p[2])]
  OBVIOUS
<1>5. \A lo \in 1..(n + 1), hi \in 0..n : g[<<lo, hi>>] = Halved(f, k, free, lo, hi)
  BY <1>4, HalvedValue, ZenonT(40)
<1>6. AgreeBelow(f, g, free, n)
  BY <1>3, <1>5 DEF BisectsBelow, AgreeBelow
<1>7. \A lo \in 1..(n + 1), hi \in 0..n : Halved(f, k, free, lo, hi) = Halved(g, k, free, lo, hi)
  <2> TAKE lo \in 1..(n + 1), hi \in 0..n
  <2>1. hi - lo <= n
    BY <1>1
  <2> HIDE DEF bad
  <2> QED  BY <1>1, <1>6, <2>1, HalvedAgrees
<1>8. g = [p \in Intervals(free) |-> Halved(g, k, free, p[1], p[2])]
  <2>1. \A p \in Intervals(free) : Halved(f, k, free, p[1], p[2]) = Halved(g, k, free, p[1], p[2])
    BY <1>7 DEF Intervals
  <2> HIDE DEF bad
  <2> QED  BY <1>4, <2>1
<1> QED  BY <1>8 DEF Bisects

(* Every entry before lo is above k and every entry after hi below it.             *)
Narrowed(k, free, lo, hi) ==
    /\ lo <= hi + 1
    /\ \A i \in 1..Len(free) : (i < lo => free[i] > k) /\ (i > hi => free[i] < k)

LEMMA BisectionFinds ==
    ASSUME NEW k \in Nat, NEW free \in Seq(Nat), HighToLow(free), NEW f, Bisects(f, k, free)
    PROVE  f[<<1, Len(free)>>] \in Slots(k, free)
<1> DEFINE n == Len(free)
           Missed(lo, hi) == Narrowed(k, free, lo, hi) /\ f[<<lo, hi>>] \notin Slots(k, free)
           bad == { m \in Nat : \E lo \in 1..(n + 1), hi \in 0..n : m = hi + 1 - lo /\ Missed(lo, hi) }
<1>1. n \in Nat /\ \A i \in 1..n : free[i] \in Nat
  OBVIOUS
<1>2. \A lo \in 1..(n + 1), hi \in 0..n : f[<<lo, hi>>] = Halved(f, k, free, lo, hi)
  <2> TAKE lo \in 1..(n + 1), hi \in 0..n
  <2>1. f = [p \in Intervals(free) |-> Halved(f, k, free, p[1], p[2])]
    BY DEF Bisects
  <2>2. PICK g : g = [p \in Intervals(free) |-> Halved(f, k, free, p[1], p[2])]
    OBVIOUS
  <2>3. g[<<lo, hi>>] = Halved(f, k, free, lo, hi)
    BY <2>2, HalvedValue, ZenonT(40)
  <2> QED  BY <2>1, <2>2, <2>3
<1>3. bad = {}
  <2> SUFFICES ASSUME bad # {} PROVE FALSE
    OBVIOUS
  <2>1. PICK m \in bad : \A x \in bad : m <= x
    <3>1. bad \in SUBSET Nat
      OBVIOUS
    <3> HIDE DEF bad
    <3> QED  BY <3>1, LowestExists
  <2>2. PICK lo \in 1..(n + 1), hi \in 0..n : m = hi + 1 - lo /\ Missed(lo, hi)
    BY <2>1
  <2>3. \A a \in 1..(n + 1), b \in 0..n :
          b + 1 - a \in Nat /\ b + 1 - a < m /\ Narrowed(k, free, a, b) => f[<<a, b>>] \in Slots(k, free)
    <3> SUFFICES ASSUME NEW a \in 1..(n + 1), NEW b \in 0..n,
                        b + 1 - a \in Nat, b + 1 - a < m, Missed(a, b)
                 PROVE  FALSE
      OBVIOUS
    <3>1. b + 1 - a \in bad
      OBVIOUS
    <3>2. m \in Nat
      BY <2>1
    <3> HIDE DEF bad
    <3> QED  BY <2>1, <3>1, <3>2
  <2>4. Narrowed(k, free, lo, hi) /\ f[<<lo, hi>>] \notin Slots(k, free)
    BY <2>2
  <2>5. lo \in Nat /\ hi \in Nat /\ lo <= hi + 1 /\ m = hi + 1 - lo
    <3> HIDE DEF Missed
    <3> QED  BY <2>2, <2>4 DEF Narrowed
  <2> DEFINE md == (lo + hi) \div 2
  <2>6. CASE lo > hi
    <3>1. f[<<lo, hi>>] = lo
      BY <1>2, <2>6 DEF Halved
    <3>2. \A i \in 1..n : (i < lo => free[i] > k) /\ (i >= lo => free[i] < k)
      BY <2>4, <2>5, <2>6 DEF Narrowed
    <3>3. \A i \in 1..n : free[i] # k
      BY <1>1, <2>5, <3>2
    <3>4. \A i \in 1..(lo - 1) : i \in 1..n /\ i < lo
      BY <1>1
    <3>5. \A i \in lo..n : i \in 1..n /\ i >= lo
      BY <1>1
    <3>6. IsSlot(k, free, lo)
      BY <1>1, <3>2, <3>3, <3>4, <3>5 DEF IsSlot
    <3> QED  BY <2>4, <3>1, <3>6 DEF Slots
  <2>7. CASE ~(lo > hi)
    <3>1. md \in lo..hi
      BY <2>5, <2>7, MiddleIs
    <3> HIDE DEF md
    <3>2. md \in 1..n /\ md \in Nat /\ free[md] \in Nat
      BY <1>1, <2>5, <3>1
    <3>3. \A i \in 1..n : (i < md => free[i] >= free[md]) /\ (i > md => free[i] <= free[md])
      BY <3>2 DEF HighToLow
    <3>4. f[<<lo, hi>>] = IF k > free[md] THEN f[<<lo, md - 1>>]
                      ELSE IF k < free[md] THEN f[<<md + 1, hi>>] ELSE md
      BY <1>2, <2>7 DEF Halved, md
    <3>5. CASE k > free[md]
      <4>1. md - 1 \in 0..n /\ (md - 1) + 1 - lo \in Nat /\ (md - 1) + 1 - lo < m
        BY <1>1, <2>5, <3>1, <3>2, SMTT(30)
      <4>2. Narrowed(k, free, lo, md - 1)
        <5>1. lo <= (md - 1) + 1
          BY <3>1, <3>2, <2>5
        <5>2. \A i \in 1..n : i > md - 1 => free[i] < k
          BY <1>1, <3>2, <3>3, <3>5
        <5> QED  BY <2>4, <5>1, <5>2 DEF Narrowed
      <4> QED  BY <2>3, <2>4, <3>4, <3>5, <4>1, <4>2
    <3>6. CASE k < free[md]
      <4>1. md + 1 \in 1..(n + 1) /\ hi + 1 - (md + 1) \in Nat /\ hi + 1 - (md + 1) < m
        BY <1>1, <2>5, <3>1, <3>2, SMTT(30)
      <4>2. Narrowed(k, free, md + 1, hi)
        <5>1. md + 1 <= hi + 1
          BY <3>1, <3>2, <2>5
        <5>2. \A i \in 1..n : i < md + 1 => free[i] > k
          BY <1>1, <3>2, <3>3, <3>6
        <5> QED  BY <2>4, <5>1, <5>2 DEF Narrowed
      <4>3. ~(k > free[md])
        BY <3>2, <3>6
      <4> QED  BY <2>3, <2>4, <3>4, <3>6, <4>1, <4>2, <4>3
    <3>7. CASE k = free[md]
      <4>1. f[<<lo, hi>>] = md
        BY <3>2, <3>4, <3>7
      <4>2. \A i \in 1..(md - 1) : i \in 1..n /\ i < md
        BY <1>1, <3>2
      <4>3. \A i \in md..n : i \in 1..n /\ (i = md \/ i > md)
        BY <1>1, <3>2
      <4>4. \A i \in md..n : free[i] <= k
        BY <1>1, <3>2, <3>3, <3>7, <4>3
      <4>5. IsSlot(k, free, md)
        BY <3>2, <3>3, <3>7, <4>2, <4>4 DEF IsSlot
      <4>6. md \in 1..(n + 1)
        BY <1>1, <3>2
      <4> QED  BY <2>4, <4>1, <4>5, <4>6 DEF Slots
    <3> QED  BY <3>2, <3>5, <3>6, <3>7
  <2> QED  BY <2>6, <2>7
<1>4. Narrowed(k, free, 1, n)
  BY <1>1 DEF Narrowed
<1>5. 1 \in 1..(n + 1) /\ n \in 0..n /\ n + 1 - 1 \in Nat
  BY <1>1
<1>6. n + 1 - 1 \notin bad
  BY <1>3
<1> QED  BY <1>4, <1>5, <1>6

LEMMA FindSlotIsSlot ==
    ASSUME NEW k \in Nat, NEW free \in Seq(Nat), HighToLow(free)
    PROVE  FindSlot(k, free) \in Slots(k, free)
<1>1. PICK f : f = CHOOSE g : Bisects(g, k, free)
  OBVIOUS
<1>2. Bisects(f, k, free)
  BY <1>1, SomeBisects
<1> QED  BY <1>1, <1>2, FindSlotIs, BisectionFinds

(* find_slot finds the slot of every key on every free list that the database can *)
(* come to hold, one that a repair has left with a key twice included.            *)
THEOREM FindSlotAlwaysFinds == RepairSpec => []FindSlotFinds
<1>1. RInv => FindSlotFinds
  <2> SUFFICES ASSUME RInv, NEW k \in Keys
               PROVE  FindSlot(k, file.free) \in Slots(k, file.free)
    BY DEF FindSlotFinds
  <2>1. file \in DeleteSets(MaxKey) /\ HighToLow(file.free)
    BY DEF RInv, Base, TypeOK, Sorted
  <2>2. k \in Nat /\ Keys \subseteq Nat
    BY DEF Keys
  <2>3. file.free \in Seq(Keys)
    BY <2>1, SetFields
  <2>4. file.free \in Seq(Nat)
    <3> DEFINE n == Len(file.free)
    <3>1. n \in Nat /\ file.free \in [1..n -> Keys]
      <4> HIDE DEF Keys
      <4> QED  BY <2>3
    <3>2. file.free \in [1..n -> Nat]
      BY <2>2, <3>1
    <3> HIDE DEF n
    <3> QED  BY <3>1, <3>2, FunctionIsSequence
  <2> QED  BY <2>1, <2>2, <2>4, FindSlotIsSlot
<1> QED  BY <1>1, RepairInvariance, PTL
================================================================================
