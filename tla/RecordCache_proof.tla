--------------------------- MODULE RecordCache_proof ---------------------------
(***************************************************************************)
(* What the functions of the record cache keep, for any number of keys,    *)
(* elements and record objects: the lists, the table, the elements and the *)
(* record objects agree, and every record object is counted exactly the    *)
(* references to it.                                                       *)
(***************************************************************************)
EXTENDS RecordCache, FiniteSetTheorems, SequenceTheorems, WellFoundedInduction, TLAPS

-----------------------------------------------------------------------------
(* Lists of elements.                                                        *)

Distinct(s) == \A i, j \in 1..Len(s) : s[i] = s[j] => i = j

\* s has the members of S, each once
ListOf(s, S) == s \in Seq(El) /\ Distinct(s) /\ Members(s) = S

LEMMA FunctionIsList ==
    ASSUME NEW S, NEW n \in Nat, NEW f \in [1..n -> S]
    PROVE  f \in Seq(S) /\ Len(f) = n
  OBVIOUS

LEMMA RemoveDirectIs ==
    ASSUME NEW S, NEW s, ListOf(s, S), NEW e \in S
    PROVE  ListOf(RemoveDirect(s, e), S \ {e})
<1> DEFINE p == Position(s, e)
           t == RemoveDirect(s, e)
           n == Len(s)
<1>1. s \in Seq(El) /\ Distinct(s) /\ Members(s) = S /\ n \in Nat
  BY DEF ListOf
<1>2. p \in 1..n /\ s[p] = e
  BY <1>1 DEF Members, Position
<1>3. n - 1 \in Nat
  BY <1>1, <1>2
<1>4. \A i \in 1..n - 1 : (IF i < p THEN s[i] ELSE s[i + 1]) \in El
  BY <1>1, <1>2
<1>5. t \in [1..n - 1 -> El] /\ \A i \in 1..n - 1 : t[i] = IF i < p THEN s[i] ELSE s[i + 1]
  BY <1>4 DEF RemoveDirect
<1>6. t \in Seq(El) /\ Len(t) = n - 1
  BY <1>3, <1>5, FunctionIsList
<1> HIDE DEF p, t
<1>7. Distinct(t)
  BY <1>1, <1>2, <1>5, <1>6 DEF Distinct
<1>8. Members(t) \subseteq S \ {e}
  <2> SUFFICES ASSUME NEW i \in 1..n - 1 PROVE t[i] \in S \ {e}
    BY <1>6 DEF Members
  <2>1. CASE i < p
    BY <1>1, <1>2, <1>5, <2>1 DEF Members, Distinct
  <2>2. CASE ~(i < p)
    BY <1>1, <1>2, <1>5, <2>2 DEF Members, Distinct
  <2> QED  BY <2>1, <2>2
<1>9. S \ {e} \subseteq Members(t)
  <2> SUFFICES ASSUME NEW x \in S, x # e PROVE \E i \in 1..n - 1 : t[i] = x
    BY <1>6 DEF Members
  <2>1. PICK j \in 1..n : s[j] = x
    BY <1>1 DEF Members
  <2>2. j # p
    BY <1>2, <2>1
  <2>3. CASE j < p
    <3>1. j \in 1..n - 1 /\ t[j] = x
      BY <1>2, <1>5, <2>1, <2>3
    <3> QED  BY <3>1
  <2>4. CASE j > p
    <3>1. j - 1 \in 1..n - 1 /\ t[j - 1] = x
      BY <1>2, <1>5, <2>1, <2>4
    <3> QED  BY <3>1
  <2> QED  BY <1>2, <2>2, <2>3, <2>4
<1> QED  BY <1>6, <1>7, <1>8, <1>9 DEF ListOf, t

(* A list with one more element before the others.                           *)
LEMMA WithFirst ==
    ASSUME NEW S, NEW s, ListOf(s, S), NEW e \in El, e \notin S,
           NEW t \in Seq(El), Len(t) = Len(s) + 1,
           \A i \in 1..Len(s) + 1 : t[i] = IF i = 1 THEN e ELSE s[i - 1]
    PROVE  ListOf(t, S \cup {e})
<1> DEFINE n == Len(s)
<1>1. s \in Seq(El) /\ Distinct(s) /\ Members(s) = S /\ n \in Nat
  BY DEF ListOf
<1>2. \A j \in 1..n : s[j] \in S
  BY <1>1 DEF Members
<1>3. Distinct(t)
  <2> SUFFICES ASSUME NEW i \in 1..n + 1, NEW j \in 1..n + 1, t[i] = t[j] PROVE i = j
    BY DEF Distinct
  <2>1. CASE i = 1
    <3>1. j # 1 => j - 1 \in 1..n
      BY <1>1
    <3> QED  BY <1>2, <2>1, <3>1
  <2>2. CASE j = 1
    <3>1. i # 1 => i - 1 \in 1..n
      BY <1>1
    <3> QED  BY <1>2, <2>2, <3>1
  <2>3. CASE i # 1 /\ j # 1
    <3>1. i - 1 \in 1..n /\ j - 1 \in 1..n /\ s[i - 1] = s[j - 1]
      BY <1>1, <2>3, SMTT(30)
    <3>2. i - 1 = j - 1
      BY <1>1, <3>1 DEF Distinct
    <3> QED  BY <3>2
  <2> QED  BY <2>1, <2>2, <2>3
<1>4. Members(t) \subseteq S \cup {e}
  <2> SUFFICES ASSUME NEW i \in 1..n + 1 PROVE t[i] \in S \cup {e}
    BY DEF Members
  <2>1. i = 1 \/ i - 1 \in 1..n
    BY <1>1
  <2> QED  BY <1>2, <2>1
<1>5. S \cup {e} \subseteq Members(t)
  <2>1. t[1] = e /\ 1 \in 1..n + 1
    BY <1>1
  <2>2. \A j \in 1..n : j + 1 \in 1..n + 1 /\ t[j + 1] = s[j]
    BY <1>1
  <2>3. \A x \in S : \E j \in 1..n : s[j] = x
    BY <1>1 DEF Members
  <2> QED  BY <2>1, <2>2, <2>3 DEF Members
<1> QED  BY <1>3, <1>4, <1>5 DEF ListOf

LEMMA FirstDirectIs ==
    ASSUME NEW S, NEW s, ListOf(s, S), NEW e \in El, e \notin S
    PROVE  ListOf(FirstDirect(s, e), S \cup {e})
<1> DEFINE t == FirstDirect(s, e)
           n == Len(s)
<1>1. s \in Seq(El) /\ n \in Nat
  BY DEF ListOf
<1>2. \A i \in 1..n + 1 : (IF i = 1 THEN e ELSE s[i - 1]) \in El
  BY <1>1
<1>3. t \in [1..n + 1 -> El] /\ \A i \in 1..n + 1 : t[i] = IF i = 1 THEN e ELSE s[i - 1]
  BY <1>2 DEF FirstDirect
<1>4. t \in Seq(El) /\ Len(t) = n + 1
  BY <1>1, <1>3, FunctionIsList
<1> HIDE DEF t
<1> QED  BY <1>3, <1>4, WithFirst DEF t

LEMMA DirectToFirstIs ==
    ASSUME NEW S, NEW s, ListOf(s, S), NEW e \in S
    PROVE  ListOf(DirectToFirst(s, e), S)
<1>1. ListOf(RemoveDirect(s, e), S \ {e})
  BY RemoveDirectIs
<1>2. e \in El
  BY DEF ListOf, Members
<1>3. ListOf(DirectToFirst(s, e), (S \ {e}) \cup {e})
  BY <1>1, <1>2, FirstDirectIs DEF DirectToFirst
<1>4. (S \ {e}) \cup {e} = S
  OBVIOUS
<1> QED  BY <1>3, <1>4

LEMMA FreedFirstIs ==
    ASSUME NEW S, NEW s, ListOf(s, S), NEW e \in El, e \notin S
    PROVE  ListOf(<<e>> \o s, S \cup {e})
<1> DEFINE t == <<e>> \o s
           n == Len(s)
<1>1. s \in Seq(El) /\ n \in Nat
  BY DEF ListOf
<1>2. <<e>> \in Seq(El) /\ Len(<<e>>) = 1 /\ <<e>>[1] = e
  OBVIOUS
<1>3. /\ t \in Seq(El) /\ Len(t) = n + 1
      /\ \A i \in 1..n + 1 : t[i] = IF i = 1 THEN e ELSE s[i - 1]
  BY <1>1, <1>2, ConcatProperties
<1> HIDE DEF t
<1> QED  BY <1>3, WithFirst DEF t

LEMMA TakenIs ==
    ASSUME NEW S, NEW s, ListOf(s, S), s # << >>
    PROVE  Head(s) \in S /\ ListOf(Tail(s), S \ {Head(s)})
<1> DEFINE t == Tail(s)
           n == Len(s)
<1>1. s \in Seq(El) /\ Distinct(s) /\ Members(s) = S /\ n \in Nat /\ n > 0
  BY EmptySeq DEF ListOf
<1>2. Head(s) = s[1] /\ 1 \in 1..n
  BY <1>1
<1>3. t \in Seq(El) /\ Len(t) = n - 1 /\ \A i \in 1..n - 1 : t[i] = s[i + 1]
  BY <1>1, HeadTailProperties
<1> HIDE DEF t
<1>4. Head(s) \in S
  BY <1>1, <1>2 DEF Members
<1>5. Distinct(t)
  BY <1>1, <1>3 DEF Distinct
<1>6. Members(t) \subseteq S \ {s[1]}
  <2> SUFFICES ASSUME NEW i \in 1..n - 1 PROVE s[i + 1] \in S /\ s[i + 1] # s[1]
    BY <1>3 DEF Members
  <2>1. i + 1 \in 1..n /\ i + 1 # 1
    BY <1>1
  <2> QED  BY <1>1, <1>2, <2>1 DEF Members, Distinct
<1>7. S \ {s[1]} \subseteq Members(t)
  <2> SUFFICES ASSUME NEW j \in 1..n, s[j] # s[1] PROVE \E i \in 1..n - 1 : t[i] = s[j]
    BY <1>1, <1>3 DEF Members
  <2>1. j # 1
    OBVIOUS
  <2>2. j - 1 \in 1..n - 1 /\ t[j - 1] = s[j]
    BY <1>1, <1>3, <2>1
  <2> QED  BY <2>2
<1> QED  BY <1>2, <1>3, <1>4, <1>5, <1>6, <1>7 DEF ListOf, t
-----------------------------------------------------------------------------
(***************************************************************************)
(* What a cache keeps.  out[r] are the references to r that the rest of    *)
(* the program has; the element of r has one more.                         *)
(***************************************************************************)
PlacedIn(c, t) ==
    /\ ListOf(c.direct[t], {e \in El : Cache[e] = t /\ c.key[e] # NoKey})
    /\ ListOf(c.free[t], {e \in El : Cache[e] = t /\ c.key[e] = NoKey})

Consistent(c) == c \in CacheType /\ ElementsPlaced(c) /\ TableExact(c) /\ RecordsLinked(c)

Own(c, r) == IF \E e \in El : c.crec[e] = r THEN 1 ELSE 0

Counted(c, out) == out \in [Rec -> Nat] /\ \A r \in Rec : c.refs[r] = Own(c, r) + out[r]

More(out, r) == [out EXCEPT ![r] = @ + 1]
Less(out, r) == [out EXCEPT ![r] = @ - 1]

\* the same elements hold the same keys
SameLists(c, d) ==
    d.direct = c.direct /\ d.free = c.free /\ d.table = c.table /\ d.key = c.key

\* the same elements are locked as often
SameLocks(c, d) == d.lock = c.lock /\ d.rpt = c.rpt

LEMMA Constants ==
    /\ TypeOf \in [Key -> Type] /\ Cache \in [El -> Type]
    /\ NoKey \notin Key /\ NoEl \notin El /\ NoRec \notin Rec
    /\ MaxObject \in Nat
  BY CacheAssumption

LEMMA RecKey == ASSUME NEW r \in Rec PROVE KeyOf(r) \in Key
  BY DEF Rec, KeyOf

LEMMA CacheFields ==
    ASSUME NEW c \in CacheType
    PROVE  /\ c.direct \in [Type -> Seq(El)] /\ c.free \in [Type -> Seq(El)]
           /\ c.table \in [Key -> El \cup {NoEl}] /\ c.key \in [El -> Key \cup {NoKey}]
           /\ c.lock \in [El -> Nat] /\ c.rpt \in [El -> Nat]
           /\ c.crec \in [El -> Rec \cup {NoRec}]
           /\ c.rcel \in [Rec -> El \cup {NoEl}] /\ c.refs \in [Rec -> Nat]
           /\ c.dead \in Deaths
  BY DEF CacheType

LEMMA PlacedByType ==
    ASSUME NEW c \in CacheType
    PROVE  ElementsPlaced(c) <=> \A t \in Type : PlacedIn(c, t)
<1>1. c.direct \in [Type -> Seq(El)] /\ c.free \in [Type -> Seq(El)]
  BY CacheFields
<1>2. ASSUME NEW t \in Type
      PROVE  PlacedIn(c, t) <=>
               /\ \A s \in {c.direct[t], c.free[t]} : \A i, j \in 1..Len(s) : s[i] = s[j] => i = j
               /\ Members(c.direct[t]) = {e \in El : Cache[e] = t /\ c.key[e] # NoKey}
               /\ Members(c.free[t]) = {e \in El : Cache[e] = t /\ c.key[e] = NoKey}
  BY <1>1 DEF PlacedIn, ListOf, Distinct
<1> QED  BY <1>2 DEF ElementsPlaced

(* Caches as create_cache leaves them.                                       *)
LEMMA EmptyCachesIs ==
    ASSUME NEW order \in [Type -> Seq(El)],
           \A t \in Type :
              /\ \A i, j \in 1..Len(order[t]) : order[t][i] = order[t][j] => i = j
              /\ Members(order[t]) = {e \in El : Cache[e] = t},
           NEW c, c = EmptyCaches(order)
    PROVE  /\ Consistent(c) /\ c.dead = "alive"
           /\ \A e \in El : c.lock[e] = 0 /\ c.rpt[e] = 0
           /\ \A r \in Rec : c.refs[r] = 0 /\ Own(c, r) = 0
<1>1. order \in [Type -> Seq(El)]
      /\ \A t \in Type : Distinct(order[t]) /\ Members(order[t]) = {e \in El : Cache[e] = t}
  BY DEF Distinct
<1>2. /\ c.direct = [t \in Type |-> << >>] /\ c.free = order
      /\ c.table = [k \in Key |-> NoEl] /\ c.key = [e \in El |-> NoKey]
      /\ c.lock = [e \in El |-> 0] /\ c.rpt = [e \in El |-> 0] /\ c.crec = [e \in El |-> NoRec]
      /\ c.rcel = [r \in Rec |-> NoEl] /\ c.refs = [r \in Rec |-> 0] /\ c.gone = {}
      /\ c.dead = "alive"
  BY DEF EmptyCaches
<1>3. c \in CacheType
  <2>1. c.direct \in [Type -> Seq(El)]
    BY <1>2
  <2>2. /\ c.table \in [Key -> El \cup {NoEl}] /\ c.key \in [El -> Key \cup {NoKey}]
        /\ c.lock \in [El -> Nat] /\ c.rpt \in [El -> Nat] /\ c.crec \in [El -> Rec \cup {NoRec}]
        /\ c.rcel \in [Rec -> El \cup {NoEl}] /\ c.refs \in [Rec -> Nat] /\ c.gone \in SUBSET El
        /\ c.dead \in Deaths /\ c.free \in [Type -> Seq(El)]
    BY <1>1, <1>2 DEF Deaths
  <2>3. c = [direct |-> c.direct, free |-> c.free, table |-> c.table, key |-> c.key, lock |-> c.lock,
             rpt |-> c.rpt, crec |-> c.crec, rcel |-> c.rcel, refs |-> c.refs, gone |-> c.gone,
             dead |-> c.dead]
    BY DEF EmptyCaches
  <2> QED  BY <2>1, <2>2, <2>3 DEF CacheType
<1>4. ElementsPlaced(c)
  <2>1. ASSUME NEW t \in Type PROVE PlacedIn(c, t)
    <3>1. c.direct[t] = << >> /\ c.free[t] = order[t]
      BY <1>2
    <3>2. {e \in El : Cache[e] = t /\ c.key[e] # NoKey} = {}
          /\ {e \in El : Cache[e] = t /\ c.key[e] = NoKey} = {e \in El : Cache[e] = t}
      BY <1>2
    <3>3. c.direct[t] \in Seq(El) /\ Distinct(c.direct[t]) /\ Members(c.direct[t]) = {}
      BY <3>1 DEF Distinct, Members
    <3>4. c.free[t] \in Seq(El) /\ Distinct(c.free[t]) /\ Members(c.free[t]) = {e \in El : Cache[e] = t}
      BY <1>1, <3>1
    <3> QED  BY <3>2, <3>3, <3>4 DEF PlacedIn, ListOf
  <2> QED  BY <1>3, <2>1, PlacedByType
<1>5. TableExact(c) /\ RecordsLinked(c)
  BY <1>2 DEF TableExact, RecordsLinked
<1>6. \A r \in Rec : Own(c, r) = 0
  BY <1>2, Constants DEF Own
<1> QED  BY <1>2, <1>3, <1>4, <1>5, <1>6 DEF Consistent

LEMMA ListsAgain ==
    ASSUME NEW c, NEW d, SameLists(c, d)
    PROVE  /\ ElementsPlaced(c) => ElementsPlaced(d)
           /\ TableExact(c) => TableExact(d)
<1>1. ElementsPlaced(c) => ElementsPlaced(d)
  BY DEF SameLists, ElementsPlaced
<1>2. TableExact(c) => TableExact(d)
  BY DEF SameLists, TableExact
<1> QED  BY <1>1, <1>2

LEMMA MoreLess ==
    ASSUME NEW out \in [Rec -> Nat], NEW r \in Rec
    PROVE  More(out, r) \in [Rec -> Nat] /\ More(out, r)[r] > 0 /\ Less(More(out, r), r) = out
<1> DEFINE m == More(out, r)
<1>1. m \in [Rec -> Nat] /\ m[r] = out[r] + 1 /\ \A q \in Rec : q # r => m[q] = out[q]
  BY DEF More
<1> HIDE DEF m
<1>2. Less(m, r) = [m EXCEPT ![r] = @ - 1]
  BY DEF Less
<1>3. [m EXCEPT ![r] = @ - 1] = out
  <2>1. \A q \in Rec : [m EXCEPT ![r] = @ - 1][q] = out[q]
    BY <1>1
  <2> QED  BY <1>1, <2>1
<1> QED  BY <1>1, <1>2, <1>3 DEF m

(* One more reference to a record object.                                    *)
LEMMA AddRefIs ==
    ASSUME NEW c, Consistent(c), NEW out, Counted(c, out), NEW r \in Rec, NEW d, d = AddRef(c, r)
    PROVE  /\ Consistent(d) /\ Counted(d, More(out, r))
           /\ SameLists(c, d) /\ SameLocks(c, d) /\ d.dead = c.dead
           /\ d.crec = c.crec
<1>1. c \in CacheType
  BY DEF Consistent
<1>2. c.refs \in [Rec -> Nat]
  BY <1>1, CacheFields
<1>3. d = [c EXCEPT !.refs = [c.refs EXCEPT ![r] = @ + 1]]
  BY DEF AddRef
<1>4. [c.refs EXCEPT ![r] = @ + 1] \in [Rec -> Nat]
  BY <1>2
<1>5. d.refs = [c.refs EXCEPT ![r] = @ + 1] /\ d \in CacheType
  BY <1>1, <1>3, <1>4 DEF CacheType
<1>6. /\ d.direct = c.direct /\ d.free = c.free /\ d.table = c.table /\ d.key = c.key
      /\ d.lock = c.lock /\ d.rpt = c.rpt /\ d.crec = c.crec /\ d.rcel = c.rcel /\ d.dead = c.dead
  BY <1>1, <1>3 DEF CacheType
<1>7. SameLists(c, d) /\ SameLocks(c, d)
  BY <1>6 DEF SameLists, SameLocks
<1>8. \A q \in Rec : c.refs[q] > 0 => d.refs[q] > 0
  BY <1>2, <1>5
<1>9. RecordsLinked(d)
  <2>1. \A e \in El : c.crec[e] # NoRec => c.crec[e] \in Rec
    BY <1>1, CacheFields
  <2> QED  BY <1>6, <1>8, <2>1 DEF Consistent, RecordsLinked
<1>10. Consistent(d)
  BY <1>5, <1>7, <1>9, ListsAgain DEF Consistent
<1>11. Counted(d, More(out, r))
  <2>1. out \in [Rec -> Nat] /\ \A q \in Rec : c.refs[q] = Own(c, q) + out[q]
    BY DEF Counted
  <2>2. \A q \in Rec : Own(d, q) = Own(c, q) /\ Own(c, q) \in Nat
    BY <1>6 DEF Own
  <2>3. More(out, r) \in [Rec -> Nat] /\ \A q \in Rec : More(out, r)[q] = IF q = r THEN out[q] + 1 ELSE out[q]
    BY <2>1 DEF More
  <2>4. \A q \in Rec : d.refs[q] = IF q = r THEN c.refs[q] + 1 ELSE c.refs[q]
    BY <1>2, <1>5
  <2>5. ASSUME NEW q \in Rec PROVE d.refs[q] = Own(d, q) + More(out, r)[q]
    BY <2>1, <2>2, <2>3, <2>4
  <2> QED  BY <2>3, <2>5 DEF Counted
<1> QED  BY <1>5, <1>6, <1>7, <1>10, <1>11

(* The reference of somebody is released: the record object may go, but the  *)
(* one of an element never does.                                             *)
LEMMA ReleaseIs ==
    ASSUME NEW c, Consistent(c), NEW out, Counted(c, out), NEW r \in Rec, out[r] > 0,
           NEW d, d = Release(c, r)
    PROVE  /\ Consistent(d) /\ Counted(d, Less(out, r))
           /\ SameLists(c, d) /\ SameLocks(c, d) /\ d.dead = c.dead
           /\ d.crec = c.crec
<1>1. c \in CacheType
  BY DEF Consistent
<1>2. /\ c.refs \in [Rec -> Nat] /\ c.crec \in [El -> Rec \cup {NoRec}]
      /\ c.rcel \in [Rec -> El \cup {NoEl}]
  BY <1>1, CacheFields
<1>3. out \in [Rec -> Nat] /\ \A q \in Rec : c.refs[q] = Own(c, q) + out[q] /\ Own(c, q) \in {0, 1}
  BY DEF Counted, Own
<1>4. c.refs[r] > 0 /\ (c.refs[r] <= 1 => c.refs[r] = 1 /\ Own(c, r) = 0)
  BY <1>2, <1>3
<1>5. c.refs[r] <= 1 => \A e \in El : c.crec[e] # r
  BY <1>4 DEF Own
<1> DEFINE rc == IF c.refs[r] > 1 THEN c.rcel ELSE [c.rcel EXCEPT ![r] = NoEl]
<1>6. d.refs = [c.refs EXCEPT ![r] = @ - 1] /\ d.rcel = rc /\ d.crec = c.crec /\ d \in CacheType
  <2>1. CASE c.refs[r] > 1
    <3>1. d = [c EXCEPT !.refs = [c.refs EXCEPT ![r] = @ - 1]]
      BY <2>1 DEF Release
    <3>2. [c.refs EXCEPT ![r] = @ - 1] \in [Rec -> Nat]
      BY <1>2, <2>1
    <3> QED  BY <1>1, <2>1, <3>1, <3>2 DEF CacheType
  <2>2. CASE ~(c.refs[r] > 1)
    <3> DEFINE cr == [e \in El |-> IF e = c.rcel[r] /\ c.crec[e] = r THEN NoRec ELSE c.crec[e]]
    <3>1. c.refs[r] = 1
      BY <1>2, <1>4, <2>2
    <3>2. cr = c.crec
      BY <1>2, <1>5, <3>1
    <3>3. d = [c EXCEPT !.refs = [c.refs EXCEPT ![r] = 0], !.rcel = [c.rcel EXCEPT ![r] = NoEl],
                        !.crec = cr]
      BY <2>2 DEF Release, FreeRec
    <3>4. [c.refs EXCEPT ![r] = @ - 1] = [c.refs EXCEPT ![r] = 0]
      BY <1>2, <3>1
    <3>5. [c.refs EXCEPT ![r] = 0] \in [Rec -> Nat] /\ rc \in [Rec -> El \cup {NoEl}]
      BY <1>2
    <3> HIDE DEF cr
    <3> QED  BY <1>1, <2>2, <3>2, <3>3, <3>4, <3>5 DEF CacheType
  <2> QED  BY <2>1, <2>2
<1>7. /\ d.direct = c.direct /\ d.free = c.free /\ d.table = c.table /\ d.key = c.key
      /\ d.lock = c.lock /\ d.rpt = c.rpt /\ d.dead = c.dead
  BY <1>1 DEF Release, FreeRec, CacheType
<1>8. SameLists(c, d) /\ SameLocks(c, d)
  BY <1>7 DEF SameLists, SameLocks
<1>9. RecordsLinked(d)
  <2>1. ASSUME NEW e \in El, c.crec[e] # NoRec
        PROVE  d.refs[c.crec[e]] > 0 /\ d.rcel[c.crec[e]] = e
    <3>1. c.crec[e] \in Rec /\ c.refs[c.crec[e]] > 0 /\ c.rcel[c.crec[e]] = e
      BY <1>2, <2>1 DEF Consistent, RecordsLinked
    <3>2. CASE c.crec[e] = r
      <4>1. c.refs[r] > 1
        BY <1>2, <1>5, <3>2
      <4> QED  BY <1>2, <1>6, <3>1, <3>2, <4>1
    <3>3. CASE c.crec[e] # r
      BY <1>2, <1>6, <3>1, <3>3
    <3> QED  BY <3>2, <3>3
  <2> QED  BY <1>6, <1>7, <2>1 DEF Consistent, RecordsLinked
<1>10. Consistent(d)
  BY <1>6, <1>8, <1>9, ListsAgain DEF Consistent
<1>11. Counted(d, Less(out, r))
  <2>1. \A q \in Rec : Own(d, q) = Own(c, q)
    BY <1>6 DEF Own
  <2>2. Less(out, r) \in [Rec -> Nat] /\ \A q \in Rec : Less(out, r)[q] = IF q = r THEN out[q] - 1 ELSE out[q]
    BY <1>3 DEF Less
  <2>3. \A q \in Rec : d.refs[q] = IF q = r THEN c.refs[q] - 1 ELSE c.refs[q]
    BY <1>2, <1>6
  <2>4. ASSUME NEW q \in Rec PROVE d.refs[q] = Own(d, q) + Less(out, r)[q]
    BY <1>3, <2>1, <2>2, <2>3
  <2> QED  BY <2>2, <2>4 DEF Counted
<1> QED  BY <1>6, <1>7, <1>8, <1>10, <1>11

LEMMA CacheFieldsSame ==
    ASSUME NEW c, Consistent(c), NEW out, Counted(c, out), NEW d \in CacheType,
           SameLists(c, d), SameLocks(c, d), d.crec = c.crec, d.rcel = c.rcel, d.refs = c.refs
    PROVE  Consistent(d) /\ Counted(d, out)
<1>1. RecordsLinked(d)
  BY DEF Consistent, RecordsLinked, SameLists, SameLocks
<1>2. Consistent(d)
  BY <1>1, ListsAgain DEF Consistent
<1>3. \A q \in Rec : Own(d, q) = Own(c, q)
  BY DEF Own
<1>4. Counted(d, out)
  BY <1>3 DEF Counted
<1> QED  BY <1>2, <1>4

LEMMA DieIs ==
    ASSUME NEW c, Consistent(c), NEW how \in Deaths, NEW d, d = Die(c, how)
    PROVE  /\ Consistent(d) /\ d.dead = how
           /\ SameLists(c, d) /\ SameLocks(c, d)
           /\ d.crec = c.crec /\ d.rcel = c.rcel /\ d.refs = c.refs
<1>1. c \in CacheType
  BY DEF Consistent
<1>2. d \in CacheType /\ d.dead = how
  BY <1>1 DEF Die, CacheType
<1>3. /\ d.direct = c.direct /\ d.free = c.free /\ d.table = c.table /\ d.key = c.key
      /\ d.lock = c.lock /\ d.rpt = c.rpt
      /\ d.crec = c.crec /\ d.rcel = c.rcel /\ d.refs = c.refs
  BY <1>1 DEF Die, CacheType
<1>4. SameLists(c, d) /\ SameLocks(c, d)
  BY <1>3 DEF SameLists, SameLocks
<1>5. RecordsLinked(d)
  BY <1>3 DEF Consistent, RecordsLinked
<1>6. Consistent(d)
  BY <1>2, <1>4, <1>5, ListsAgain DEF Consistent
<1> QED  BY <1>2, <1>3, <1>4, <1>6

-----------------------------------------------------------------------------
(* Elements that leave the cache.                                            *)

(* A record in the cache has one element, alone.                             *)
LEMMA ElementInUse ==
    ASSUME NEW c, Consistent(c), NEW e \in El, c.key[e] # NoKey
    PROVE  /\ c.key[e] \in Key /\ c.table[c.key[e]] = e /\ TypeOf[c.key[e]] = Cache[e]
           /\ c.crec[e] \in Rec /\ c.refs[c.crec[e]] > 0 /\ c.rcel[c.crec[e]] = e
           /\ KeyOf(c.crec[e]) = c.key[e]
           /\ \A x \in El : c.crec[x] = c.crec[e] => x = e
<1>1. c.key \in [El -> Key \cup {NoKey}] /\ c.crec \in [El -> Rec \cup {NoRec}]
  BY CacheFields DEF Consistent
<1>2. c.key[e] \in Key /\ c.table[c.key[e]] = e /\ TypeOf[c.key[e]] = Cache[e]
  BY <1>1 DEF Consistent, TableExact
<1>3. c.crec[e] \in Rec
  BY <1>1 DEF Consistent, RecordsLinked
<1>4. /\ c.refs[c.crec[e]] > 0 /\ c.rcel[c.crec[e]] = e /\ KeyOf(c.crec[e]) = c.key[e]
      /\ \A x \in El : c.crec[x] = c.crec[e] => x = e
  BY <1>3, Constants DEF Consistent, RecordsLinked
<1> QED  BY <1>2, <1>3, <1>4

(* clear_cel: the record object of the element loses one reference.          *)
Unlinked(c, e) ==
    [c EXCEPT !.refs = [c.refs EXCEPT ![c.crec[e]] = @ - 1],
              !.rcel = [c.rcel EXCEPT ![c.crec[e]] = NoEl], !.crec = [c.crec EXCEPT ![e] = NoRec]]

LEMMA ClearRecordIs ==
    ASSUME NEW c, Consistent(c), NEW e \in El, c.key[e] # NoKey
    PROVE  ClearRecord(c, e) = Unlinked(c, e)
<1> DEFINE d == ClearRecord(c, e)
           r == c.crec[e]
<1>1. c \in CacheType /\ r \in Rec /\ c.refs[r] > 0 /\ NoRec \notin Rec
  BY ElementInUse, Constants DEF Consistent
<1>2. /\ c.refs \in [Rec -> Nat] /\ c.rcel \in [Rec -> El \cup {NoEl}]
      /\ c.crec \in [El -> Rec \cup {NoRec}] /\ NoEl \notin El
  BY <1>1, CacheFields, Constants
<1> DEFINE b == [c EXCEPT !.rcel = [c.rcel EXCEPT ![r] = NoEl]]
           rr == Release(b, r)
<1>3. d = [rr EXCEPT !.crec = [rr.crec EXCEPT ![e] = NoRec]]
  BY <1>1 DEF ClearRecord
<1>4. b.refs = c.refs /\ b.rcel = [c.rcel EXCEPT ![r] = NoEl] /\ b.crec = c.crec
  BY <1>1 DEF CacheType
<1>5. rr = [c EXCEPT !.refs = [c.refs EXCEPT ![r] = @ - 1], !.rcel = [c.rcel EXCEPT ![r] = NoEl],
                     !.crec = c.crec]
  <2>1. CASE c.refs[r] > 1
    <3>1. rr = [b EXCEPT !.refs = [c.refs EXCEPT ![r] = @ - 1]]
      BY <2>1, <1>4 DEF Release
    <3> QED  BY <1>1, <3>1 DEF CacheType
  <2>2. CASE ~(c.refs[r] > 1)
    <3> DEFINE cr == [x \in El |-> IF x = b.rcel[r] /\ b.crec[x] = r THEN NoRec ELSE b.crec[x]]
    <3>1. c.refs[r] = 1
      BY <1>1, <1>2, <2>2
    <3>2. cr = c.crec
      BY <1>1, <1>2, <1>4
    <3>3. [c.refs EXCEPT ![r] = @ - 1] = [c.refs EXCEPT ![r] = 0]
      BY <1>1, <1>2, <3>1
    <3>4. [b.rcel EXCEPT ![r] = NoEl] = [c.rcel EXCEPT ![r] = NoEl]
      BY <1>1, <1>2, <1>4
    <3>5. rr = [b EXCEPT !.refs = [c.refs EXCEPT ![r] = 0], !.rcel = [b.rcel EXCEPT ![r] = NoEl],
                         !.crec = cr]
      BY <2>2, <1>4 DEF Release, FreeRec
    <3> HIDE DEF cr
    <3>6. rr = [b EXCEPT !.refs = [c.refs EXCEPT ![r] = @ - 1], !.rcel = [c.rcel EXCEPT ![r] = NoEl],
                         !.crec = c.crec]
      BY <3>2, <3>3, <3>4, <3>5
    <3> QED  BY <1>1, <3>6 DEF CacheType
  <2> QED  BY <2>1, <2>2
<1>6. rr.crec = c.crec
  BY <1>1, <1>5 DEF CacheType
<1> HIDE DEF rr, b, d
<1>7. d = Unlinked(c, e)
  BY <1>1, <1>3, <1>5, <1>6 DEF CacheType, Unlinked
<1> QED  BY <1>7 DEF d

(* remove_cel_from_cache for an element that nobody locked.                  *)
Removed(c, e) ==
    [c EXCEPT !.direct = [c.direct EXCEPT ![Cache[e]] = RemoveDirect(@, e)],
              !.free = [c.free EXCEPT ![Cache[e]] = <<e>> \o @],
              !.table = [c.table EXCEPT ![c.key[e]] = NoEl], !.key = [c.key EXCEPT ![e] = NoKey],
              !.crec = [c.crec EXCEPT ![e] = NoRec],
              !.rcel = [c.rcel EXCEPT ![c.crec[e]] = NoEl],
              !.refs = [c.refs EXCEPT ![c.crec[e]] = @ - 1],
              !.gone = c.gone \cup {e}]

LEMMA RemovedIs ==
    ASSUME NEW c, Consistent(c), NEW e \in El, c.key[e] # NoKey, c.lock[e] = 0
    PROVE  RemoveCel(c, e) = Removed(c, e)
<1> DEFINE d == RemoveCel(c, e)
           r == c.crec[e]
           t == Cache[e]
<1>1. c \in CacheType
  BY DEF Consistent
<1> DEFINE b == ClearRecord(c, e)
           a == ClearCel(c, e)
<1>0. b = Unlinked(c, e)
  BY ClearRecordIs
<1>2. b = [c EXCEPT !.refs = [c.refs EXCEPT ![r] = @ - 1], !.rcel = [c.rcel EXCEPT ![r] = NoEl],
                    !.crec = [c.crec EXCEPT ![e] = NoRec]]
  BY <1>0 DEF Unlinked
<1>3. b.table = c.table /\ b.key = c.key /\ b.gone = c.gone
  BY <1>1, <1>2 DEF CacheType
<1>4. a = [b EXCEPT !.table = [c.table EXCEPT ![c.key[e]] = NoEl], !.key = [c.key EXCEPT ![e] = NoKey],
                    !.gone = c.gone \cup {e}]
  BY <1>3 DEF ClearCel
<1> HIDE DEF a, b
<1>5. /\ a.table = [c.table EXCEPT ![c.key[e]] = NoEl] /\ a.key = [c.key EXCEPT ![e] = NoKey]
      /\ a.gone = c.gone \cup {e} /\ a.direct = c.direct /\ a.free = c.free
      /\ a.lock = c.lock /\ a.rpt = c.rpt /\ a.dead = c.dead
      /\ a.refs = [c.refs EXCEPT ![r] = @ - 1] /\ a.rcel = [c.rcel EXCEPT ![r] = NoEl]
      /\ a.crec = [c.crec EXCEPT ![e] = NoRec]
  BY <1>1, <1>2, <1>4 DEF CacheType
<1>6. DOMAIN a = DOMAIN c
  BY <1>1, <1>2, <1>4 DEF CacheType
<1>7. c.lock[e] > 0 <=> FALSE
  BY <1>1, CacheFields
<1>8. d = [a EXCEPT !.direct = [c.direct EXCEPT ![t] = RemoveDirect(@, e)],
                    !.free = [c.free EXCEPT ![t] = <<e>> \o @]]
  BY <1>5, <1>7 DEF RemoveCel, a
<1> HIDE DEF d
<1>9. d = Removed(c, e)
  BY <1>1, <1>5, <1>6, <1>8 DEF CacheType, Removed
<1> QED  BY <1>9 DEF d

(* Locked elements keep their record.                                        *)
LockedKeep(c, d) == \A e \in El : c.lock[e] > 0 => d.key[e] = c.key[e]

LEMMA RemoveCelIs ==
    ASSUME NEW c, Consistent(c), NEW out, Counted(c, out), NEW e \in El, c.key[e] # NoKey,
           c.lock[e] = 0, NEW d, d = RemoveCel(c, e)
    PROVE  /\ Consistent(d) /\ Counted(d, out) /\ SameLocks(c, d) /\ LockedKeep(c, d)
           /\ d.dead = c.dead
           /\ d.table = [c.table EXCEPT ![c.key[e]] = NoEl]
           /\ d.crec = [c.crec EXCEPT ![e] = NoRec]
           /\ d.free[Cache[e]] # << >>
<1> DEFINE t == Cache[e]
           r == c.crec[e]
<1>1. c \in CacheType
  BY DEF Consistent
<1>2. /\ c.direct \in [Type -> Seq(El)] /\ c.free \in [Type -> Seq(El)]
      /\ c.table \in [Key -> El \cup {NoEl}] /\ c.key \in [El -> Key \cup {NoKey}]
      /\ c.lock \in [El -> Nat] /\ c.rpt \in [El -> Nat]
      /\ c.crec \in [El -> Rec \cup {NoRec}]
      /\ c.rcel \in [Rec -> El \cup {NoEl}] /\ c.refs \in [Rec -> Nat]
      /\ c.gone \subseteq El /\ c.dead \in Deaths
  BY <1>1 DEF CacheType
<1>0. d = Removed(c, e)
  BY RemovedIs
<1>3. /\ d.direct = [c.direct EXCEPT ![t] = RemoveDirect(@, e)]
      /\ d.free = [c.free EXCEPT ![t] = <<e>> \o @]
      /\ d.table = [c.table EXCEPT ![c.key[e]] = NoEl] /\ d.key = [c.key EXCEPT ![e] = NoKey]
      /\ d.lock = c.lock /\ d.rpt = c.rpt
      /\ d.crec = [c.crec EXCEPT ![e] = NoRec] /\ d.rcel = [c.rcel EXCEPT ![r] = NoEl]
      /\ d.refs = [c.refs EXCEPT ![r] = @ - 1]
      /\ d.gone = c.gone \cup {e} /\ d.dead = c.dead
  BY <1>1, <1>0 DEF Removed, CacheType
<1>4. /\ c.key[e] \in Key /\ c.table[c.key[e]] = e /\ TypeOf[c.key[e]] = t
      /\ r \in Rec /\ c.refs[r] > 0 /\ c.rcel[r] = e /\ KeyOf(r) = c.key[e]
      /\ \A x \in El : c.crec[x] = r => x = e
  BY ElementInUse
<1>5. t \in Type /\ NoKey \notin Key /\ NoEl \notin El /\ NoRec \notin Rec
  BY Constants
<1> DEFINE Used(b, u) == {x \in El : Cache[x] = u /\ b.key[x] # NoKey}
           Unused(b, u) == {x \in El : Cache[x] = u /\ b.key[x] = NoKey}
<1>6. \A u \in Type : ListOf(c.direct[u], Used(c, u)) /\ ListOf(c.free[u], Unused(c, u))
  BY <1>1, PlacedByType DEF Consistent, PlacedIn
<1>7. /\ Used(d, t) = Used(c, t) \ {e} /\ Unused(d, t) = Unused(c, t) \cup {e}
      /\ e \in Used(c, t) /\ e \notin Unused(c, t)
  BY <1>2, <1>3, <1>5
<1>8. \A u \in Type : u # t => Used(d, u) = Used(c, u) /\ Unused(d, u) = Unused(c, u)
  BY <1>2, <1>3, <1>5
<1> HIDE DEF Used, Unused
<1>9. ListOf(RemoveDirect(c.direct[t], e), Used(d, t)) /\ ListOf(<<e>> \o c.free[t], Unused(d, t))
  <2>1. ListOf(RemoveDirect(c.direct[t], e), Used(c, t) \ {e})
    BY <1>5, <1>6, <1>7, RemoveDirectIs
  <2>2. ListOf(<<e>> \o c.free[t], Unused(c, t) \cup {e})
    BY <1>5, <1>6, <1>7, FreedFirstIs
  <2> QED  BY <1>7, <2>1, <2>2
<1>10. d.direct \in [Type -> Seq(El)] /\ d.free \in [Type -> Seq(El)]
  <2>1. RemoveDirect(c.direct[t], e) \in Seq(El) /\ <<e>> \o c.free[t] \in Seq(El)
    BY <1>9 DEF ListOf
  <2>2. [c.direct EXCEPT ![t] = RemoveDirect(@, e)] \in [Type -> Seq(El)]
    BY <1>2, <2>1
  <2>3. [c.free EXCEPT ![t] = <<e>> \o @] \in [Type -> Seq(El)]
    BY <1>2, <2>1
  <2> QED  BY <1>3, <2>2, <2>3
<1>11. ASSUME NEW u \in Type PROVE ListOf(d.direct[u], Used(d, u)) /\ ListOf(d.free[u], Unused(d, u))
  <2>1. CASE u = t
    BY <1>2, <1>3, <1>9, <2>1
  <2>2. CASE u # t
    BY <1>2, <1>3, <1>6, <1>8, <2>2
  <2> QED  BY <2>1, <2>2
<1>12. c.refs[r] - 1 \in Nat
  BY <1>2, <1>4
<1>13. d.refs \in [Rec -> Nat]
  BY <1>2, <1>3, <1>12, ZenonT(40)
<1>14. d.table \in [Key -> El \cup {NoEl}] /\ d.key \in [El -> Key \cup {NoKey}]
  BY <1>2, <1>3
<1>15. d.crec \in [El -> Rec \cup {NoRec}] /\ d.rcel \in [Rec -> El \cup {NoEl}] /\ d.gone \subseteq El
  <2>1. [c.crec EXCEPT ![e] = NoRec] \in [El -> Rec \cup {NoRec}]
    BY <1>2
  <2>2. [c.rcel EXCEPT ![r] = NoEl] \in [Rec -> El \cup {NoEl}]
    BY <1>2
  <2> QED  BY <1>2, <1>3, <2>1, <2>2
<1>16. d \in CacheType
  BY <1>0, <1>1, <1>10, <1>13, <1>14, <1>15 DEF Removed, CacheType
<1>17. ElementsPlaced(d)
  BY <1>11, <1>16, PlacedByType DEF PlacedIn, Used, Unused
<1>18. TableExact(d)
  <2>1. ASSUME NEW k \in Key, d.table[k] # NoEl PROVE d.key[d.table[k]] = k
    <3>1. k # c.key[e] /\ d.table[k] = c.table[k] /\ c.table[k] \in El
      BY <1>2, <1>3, <1>4, <2>1
    <3>2. c.key[c.table[k]] = k
      BY <2>1, <3>1 DEF Consistent, TableExact
    <3> QED  BY <1>2, <1>3, <3>1, <3>2
  <2>2. ASSUME NEW x \in El, d.key[x] # NoKey
        PROVE  d.table[d.key[x]] = x /\ TypeOf[d.key[x]] = Cache[x]
    <3>1. x # e /\ d.key[x] = c.key[x]
      BY <1>2, <1>3, <2>2
    <3>2. c.table[c.key[x]] = x /\ TypeOf[c.key[x]] = Cache[x] /\ c.key[x] \in Key
      BY <1>2, <2>2, <3>1 DEF Consistent, TableExact
    <3>3. c.key[x] # c.key[e]
      BY <1>4, <3>1, <3>2
    <3> QED  BY <1>2, <1>3, <3>1, <3>2, <3>3
  <2> QED  BY <2>1, <2>2 DEF TableExact
<1>19. RecordsLinked(d)
  <2> SUFFICES ASSUME NEW x \in El
               PROVE  /\ d.crec[x] # NoRec =>
                            /\ d.key[x] # NoKey
                            /\ d.refs[d.crec[x]] > 0 /\ d.rcel[d.crec[x]] = x
                            /\ KeyOf(d.crec[x]) = d.key[x]
                      /\ d.key[x] # NoKey => d.crec[x] # NoRec
                      /\ d.key[x] = NoKey => d.lock[x] = 0
                      /\ d.rpt[x] <= d.lock[x]
    BY DEF RecordsLinked
  <2>1. CASE x = e
    <3>1. d.crec[x] = NoRec /\ d.key[x] = NoKey /\ d.lock[x] = 0
      BY <1>2, <1>3, <2>1
    <3>2. d.rpt[x] <= d.lock[x]
      BY <1>3, <2>1 DEF Consistent, RecordsLinked
    <3> QED  BY <3>1, <3>2
  <2>2. CASE x # e
    <3>1. d.crec[x] = c.crec[x] /\ d.key[x] = c.key[x] /\ d.lock[x] = c.lock[x] /\ d.rpt[x] = c.rpt[x]
      BY <1>2, <1>3, <2>2
    <3>2. c.crec[x] # NoRec => c.crec[x] \in Rec /\ c.crec[x] # r
      BY <1>2, <1>4, <2>2
    <3>3. c.crec[x] # NoRec => d.refs[c.crec[x]] = c.refs[c.crec[x]] /\ d.rcel[c.crec[x]] = c.rcel[c.crec[x]]
      BY <1>2, <1>3, <3>2
    <3> QED  BY <3>1, <3>2, <3>3 DEF Consistent, RecordsLinked
  <2> QED  BY <2>1, <2>2
<1>20. Consistent(d)
  BY <1>16, <1>17, <1>18, <1>19 DEF Consistent
<1>21. Counted(d, out)
  <2>1. ASSUME NEW q \in Rec PROVE d.refs[q] = Own(d, q) + out[q]
    <3>1. c.refs[q] = Own(c, q) + out[q] /\ out[q] \in Nat
      BY DEF Counted
    <3>2. CASE q = r
      <4>1. Own(c, q) = 1
        BY <3>2 DEF Own
      <4>2. Own(d, q) = 0
        BY <1>2, <1>3, <1>4, <1>5, <3>2 DEF Own
      <4>3. d.refs[q] = c.refs[q] - 1
        BY <1>2, <1>3, <3>2
      <4> QED  BY <3>1, <4>1, <4>2, <4>3
    <3>3. CASE q # r
      <4>1. \A x \in El : d.crec[x] = q <=> c.crec[x] = q
        BY <1>2, <1>3, <1>4, <1>5, <3>3
      <4>2. Own(d, q) = Own(c, q)
        BY <4>1 DEF Own
      <4>3. d.refs[q] = c.refs[q]
        BY <1>2, <1>3, <3>3
      <4> QED  BY <3>1, <4>2, <4>3
    <3> QED  BY <3>2, <3>3
  <2> QED  BY <2>1 DEF Counted
<1>22. SameLocks(c, d)
  BY <1>3 DEF SameLocks
<1>23. LockedKeep(c, d)
  BY <1>2, <1>3 DEF LockedKeep
<1>24. d.free[Cache[e]] # << >>
  <2>1. d.free[t] = <<e>> \o c.free[t]
    BY <1>2, <1>3, <1>5
  <2>2. e \in Members(d.free[t])
    BY <1>5, <1>7, <1>11 DEF ListOf
  <2>3. Len(<< >>) = 0 /\ 1..0 = {}
    OBVIOUS
  <2> QED  BY <2>2, <2>3 DEF Members
<1> QED  BY <1>3, <1>20, <1>21, <1>22, <1>23, <1>24

-----------------------------------------------------------------------------
(* Elements and record objects that are found for a record that enters.      *)

LEMMA LowestIn ==
    ASSUME NEW S \in SUBSET Nat, S # {}
    PROVE  \E n \in S : \A m \in S : n <= m
<1>1. PICK n \in S : \A m \in S : ~(<<m, n>> \in OpToRel(<, Nat))
  BY NatLessThanWellFounded, WFMin
<1>2. \A m \in S : n <= m
  <2> SUFFICES ASSUME NEW m \in S, m < n
               PROVE  FALSE
    OBVIOUS
  <2>1. <<m, n>> \in Nat \X Nat /\ <<m, n>>[1] < <<m, n>>[2]
    OBVIOUS
  <2>2. <<m, n>> \in OpToRel(<, Nat)
    BY <2>1 DEF OpToRel
  <2> QED  BY <1>1, <2>2
<1> QED  BY <1>2

LEMMA HighestIn ==
    ASSUME NEW n \in Nat, NEW S \in SUBSET (1..n), S # {}
    PROVE  \E i \in S : \A j \in S : j <= i
<1> DEFINE mirrored == {m \in Nat : \E k \in S : m = n - k}
<1>1. mirrored \in SUBSET Nat /\ mirrored # {} /\ \A j \in S : n - j \in mirrored
  <2>1. \A j \in S : n - j \in Nat
    OBVIOUS
  <2>2. \A j \in S : n - j \in mirrored
    BY <2>1
  <2>3. \E j : j \in S
    OBVIOUS
  <2> HIDE DEF mirrored
  <2>4. mirrored # {}
    BY <2>2, <2>3
  <2> QED  BY <2>2, <2>4 DEF mirrored
<1>2. PICK m \in mirrored : \A l \in mirrored : m <= l
  <2> HIDE DEF mirrored
  <2> QED  BY <1>1, LowestIn
<1>3. PICK i \in S : m = n - i
  BY <1>2
<1>4. \A j \in S : j <= i
  BY <1>1, <1>2, <1>3
<1> QED  BY <1>4

LEMMA FreshIs ==
    ASSUME NEW c \in CacheType, NEW k \in Key, ~NoMemory(c, k)
    PROVE  Fresh(c, k) \in Rec /\ KeyOf(Fresh(c, k)) = k /\ c.refs[Fresh(c, k)] = 0
<1> DEFINE S == {n \in 1..MaxObject : c.refs[<<k, n>>] = 0}
<1>1. c.refs \in [Rec -> Nat] /\ MaxObject \in Nat
  BY CacheFields, Constants
<1>2. \A n \in 1..MaxObject : <<k, n>> \in Rec
  BY DEF Rec
<1>3. S # {} /\ S \in SUBSET Nat
  BY <1>1, <1>2 DEF NoMemory
<1>4. PICK n \in S : \A m \in S : n <= m
  BY <1>3, LowestIn
<1>5. n \in 1..MaxObject /\ c.refs[<<k, n>>] = 0 /\ \A m \in 1..(n - 1) : c.refs[<<k, m>>] > 0
  <2>1. ASSUME NEW m \in 1..(n - 1) PROVE c.refs[<<k, m>>] > 0
    <3>1. m \in 1..MaxObject /\ m \notin S /\ c.refs[<<k, m>>] \in Nat
      BY <1>1, <1>2, <1>4
    <3> QED  BY <3>1
  <2> QED  BY <1>4, <2>1
<1> DEFINE f == CHOOSE x \in 1..MaxObject : /\ c.refs[<<k, x>>] = 0
                                           /\ \A m \in 1..(x - 1) : c.refs[<<k, m>>] > 0
<1>6. f \in 1..MaxObject /\ c.refs[<<k, f>>] = 0
  BY <1>5
<1>7. Fresh(c, k) = <<k, f>>
  BY DEF Fresh
<1> HIDE DEF f
<1> QED  BY <1>2, <1>6, <1>7 DEF KeyOf

LEMMA LeastRecentIs ==
    ASSUME NEW c, Consistent(c), NEW t \in Type, Unlocked(c, t) # {}
    PROVE  LeastRecent(c, t) \in {e \in El : Cache[e] = t /\ c.key[e] # NoKey /\ c.lock[e] = 0}
<1> DEFINE s == c.direct[t]
           U == Unlocked(c, t)
<1>1. c \in CacheType /\ ListOf(s, {e \in El : Cache[e] = t /\ c.key[e] # NoKey})
  BY PlacedByType DEF Consistent, PlacedIn
<1>2. Len(s) \in Nat /\ \A i \in 1..Len(s) : s[i] \in {e \in El : Cache[e] = t /\ c.key[e] # NoKey}
  BY <1>1 DEF ListOf, Members
<1>3. U \in SUBSET (1..Len(s)) /\ \A i \in U : c.lock[s[i]] = 0
  BY DEF Unlocked
<1>4. \E i \in U : \A j \in U : j <= i
  <2> HIDE DEF U
  <2> QED  BY <1>2, <1>3, HighestIn DEF U
<1> DEFINE h == CHOOSE i \in U : \A j \in U : j <= i
<1>5. h \in U
  BY <1>4
<1>6. LeastRecent(c, t) = s[h]
  BY DEF LeastRecent
<1> HIDE DEF h, U
<1> QED  BY <1>2, <1>3, <1>5, <1>6

(* What can become of the elements of a cache of type t, others staying.     *)
OnlyOf(c, d, t) ==
    /\ \A k \in Key : TypeOf[k] # t => d.table[k] = c.table[k]
    /\ \A e \in El : Cache[e] # t => d.crec[e] = c.crec[e]

Removals(c, d) ==
    /\ \A k \in Key : d.table[k] \in {c.table[k], NoEl}
    /\ \A e \in El : d.crec[e] \in {c.crec[e], NoRec}

LEMMA SameIs ==
    ASSUME NEW c, NEW d, d.table = c.table, d.crec = c.crec, d.key = c.key, NEW t
    PROVE  OnlyOf(c, d, t) /\ Removals(c, d) /\ LockedKeep(c, d)
  BY DEF OnlyOf, Removals, LockedKeep

(* get_free_cacheel: the element that is removed was locked by nobody.       *)
LEMMA MakeRoomIs ==
    ASSUME NEW c, Consistent(c), NEW out, Counted(c, out), c.dead = "alive", NEW t \in Type,
           NEW d, d = MakeRoom(c, t)
    PROVE  /\ Consistent(d) /\ Counted(d, out) /\ SameLocks(c, d) /\ LockedKeep(c, d)
           /\ d.dead = "alive" => d.free[t] # << >>
           /\ OnlyOf(c, d, t) /\ Removals(c, d)
<1>1. CASE c.free[t] # << >>
  <2>1. d = c
    BY <1>1 DEF MakeRoom
  <2> QED  BY <1>1, <2>1, SameIs DEF SameLocks
<1>2. CASE c.free[t] = << >> /\ Unlocked(c, t) = {}
  <2>1. d = Die(c, "full") /\ "full" \in Deaths
    BY <1>2 DEF MakeRoom, Deaths
  <2>2. /\ Consistent(d) /\ d.dead = "full" /\ SameLists(c, d) /\ SameLocks(c, d)
        /\ d.crec = c.crec /\ d.rcel = c.rcel /\ d.refs = c.refs
    BY <2>1, DieIs
  <2>3. d \in CacheType
    BY <2>2 DEF Consistent
  <2>4. Counted(d, out)
    BY <2>2, <2>3, CacheFieldsSame
  <2>5. d.table = c.table /\ d.key = c.key
    BY <2>2 DEF SameLists
  <2> QED  BY <2>2, <2>4, <2>5, SameIs
<1>3. CASE c.free[t] = << >> /\ Unlocked(c, t) # {}
  <2> DEFINE e == LeastRecent(c, t)
  <2>1. d = RemoveCel(c, e)
    BY <1>3 DEF MakeRoom
  <2>2. e \in El /\ Cache[e] = t /\ c.key[e] # NoKey /\ c.lock[e] = 0
    BY <1>3, LeastRecentIs
  <2> HIDE DEF e
  <2>3. /\ Consistent(d) /\ Counted(d, out) /\ SameLocks(c, d) /\ LockedKeep(c, d)
        /\ d.dead = c.dead
        /\ d.table = [c.table EXCEPT ![c.key[e]] = NoEl]
        /\ d.crec = [c.crec EXCEPT ![e] = NoRec]
        /\ d.free[Cache[e]] # << >>
    BY <2>1, <2>2, RemoveCelIs
  <2>4. c.table \in [Key -> El \cup {NoEl}] /\ c.crec \in [El -> Rec \cup {NoRec}]
    BY CacheFields DEF Consistent
  <2>5. TypeOf[c.key[e]] = t
    BY <2>2, ElementInUse
  <2>6. OnlyOf(c, d, t)
    BY <2>2, <2>3, <2>4, <2>5 DEF OnlyOf
  <2>7. Removals(c, d)
    BY <2>3, <2>4 DEF Removals
  <2> QED  BY <2>2, <2>3, <2>6, <2>7
<1> QED  BY <1>1, <1>2, <1>3

(* put_node_in_cache: a free element takes the record r, to which a          *)
(* reference is handed over.                                                 *)
Placed(c, k, r, e) ==
    [c EXCEPT !.direct = [c.direct EXCEPT ![TypeOf[k]] = FirstDirect(@, e)],
              !.free = [c.free EXCEPT ![TypeOf[k]] = Tail(@)],
              !.table = [c.table EXCEPT ![k] = e], !.key = [c.key EXCEPT ![e] = k],
              !.crec = [c.crec EXCEPT ![e] = r], !.rcel = [c.rcel EXCEPT ![r] = e]]

LEMMA PlacedIs ==
    ASSUME NEW c, Consistent(c), NEW k \in Key, NEW r, NEW e \in El, c.key[e] = NoKey,
           e = Head(c.free[TypeOf[k]])
    PROVE  Place(c, k, r) = Placed(c, k, r, e)
<1> DEFINE d == Place(c, k, r)
           t == TypeOf[k]
<1>1. c \in CacheType /\ c.lock \in [El -> Nat] /\ c.rpt \in [El -> Nat]
  BY CacheFields DEF Consistent
<1>2. c.lock[e] = 0 /\ c.rpt[e] = 0
  BY <1>1 DEF Consistent, RecordsLinked
<1>3. [c.lock EXCEPT ![e] = 0] = c.lock /\ [c.rpt EXCEPT ![e] = 0] = c.rpt
  BY <1>1, <1>2
<1>4. d = [c EXCEPT !.direct = [c.direct EXCEPT ![t] = FirstDirect(@, e)],
                    !.free = [c.free EXCEPT ![t] = Tail(@)],
                    !.table = [c.table EXCEPT ![k] = e], !.key = [c.key EXCEPT ![e] = k],
                    !.lock = [c.lock EXCEPT ![e] = 0], !.rpt = [c.rpt EXCEPT ![e] = 0],
                    !.crec = [c.crec EXCEPT ![e] = r], !.rcel = [c.rcel EXCEPT ![r] = e]]
  BY <1>1, ZenonT(40) DEF CacheType, Place
<1> HIDE DEF d
<1>5. d = Placed(c, k, r, e)
  BY <1>1, <1>3, <1>4, ZenonT(40) DEF CacheType, Placed
<1> QED  BY <1>5 DEF d

LEMMA PlaceIs ==
    ASSUME NEW c, Consistent(c), NEW out, Counted(c, out),
           NEW k \in Key, c.table[k] = NoEl, c.free[TypeOf[k]] # << >>,
           NEW r \in Rec, KeyOf(r) = k, out[r] > 0, \A x \in El : c.crec[x] # r,
           NEW d, d = Place(c, k, r)
    PROVE  /\ Consistent(d) /\ Counted(d, Less(out, r)) /\ SameLocks(c, d) /\ LockedKeep(c, d)
           /\ d.dead = c.dead
           /\ d.table[k] \in El
           /\ OnlyOf(c, d, TypeOf[k])
           /\ \A x \in El : d.crec[x] \in {c.crec[x], r}
<1> DEFINE t == TypeOf[k]
           e == Head(c.free[t])
           Used(b, u) == {x \in El : Cache[x] = u /\ b.key[x] # NoKey}
           Unused(b, u) == {x \in El : Cache[x] = u /\ b.key[x] = NoKey}
<1>1. c \in CacheType
  BY DEF Consistent
<1>2. /\ c.direct \in [Type -> Seq(El)] /\ c.free \in [Type -> Seq(El)]
      /\ c.table \in [Key -> El \cup {NoEl}] /\ c.key \in [El -> Key \cup {NoKey}]
      /\ c.lock \in [El -> Nat] /\ c.rpt \in [El -> Nat]
      /\ c.crec \in [El -> Rec \cup {NoRec}]
      /\ c.rcel \in [Rec -> El \cup {NoEl}] /\ c.refs \in [Rec -> Nat]
  BY <1>1, CacheFields
<1>3. t \in Type /\ NoKey \notin Key /\ NoEl \notin El /\ NoRec \notin Rec
  BY Constants
<1>4. \A u \in Type : ListOf(c.direct[u], Used(c, u)) /\ ListOf(c.free[u], Unused(c, u))
  BY <1>1, PlacedByType DEF Consistent, PlacedIn
<1>5. e \in Unused(c, t) /\ ListOf(Tail(c.free[t]), Unused(c, t) \ {e})
  <2> HIDE DEF Unused
  <2> QED  BY <1>3, <1>4, TakenIs
<1>6. e \in El /\ Cache[e] = t /\ c.key[e] = NoKey
  BY <1>5
<1> HIDE DEF e
<1>7. d = Placed(c, k, r, e)
  BY <1>6, PlacedIs DEF e
<1>8. /\ d.direct = [c.direct EXCEPT ![t] = FirstDirect(@, e)]
      /\ d.free = [c.free EXCEPT ![t] = Tail(@)]
      /\ d.table = [c.table EXCEPT ![k] = e] /\ d.key = [c.key EXCEPT ![e] = k]
      /\ d.crec = [c.crec EXCEPT ![e] = r] /\ d.rcel = [c.rcel EXCEPT ![r] = e]
      /\ d.lock = c.lock /\ d.rpt = c.rpt /\ d.refs = c.refs /\ d.dead = c.dead
  BY <1>1, <1>7 DEF Placed, CacheType
<1>9. /\ Used(d, t) = Used(c, t) \cup {e} /\ Unused(d, t) = Unused(c, t) \ {e}
      /\ e \notin Used(c, t)
  BY <1>2, <1>3, <1>6, <1>8
<1>10. \A u \in Type : u # t => Used(d, u) = Used(c, u) /\ Unused(d, u) = Unused(c, u)
  BY <1>2, <1>3, <1>6, <1>8
<1> HIDE DEF Used, Unused
<1>11. ListOf(FirstDirect(c.direct[t], e), Used(d, t)) /\ ListOf(Tail(c.free[t]), Unused(d, t))
  <2>1. ListOf(FirstDirect(c.direct[t], e), Used(c, t) \cup {e})
    BY <1>3, <1>4, <1>6, <1>9, FirstDirectIs
  <2> QED  BY <1>5, <1>9, <2>1
<1>12. d.direct \in [Type -> Seq(El)] /\ d.free \in [Type -> Seq(El)]
  <2>1. FirstDirect(c.direct[t], e) \in Seq(El) /\ Tail(c.free[t]) \in Seq(El)
    BY <1>11 DEF ListOf
  <2>2. [c.direct EXCEPT ![t] = FirstDirect(@, e)] \in [Type -> Seq(El)]
    BY <1>2, <2>1
  <2>3. [c.free EXCEPT ![t] = Tail(@)] \in [Type -> Seq(El)]
    BY <1>2, <2>1
  <2> QED  BY <1>8, <2>2, <2>3
<1>13. ASSUME NEW u \in Type PROVE ListOf(d.direct[u], Used(d, u)) /\ ListOf(d.free[u], Unused(d, u))
  <2>1. CASE u = t
    BY <1>2, <1>8, <1>11, <2>1
  <2>2. CASE u # t
    BY <1>2, <1>4, <1>8, <1>10, <2>2
  <2> QED  BY <2>1, <2>2
<1>14. /\ [c.table EXCEPT ![k] = e] \in [Key -> El \cup {NoEl}]
       /\ [c.key EXCEPT ![e] = k] \in [El -> Key \cup {NoKey}]
  BY <1>2, <1>6
<1>15. /\ [c.crec EXCEPT ![e] = r] \in [El -> Rec \cup {NoRec}]
       /\ [c.rcel EXCEPT ![r] = e] \in [Rec -> El \cup {NoEl}]
  BY <1>2, <1>6
<1>16. d \in CacheType
  BY <1>1, <1>7, <1>8, <1>12, <1>14, <1>15, ZenonT(40) DEF Placed, CacheType
<1>17. ElementsPlaced(d)
  BY <1>13, <1>16, PlacedByType DEF PlacedIn, Used, Unused
<1>18. TableExact(d)
  <2>1. ASSUME NEW l \in Key, d.table[l] # NoEl PROVE d.key[d.table[l]] = l
    <3>1. CASE l = k
      BY <1>2, <1>6, <1>8, <3>1
    <3>2. CASE l # k
      <4>1. d.table[l] = c.table[l] /\ c.table[l] \in El
        BY <1>2, <1>8, <2>1, <3>2
      <4>2. c.key[c.table[l]] = l
        BY <2>1, <4>1 DEF Consistent, TableExact
      <4>3. c.table[l] # e
        BY <1>3, <1>6, <4>2
      <4> QED  BY <1>2, <1>8, <4>1, <4>2, <4>3
    <3> QED  BY <3>1, <3>2
  <2>2. ASSUME NEW x \in El, d.key[x] # NoKey
        PROVE  d.table[d.key[x]] = x /\ TypeOf[d.key[x]] = Cache[x]
    <3>1. CASE x = e
      BY <1>2, <1>6, <1>8, <3>1
    <3>2. CASE x # e
      <4>1. d.key[x] = c.key[x]
        BY <1>2, <1>8, <3>2
      <4>2. c.table[c.key[x]] = x /\ TypeOf[c.key[x]] = Cache[x] /\ c.key[x] \in Key
        BY <1>2, <2>2, <4>1 DEF Consistent, TableExact
      <4>3. c.key[x] # k
        BY <1>3, <4>2
      <4> QED  BY <1>2, <1>8, <4>1, <4>2, <4>3
    <3> QED  BY <3>1, <3>2
  <2> QED  BY <2>1, <2>2 DEF TableExact
<1>19. c.refs[r] > 0
  <2>1. c.refs[r] = Own(c, r) + out[r] /\ Own(c, r) \in {0, 1} /\ out[r] \in Nat
    BY DEF Counted, Own
  <2> QED  BY <2>1
<1>20. RecordsLinked(d)
  <2> SUFFICES ASSUME NEW x \in El
               PROVE  /\ d.crec[x] # NoRec =>
                            /\ d.key[x] # NoKey
                            /\ d.refs[d.crec[x]] > 0 /\ d.rcel[d.crec[x]] = x
                            /\ KeyOf(d.crec[x]) = d.key[x]
                      /\ d.key[x] # NoKey => d.crec[x] # NoRec
                      /\ d.key[x] = NoKey => d.lock[x] = 0
                      /\ d.rpt[x] <= d.lock[x]
    BY DEF RecordsLinked
  <2>1. d.lock[x] = c.lock[x] /\ d.rpt[x] = c.rpt[x]
    BY <1>8
  <2>2. c.rpt[x] <= c.lock[x] /\ (c.key[x] = NoKey => c.lock[x] = 0)
    BY DEF Consistent, RecordsLinked
  <2>3. CASE x = e
    <3>1. d.crec[x] = r /\ d.key[x] = k /\ d.rcel[r] = e /\ d.refs[r] > 0
      BY <1>2, <1>6, <1>8, <1>19, <2>3
    <3> QED  BY <1>3, <2>1, <2>2, <2>3, <3>1
  <2>4. CASE x # e
    <3>1. d.crec[x] = c.crec[x] /\ d.key[x] = c.key[x]
      BY <1>2, <1>8, <2>4
    <3>2. c.crec[x] # NoRec => c.crec[x] \in Rec /\ c.crec[x] # r
      BY <1>2
    <3>3. c.crec[x] # NoRec => d.refs[c.crec[x]] = c.refs[c.crec[x]] /\ d.rcel[c.crec[x]] = c.rcel[c.crec[x]]
      BY <1>2, <1>8, <3>2
    <3>4. c.crec[x] # NoRec =>
            c.key[x] # NoKey /\ c.refs[c.crec[x]] > 0 /\ c.rcel[c.crec[x]] = x /\ KeyOf(c.crec[x]) = c.key[x]
      BY DEF Consistent, RecordsLinked
    <3>5. c.key[x] # NoKey => c.crec[x] # NoRec
      BY DEF Consistent, RecordsLinked
    <3> QED  BY <2>1, <2>2, <3>1, <3>3, <3>4, <3>5
  <2> QED  BY <2>3, <2>4
<1>21. Consistent(d)
  BY <1>16, <1>17, <1>18, <1>20 DEF Consistent
<1>22. Counted(d, Less(out, r))
  <2>1. out \in [Rec -> Nat] /\ \A q \in Rec : c.refs[q] = Own(c, q) + out[q]
    BY DEF Counted
  <2>2. Less(out, r) \in [Rec -> Nat] /\ \A q \in Rec : Less(out, r)[q] = IF q = r THEN out[q] - 1 ELSE out[q]
    BY <2>1 DEF Less
  <2>3. Own(c, r) = 0 /\ Own(d, r) = 1
    BY <1>2, <1>6, <1>8 DEF Own
  <2>4. ASSUME NEW q \in Rec, q # r PROVE Own(d, q) = Own(c, q)
    <3>1. \A x \in El : d.crec[x] = q <=> c.crec[x] = q
      <4>1. c.crec[e] = NoRec
        BY <1>6 DEF Consistent, RecordsLinked
      <4> QED  BY <1>2, <1>3, <1>8, <2>4, <4>1
    <3> QED  BY <3>1 DEF Own
  <2>5. ASSUME NEW q \in Rec PROVE d.refs[q] = Own(d, q) + Less(out, r)[q]
    <3>1. CASE q = r
      BY <1>8, <2>1, <2>2, <2>3, <3>1
    <3>2. CASE q # r
      BY <1>8, <2>1, <2>2, <2>4, <3>2
    <3> QED  BY <3>1, <3>2
  <2> QED  BY <2>2, <2>5 DEF Counted
<1>23. SameLocks(c, d)
  BY <1>8 DEF SameLocks
<1>24. LockedKeep(c, d)
  <2>1. c.lock[e] = 0
    BY <1>6 DEF Consistent, RecordsLinked
  <2> QED  BY <1>2, <1>8, <2>1 DEF LockedKeep
<1>25. OnlyOf(c, d, t)
  BY <1>2, <1>6, <1>8 DEF OnlyOf
<1>26. \A x \in El : d.crec[x] \in {c.crec[x], r}
  BY <1>2, <1>8
<1>27. d.table[k] \in El
  BY <1>2, <1>6, <1>8
<1> QED  BY <1>8, <1>21, <1>22, <1>23, <1>24, <1>25, <1>26, <1>27

(* node_to_cache: the element gets a reference of its own.                   *)
LEMMA NodeToCacheIs ==
    ASSUME NEW c, Consistent(c), NEW out, Counted(c, out), c.dead = "alive",
           NEW k \in Key, NEW r \in Rec, KeyOf(r) = k, \A x \in El : c.crec[x] # r,
           NEW d, d = NodeToCache(c, k, r)
    PROVE  /\ Consistent(d) /\ SameLocks(c, d) /\ LockedKeep(c, d)
           /\ d.dead = "alive" => Counted(d, out) /\ d.table[k] \in El /\ c.table[k] = NoEl
           /\ OnlyOf(c, d, TypeOf[k])
           /\ \A x \in El : d.crec[x] \in {c.crec[x], NoRec, r}
<1> DEFINE a == AddRef(c, r)
           b == MakeRoom(a, TypeOf[k])
<1>1. CASE c.table[k] # NoEl
  <2>1. d = Die(c, "assert") /\ "assert" \in Deaths
    BY <1>1 DEF NodeToCache, Deaths
  <2>2. /\ Consistent(d) /\ d.dead = "assert" /\ SameLists(c, d) /\ SameLocks(c, d)
        /\ d.crec = c.crec
    BY <2>1, DieIs
  <2>3. d.table = c.table /\ d.key = c.key
    BY <2>2 DEF SameLists
  <2> QED  BY <2>2, <2>3, SameIs
<1>2. CASE c.table[k] = NoEl
  <2>1. /\ Consistent(a) /\ Counted(a, More(out, r))
        /\ SameLists(c, a) /\ SameLocks(c, a) /\ a.dead = c.dead /\ a.crec = c.crec
    BY AddRefIs
  <2>2. a.table = c.table /\ a.key = c.key /\ TypeOf[k] \in Type
    BY <2>1, Constants DEF SameLists
  <2>3. d = IF b.dead # "alive" THEN b ELSE Place(b, k, r)
    BY <1>2 DEF NodeToCache
  <2> HIDE DEF a
  <2>4. /\ Consistent(b) /\ Counted(b, More(out, r)) /\ SameLocks(a, b) /\ LockedKeep(a, b)
        /\ b.dead = "alive" => b.free[TypeOf[k]] # << >>
        /\ OnlyOf(a, b, TypeOf[k]) /\ Removals(a, b)
    BY <2>1, <2>2, MakeRoomIs
  <2> HIDE DEF b
  <2>5. SameLocks(c, b) /\ LockedKeep(c, b) /\ OnlyOf(c, b, TypeOf[k])
    BY <2>1, <2>2, <2>4 DEF SameLocks, LockedKeep, OnlyOf
  <2>6. /\ \A x \in El : b.crec[x] \in {c.crec[x], NoRec}
        /\ b.table[k] = NoEl
    BY <1>2, <2>1, <2>2, <2>4 DEF Removals
  <2>7. CASE b.dead # "alive"
    BY <2>3, <2>4, <2>5, <2>6, <2>7
  <2>8. CASE b.dead = "alive"
    <3>1. d = Place(b, k, r)
      BY <2>3, <2>8
    <3>2. \A x \in El : b.crec[x] # r
      BY <2>6, Constants
    <3>3. More(out, r)[r] > 0 /\ Less(More(out, r), r) = out
      <4>1. out \in [Rec -> Nat]
        BY DEF Counted
      <4> QED  BY <4>1, MoreLess
    <3>4. /\ Consistent(d) /\ Counted(d, Less(More(out, r), r)) /\ SameLocks(b, d) /\ LockedKeep(b, d)
          /\ d.table[k] \in El
          /\ OnlyOf(b, d, TypeOf[k])
          /\ \A x \in El : d.crec[x] \in {b.crec[x], r}
      BY <2>4, <2>6, <2>8, <3>1, <3>2, <3>3, PlaceIs
    <3>5. SameLocks(c, d) /\ LockedKeep(c, d) /\ OnlyOf(c, d, TypeOf[k])
      BY <2>5, <3>4 DEF SameLocks, LockedKeep, OnlyOf
    <3>6. \A x \in El : d.crec[x] \in {c.crec[x], NoRec, r}
      BY <2>6, <3>4
    <3> QED  BY <1>2, <3>3, <3>4, <3>5, <3>6
  <2> QED  BY <2>7, <2>8
<1> QED  BY <1>1, <1>2

-----------------------------------------------------------------------------
(* Reading a record.                                                         *)

\* d is what reading the record of k makes of the caches c
Reads(c, d, k) ==
    /\ Consistent(d) /\ SameLocks(c, d) /\ LockedKeep(c, d) /\ OnlyOf(c, d, TypeOf[k])
    /\ d.dead = "alive" => d.table[k] \in El
    /\ c.table[k] # NoEl =>
          d.table = c.table /\ d.crec = c.crec /\ d.key = c.key /\ d.dead = c.dead
    /\ \A x \in El : \/ d.crec[x] \in {c.crec[x], NoRec}
                     \/ d.crec[x] \in Rec /\ c.refs[d.crec[x]] = 0

LEMMA DirectToFirstKeeps ==
    ASSUME NEW c, Consistent(c), NEW out, Counted(c, out), NEW k \in Key, c.table[k] # NoEl,
           NEW d, d = [c EXCEPT !.direct[TypeOf[k]] = DirectToFirst(@, c.table[k])]
    PROVE  /\ Consistent(d) /\ Counted(d, out) /\ SameLocks(c, d) /\ d.dead = c.dead
           /\ d.table = c.table /\ d.crec = c.crec /\ d.key = c.key
<1> DEFINE t == TypeOf[k]
           e == c.table[k]
<1>1. c \in CacheType /\ t \in Type
  BY Constants DEF Consistent
<1>2. /\ c.direct \in [Type -> Seq(El)] /\ c.free \in [Type -> Seq(El)]
      /\ c.table \in [Key -> El \cup {NoEl}] /\ c.key \in [El -> Key \cup {NoKey}]
  BY <1>1, CacheFields
<1>3. e \in El /\ c.key[e] = k /\ k # NoKey
  BY <1>2, Constants DEF Consistent, TableExact
<1>4. TypeOf[k] = Cache[e]
  BY <1>3 DEF Consistent, TableExact
<1>5. d = [c EXCEPT !.direct = [c.direct EXCEPT ![t] = DirectToFirst(@, e)]]
  OBVIOUS
<1>6. \A u \in Type : /\ ListOf(c.direct[u], {x \in El : Cache[x] = u /\ c.key[x] # NoKey})
                      /\ ListOf(c.free[u], {x \in El : Cache[x] = u /\ c.key[x] = NoKey})
  BY <1>1, PlacedByType DEF Consistent, PlacedIn
<1>7. ListOf(DirectToFirst(c.direct[t], e), {x \in El : Cache[x] = t /\ c.key[x] # NoKey})
  <2> DEFINE S == {x \in El : Cache[x] = t /\ c.key[x] # NoKey}
  <2>1. e \in S /\ ListOf(c.direct[t], S)
    BY <1>1, <1>3, <1>4, <1>6
  <2> HIDE DEF S
  <2>2. ListOf(DirectToFirst(c.direct[t], e), S)
    BY <2>1, DirectToFirstIs
  <2> QED  BY <2>2 DEF S
<1>8. DirectToFirst(c.direct[t], e) \in Seq(El)
  BY <1>7 DEF ListOf
<1>9. [c.direct EXCEPT ![t] = DirectToFirst(@, e)] \in [Type -> Seq(El)]
  BY <1>2, <1>8
<1>10. d \in CacheType
  BY <1>1, <1>5, <1>9 DEF CacheType
<1>11. /\ d.direct = [c.direct EXCEPT ![t] = DirectToFirst(@, e)] /\ d.free = c.free
       /\ d.table = c.table /\ d.key = c.key /\ d.lock = c.lock /\ d.rpt = c.rpt
       /\ d.crec = c.crec /\ d.rcel = c.rcel /\ d.refs = c.refs /\ d.dead = c.dead
  BY <1>1, <1>5 DEF CacheType
<1>12. ASSUME NEW u \in Type PROVE PlacedIn(d, u)
  <2>1. CASE u = t
    <3>1. d.direct[t] = DirectToFirst(c.direct[t], e) /\ d.free[t] = c.free[t] /\ d.key = c.key
      BY <1>1, <1>2, <1>11
    <3> QED  BY <1>1, <1>6, <1>7, <2>1, <3>1 DEF PlacedIn
  <2>2. CASE u # t
    BY <1>2, <1>6, <1>11, <2>2, ZenonT(40) DEF PlacedIn
  <2> QED  BY <2>1, <2>2
<1>13. ElementsPlaced(d)
  BY <1>10, <1>12, PlacedByType
<1>14. TableExact(d) /\ RecordsLinked(d)
  BY <1>11 DEF Consistent, TableExact, RecordsLinked
<1>15. Consistent(d)
  BY <1>10, <1>13, <1>14 DEF Consistent
<1>16. Counted(d, out)
  BY <1>11 DEF Counted, Own
<1> QED  BY <1>11, <1>15, <1>16 DEF SameLocks

(* key_to_cacheel: no reference of the program comes or goes.                *)
LEMMA KeyToCacheelIs ==
    ASSUME NEW c, Consistent(c), NEW out, Counted(c, out), c.dead = "alive",
           NEW k \in Key, NEW d, d = KeyToCacheel(c, k)
    PROVE  Reads(c, d, k) /\ (d.dead = "alive" => Counted(d, out))
<1>0. c \in CacheType /\ c.table \in [Key -> El \cup {NoEl}]
  BY CacheFields DEF Consistent
<1>1. CASE c.table[k] # NoEl /\ c.crec[c.table[k]] = NoRec
  <2>1. c.table[k] \in El /\ c.key[c.table[k]] = k /\ k # NoKey
    BY <1>0, <1>1, Constants DEF Consistent, TableExact
  <2> QED  BY <1>1, <2>1 DEF Consistent, RecordsLinked
<1>2. CASE c.table[k] # NoEl /\ c.crec[c.table[k]] # NoRec
  <2>1. d = [c EXCEPT !.direct[TypeOf[k]] = DirectToFirst(@, c.table[k])]
    BY <1>2 DEF KeyToCacheel
  <2>2. /\ Consistent(d) /\ Counted(d, out) /\ SameLocks(c, d) /\ d.dead = c.dead
        /\ d.table = c.table /\ d.crec = c.crec /\ d.key = c.key
    BY <1>2, <2>1, DirectToFirstKeeps
  <2>3. OnlyOf(c, d, TypeOf[k]) /\ LockedKeep(c, d)
    BY <2>2, SameIs
  <2>4. d.table[k] \in El
    BY <1>0, <1>2, <2>2
  <2> QED  BY <2>2, <2>3, <2>4 DEF Reads
<1>3. CASE c.table[k] = NoEl /\ NoMemory(c, k)
  <2>1. d = Die(c, "memory") /\ "memory" \in Deaths
    BY <1>3 DEF KeyToCacheel, Deaths
  <2>2. /\ Consistent(d) /\ d.dead = "memory" /\ SameLists(c, d) /\ SameLocks(c, d)
        /\ d.crec = c.crec
    BY <2>1, DieIs
  <2>3. d.table = c.table /\ d.key = c.key
    BY <2>2 DEF SameLists
  <2>4. OnlyOf(c, d, TypeOf[k]) /\ LockedKeep(c, d)
    BY <2>2, <2>3, SameIs
  <2>5. d.dead # "alive" /\ c.table[k] = NoEl
    BY <1>3, <2>2
  <2>6. \A x \in El : d.crec[x] \in {c.crec[x], NoRec}
    BY <2>2
  <2> QED  BY <2>2, <2>4, <2>5, <2>6, ZenonT(40) DEF Reads
<1>4. CASE c.table[k] = NoEl /\ ~NoMemory(c, k)
  <2> DEFINE r == Fresh(c, k)
  <2>1. d = NodeToCache(c, k, r)
    BY <1>4 DEF KeyToCacheel
  <2>2. r \in Rec /\ KeyOf(r) = k /\ c.refs[r] = 0
    BY <1>0, <1>4, FreshIs
  <2> HIDE DEF r
  <2>3. \A x \in El : c.crec[x] # r
    BY <2>2, Constants DEF Consistent, RecordsLinked
  <2>4. /\ Consistent(d) /\ SameLocks(c, d) /\ LockedKeep(c, d)
        /\ d.dead = "alive" => Counted(d, out) /\ d.table[k] \in El /\ c.table[k] = NoEl
        /\ OnlyOf(c, d, TypeOf[k])
        /\ \A x \in El : d.crec[x] \in {c.crec[x], NoRec, r}
    BY <2>1, <2>2, <2>3, NodeToCacheIs
  <2>5. \A x \in El : \/ d.crec[x] \in {c.crec[x], NoRec}
                      \/ d.crec[x] \in Rec /\ c.refs[d.crec[x]] = 0
    BY <2>2, <2>4
  <2> QED  BY <1>4, <2>4, <2>5 DEF Reads
<1> QED  BY <1>1, <1>2, <1>3, <1>4

LEMMA ReadsOn ==
    ASSUME NEW c, NEW b, NEW k, Reads(c, b, k),
           NEW d, Consistent(d), SameLists(b, d), SameLocks(b, d), d.crec = b.crec, d.dead = b.dead
    PROVE  Reads(c, d, k)
  BY DEF Reads, SameLists, SameLocks, LockedKeep, OnlyOf

LEMMA RecordOfIs ==
    ASSUME NEW c, Consistent(c), NEW k \in Key, c.table[k] # NoEl
    PROVE  /\ c.table[k] \in El /\ c.key[c.table[k]] = k
           /\ RecordOf(c, k) \in Rec /\ KeyOf(RecordOf(c, k)) = k
<1>1. c \in CacheType /\ c.table \in [Key -> El \cup {NoEl}]
  BY CacheFields DEF Consistent
<1>2. c.table[k] \in El /\ c.key[c.table[k]] = k /\ c.key[c.table[k]] # NoKey
  BY <1>1, Constants DEF Consistent, TableExact
<1>3. c.crec[c.table[k]] \in Rec /\ KeyOf(c.crec[c.table[k]]) = k
  BY <1>2, ElementInUse
<1> QED  BY <1>2, <1>3 DEF RecordOf

(* key_to_record                                                             *)
LEMMA KeyToRecordIs ==
    ASSUME NEW c, Consistent(c), NEW out, Counted(c, out), c.dead = "alive",
           NEW k \in Key, NEW d, d = KeyToRecord(c, k)
    PROVE  /\ Reads(c, d, k)
           /\ d.dead = "alive" => RecordOf(d, k) \in Rec /\ Counted(d, More(out, RecordOf(d, k)))
<1> DEFINE b == KeyToCacheel(c, k)
           r == RecordOf(b, k)
<1>1. Reads(c, b, k) /\ (b.dead = "alive" => Counted(b, out))
  BY KeyToCacheelIs
<1>2. d = IF b.dead # "alive" THEN b ELSE AddRef(b, r)
  BY DEF KeyToRecord
<1> HIDE DEF b
<1>3. CASE b.dead # "alive"
  BY <1>1, <1>2, <1>3
<1>4. CASE b.dead = "alive"
  <2>1. Consistent(b) /\ b.table[k] \in El /\ Counted(b, out)
    BY <1>1, <1>4 DEF Reads
  <2>2. r \in Rec
    BY <2>1, RecordOfIs, Constants
  <2> HIDE DEF r
  <2>3. d = AddRef(b, r)
    BY <1>2, <1>4
  <2>4. /\ Consistent(d) /\ Counted(d, More(out, r))
        /\ SameLists(b, d) /\ SameLocks(b, d) /\ d.dead = b.dead /\ d.crec = b.crec
    BY <2>1, <2>2, <2>3, AddRefIs
  <2>5. Reads(c, d, k)
    BY <1>1, <2>4, ReadsOn
  <2>6. RecordOf(d, k) = r
    BY <2>4 DEF RecordOf, SameLists, r
  <2> QED  BY <2>2, <2>4, <2>5, <2>6
<1> QED  BY <1>3, <1>4

(* nztop, for a record to which somebody has a reference.                    *)
LEMMA NztopIs ==
    ASSUME NEW c, Consistent(c), NEW out, Counted(c, out), c.dead = "alive",
           NEW r \in Rec, out[r] > 0, NEW stored, NEW d, d = Nztop(c, r, stored)
    PROVE  /\ Consistent(d) /\ SameLocks(c, d) /\ LockedKeep(c, d)
           /\ d.dead = "alive" => Counted(d, out)
<1> DEFINE k == KeyOf(r)
           b == KeyToCacheel(c, k)
<1>0. k \in Key
  BY RecKey
<1>1. CASE IsLoaded(c, r)
  <2>1. d = c
    BY <1>1 DEF Nztop
  <2> QED  BY <2>1 DEF SameLocks, LockedKeep
<1>2. CASE ~IsLoaded(c, r) /\ k \notin stored
  <2>1. d = Die(c, "missing") /\ "missing" \in Deaths
    BY <1>2 DEF Nztop, Deaths
  <2>2. /\ Consistent(d) /\ d.dead = "missing" /\ SameLists(c, d) /\ SameLocks(c, d)
    BY <2>1, DieIs
  <2> QED  BY <2>2 DEF SameLists, LockedKeep
<1>3. CASE ~IsLoaded(c, r) /\ k \in stored
  <2>1. d = IF b.dead # "alive" THEN b ELSE [b EXCEPT !.rcel[r] = b.table[k]]
    BY <1>3 DEF Nztop
  <2> HIDE DEF k
  <2>2. Reads(c, b, k) /\ (b.dead = "alive" => Counted(b, out))
    BY <1>0, KeyToCacheelIs
  <2> HIDE DEF b
  <2>3. CASE b.dead # "alive"
    BY <2>1, <2>2, <2>3 DEF Reads
  <2>4. CASE b.dead = "alive"
    <3>1. Consistent(b) /\ Counted(b, out) /\ b.table[k] \in El /\ b \in CacheType
      BY <2>2, <2>4 DEF Reads, Consistent
    <3>2. b.rcel \in [Rec -> El \cup {NoEl}]
      BY <3>1, CacheFields
    <3>3. d = [b EXCEPT !.rcel = [b.rcel EXCEPT ![r] = b.table[k]]]
      BY <2>1, <2>4
    <3>4. [b.rcel EXCEPT ![r] = b.table[k]] \in [Rec -> El \cup {NoEl}]
      BY <3>1, <3>2
    <3>5. d \in CacheType
      BY <3>1, <3>3, <3>4 DEF CacheType
    <3>6. /\ d.direct = b.direct /\ d.free = b.free /\ d.table = b.table /\ d.key = b.key
          /\ d.lock = b.lock /\ d.rpt = b.rpt /\ d.crec = b.crec /\ d.refs = b.refs
          /\ d.dead = b.dead /\ d.rcel = [b.rcel EXCEPT ![r] = b.table[k]]
      BY <3>1, <3>3 DEF CacheType
    <3>7. SameLists(b, d) /\ SameLocks(b, d)
      BY <3>6 DEF SameLists, SameLocks
    <3>8. ASSUME NEW x \in El PROVE c.crec[x] # r
      <4>1. c.crec[x] = r => c.rcel[r] = x /\ c.key[x] = KeyOf(r)
        BY Constants DEF Consistent, RecordsLinked
      <4> QED  BY <1>3, <4>1, Constants DEF IsLoaded
    <3>9. c.refs[r] > 0
      <4>1. c.refs[r] = Own(c, r) + out[r] /\ Own(c, r) \in {0, 1} /\ out[r] \in Nat
        BY DEF Counted, Own
      <4> QED  BY <4>1
    <3>10. \A x \in El : b.crec[x] # r
      BY <2>2, <3>8, <3>9, Constants DEF Reads
    <3>11. RecordsLinked(d)
      <4>1. \A x \in El : b.crec[x] # NoRec => b.crec[x] \in Rec /\ d.rcel[b.crec[x]] = b.rcel[b.crec[x]]
        <5>1. b.crec \in [El -> Rec \cup {NoRec}]
          BY <3>1, CacheFields
        <5> QED  BY <3>2, <3>6, <3>10, <5>1
      <4> QED  BY <3>1, <3>6, <4>1 DEF Consistent, RecordsLinked
    <3>12. Consistent(d)
      BY <3>1, <3>5, <3>7, <3>11, ListsAgain DEF Consistent
    <3>13. Counted(d, out)
      BY <3>1, <3>6 DEF Counted, Own
    <3>14. SameLocks(c, d) /\ LockedKeep(c, d)
      BY <2>2, <3>6 DEF Reads, SameLocks, LockedKeep
    <3> QED  BY <3>12, <3>13, <3>14
  <2> QED  BY <2>3, <2>4
<1> QED  BY <1>1, <1>2, <1>3

(* The element to which nztop points the record has the tree of its key.     *)
LEMMA NztopFinds ==
    ASSUME NEW c, Consistent(c), NEW out, Counted(c, out), c.dead = "alive",
           NEW r \in Rec, NEW stored, NEW d, d = Nztop(c, r, stored), d.dead = "alive"
    PROVE  d.key[d.rcel[r]] = KeyOf(r)
<1> DEFINE k == KeyOf(r)
           b == KeyToCacheel(c, k)
<1>0. k \in Key
  BY RecKey
<1>1. CASE IsLoaded(c, r)
  BY <1>1 DEF Nztop, IsLoaded
<1>2. CASE ~IsLoaded(c, r) /\ k \notin stored
  <2>1. d = Die(c, "missing") /\ "missing" \in Deaths
    BY <1>2 DEF Nztop, Deaths
  <2>2. d.dead = "missing"
    BY <2>1, DieIs
  <2> QED  BY <2>2
<1>3. CASE ~IsLoaded(c, r) /\ k \in stored
  <2>1. d = IF b.dead # "alive" THEN b ELSE [b EXCEPT !.rcel[r] = b.table[k]]
    BY <1>3 DEF Nztop
  <2> HIDE DEF k
  <2>2. Reads(c, b, k)
    BY <1>0, KeyToCacheelIs
  <2> HIDE DEF b
  <2>3. b.dead = "alive"
    BY <2>1
  <2>4. Consistent(b) /\ b.table[k] \in El /\ b \in CacheType
    BY <2>2, <2>3 DEF Reads, Consistent
  <2>5. b.rcel \in [Rec -> El \cup {NoEl}]
    BY <2>4, CacheFields
  <2>6. d = [b EXCEPT !.rcel = [b.rcel EXCEPT ![r] = b.table[k]]]
    BY <2>1, <2>3
  <2>7. d.rcel[r] = b.table[k] /\ d.key = b.key
    BY <2>4, <2>5, <2>6 DEF CacheType
  <2>8. b.key[b.table[k]] = k
    BY <1>0, <2>4, Constants DEF Consistent, TableExact
  <2> QED  BY <2>7, <2>8 DEF k
<1> QED  BY <1>1, <1>2, <1>3

(* add_new_indi_to_cache: the maker's reference is gone when it returns.     *)
LEMMA AddNewIs ==
    ASSUME NEW c, Consistent(c), NEW out, Counted(c, out), c.dead = "alive",
           NEW k \in Key, NEW d, d = AddNew(c, k)
    PROVE  /\ Consistent(d) /\ SameLocks(c, d) /\ LockedKeep(c, d)
           /\ d.dead = "alive" => Counted(d, out)
<1> DEFINE r == Fresh(c, k)
           a == AddRef(c, r)
           b == NodeToCache(a, k, r)
<1>0. c \in CacheType /\ out \in [Rec -> Nat]
  BY DEF Consistent, Counted
<1>1. CASE NoMemory(c, k)
  <2>1. d = Die(c, "memory") /\ "memory" \in Deaths
    BY <1>1 DEF AddNew, Deaths
  <2>2. /\ Consistent(d) /\ d.dead = "memory" /\ SameLists(c, d) /\ SameLocks(c, d)
    BY <2>1, DieIs
  <2> QED  BY <2>2 DEF SameLists, LockedKeep
<1>2. CASE ~NoMemory(c, k)
  <2>1. r \in Rec /\ KeyOf(r) = k /\ c.refs[r] = 0
    BY <1>0, <1>2, FreshIs
  <2>2. d = IF b.dead # "alive" THEN b ELSE Release(b, r)
    BY <1>2 DEF AddNew
  <2> HIDE DEF r
  <2>3. \A x \in El : c.crec[x] # r
    BY <2>1, Constants DEF Consistent, RecordsLinked
  <2>4. /\ Consistent(a) /\ Counted(a, More(out, r))
        /\ SameLists(c, a) /\ SameLocks(c, a) /\ a.dead = c.dead /\ a.crec = c.crec
    BY <2>1, AddRefIs
  <2> HIDE DEF a
  <2>5. a.key = c.key /\ \A x \in El : a.crec[x] # r
    BY <2>3, <2>4 DEF SameLists
  <2>6. /\ Consistent(b) /\ SameLocks(a, b) /\ LockedKeep(a, b)
        /\ b.dead = "alive" => Counted(b, More(out, r))
    BY <2>1, <2>4, <2>5, NodeToCacheIs
  <2> HIDE DEF b
  <2>7. SameLocks(c, b) /\ LockedKeep(c, b)
    BY <2>4, <2>5, <2>6 DEF SameLocks, LockedKeep
  <2>8. CASE b.dead # "alive"
    BY <2>2, <2>6, <2>7, <2>8
  <2>9. CASE b.dead = "alive"
    <3>1. d = Release(b, r) /\ Counted(b, More(out, r))
      BY <2>2, <2>6, <2>9
    <3>2. More(out, r)[r] > 0 /\ Less(More(out, r), r) = out
      BY <1>0, <2>1, MoreLess
    <3>3. Consistent(d) /\ Counted(d, Less(More(out, r), r)) /\ SameLists(b, d) /\ SameLocks(b, d)
      BY <2>1, <2>6, <3>1, <3>2, ReleaseIs
    <3>4. SameLocks(c, d) /\ LockedKeep(c, d)
      BY <2>7, <3>3 DEF SameLocks, SameLists, LockedKeep
    <3> QED  BY <3>2, <3>3, <3>4
  <2> QED  BY <2>8, <2>9
<1> QED  BY <1>1, <1>2

(* Removing the record of a key, which somebody may have locked.             *)
LEMMA RemoveFromCacheIs ==
    ASSUME NEW c, Consistent(c), NEW out, Counted(c, out), c.dead = "alive",
           NEW k \in Key, NEW d, d = RemoveFromCache(c, k)
    PROVE  Consistent(d) /\ Counted(d, out) /\ SameLocks(c, d) /\ LockedKeep(c, d)
<1> DEFINE e == c.table[k]
<1>0. "locked" \in Deaths /\ "assert" \in Deaths /\ c.lock \in [El -> Nat]
  BY CacheFields DEF Deaths, Consistent
<1>1. ASSUME NEW how \in Deaths, d = Die(c, how)
      PROVE  Consistent(d) /\ Counted(d, out) /\ SameLocks(c, d) /\ LockedKeep(c, d)
  <2>1. /\ Consistent(d) /\ SameLists(c, d) /\ SameLocks(c, d)
        /\ d.crec = c.crec /\ d.rcel = c.rcel /\ d.refs = c.refs
    BY <1>1, DieIs
  <2>2. Counted(d, out)
    BY <2>1 DEF Counted, Own
  <2> QED  BY <2>1, <2>2 DEF SameLists, LockedKeep
<1>2. CASE e = NoEl
  BY <1>0, <1>1, <1>2 DEF RemoveFromCache
<1>3. CASE e # NoEl
  <2>1. d = RemoveCel(c, e) /\ e \in El /\ c.key[e] # NoKey
    BY <1>3, RecordOfIs, Constants DEF RemoveFromCache
  <2> HIDE DEF e
  <2>2. CASE c.lock[e] > 0
    <3>1. d = Die(c, "locked")
      BY <2>1, <2>2 DEF RemoveCel
    <3> QED  BY <1>0, <1>1, <3>1
  <2>3. CASE ~(c.lock[e] > 0)
    <3>1. c.lock[e] = 0
      BY <1>0, <2>1, <2>3
    <3>2. /\ Consistent(d) /\ Counted(d, out) /\ SameLocks(c, d) /\ LockedKeep(c, d)
          /\ d.dead = c.dead
          /\ d.table = [c.table EXCEPT ![c.key[e]] = NoEl]
          /\ d.crec = [c.crec EXCEPT ![e] = NoRec]
          /\ d.free[Cache[e]] # << >>
      BY <2>1, <3>1, RemoveCelIs
    <3> QED  BY <3>2
  <2> QED  BY <2>2, <2>3
<1> QED  BY <1>2, <1>3

-----------------------------------------------------------------------------
(* Locks.                                                                    *)

\* locks that the caches c may have
LocksFor(c, lk, rp) ==
    /\ lk \in [El -> Nat] /\ rp \in [El -> Nat]
    /\ \A e \in El : (c.key[e] = NoKey => lk[e] = 0) /\ rp[e] <= lk[e]

Relocked(c, lk, rp) == [c EXCEPT !.lock = lk, !.rpt = rp]

LEMMA RelockIs ==
    ASSUME NEW c, Consistent(c), NEW out, Counted(c, out), NEW lk, NEW rp, LocksFor(c, lk, rp),
           NEW d, d = Relocked(c, lk, rp)
    PROVE  /\ Consistent(d) /\ Counted(d, out) /\ SameLists(c, d)
           /\ d.lock = lk /\ d.rpt = rp /\ d.dead = c.dead /\ d.crec = c.crec
<1>1. c \in CacheType
  BY DEF Consistent
<1>2. d \in CacheType
  BY <1>1 DEF LocksFor, CacheType, Relocked
<1>3. /\ d.direct = c.direct /\ d.free = c.free /\ d.table = c.table /\ d.key = c.key
      /\ d.lock = lk /\ d.rpt = rp
      /\ d.crec = c.crec /\ d.rcel = c.rcel /\ d.refs = c.refs /\ d.dead = c.dead
  BY <1>1 DEF CacheType, Relocked
<1>4. SameLists(c, d)
  BY <1>3 DEF SameLists
<1>5. RecordsLinked(d)
  BY <1>3 DEF Consistent, RecordsLinked, LocksFor
<1>6. Consistent(d)
  BY <1>2, <1>4, <1>5, ListsAgain DEF Consistent
<1>7. Counted(d, out)
  BY <1>3 DEF Counted, Own
<1> QED  BY <1>3, <1>4, <1>6, <1>7

LEMMA LockCacheIs ==
    ASSUME NEW c, Consistent(c), NEW out, Counted(c, out), NEW e \in El, c.key[e] # NoKey,
           NEW d, d = LockCache(c, e)
    PROVE  /\ Consistent(d) /\ Counted(d, out) /\ SameLists(c, d) /\ d.dead = c.dead
           /\ \A x \in El : d.lock[x] = IF x = e THEN c.lock[x] + 1 ELSE c.lock[x]
           /\ d.rpt = c.rpt
<1> DEFINE lk == [c.lock EXCEPT ![e] = @ + 1]
<1>1. c \in CacheType /\ c.lock \in [El -> Nat] /\ c.rpt \in [El -> Nat]
  BY CacheFields DEF Consistent
<1>2. lk \in [El -> Nat] /\ \A x \in El : lk[x] = IF x = e THEN c.lock[x] + 1 ELSE c.lock[x]
  BY <1>1
<1>3. d = Relocked(c, lk, c.rpt)
  BY <1>1 DEF LockCache, CacheType, Relocked
<1> HIDE DEF lk
<1>4. LocksFor(c, lk, c.rpt)
  <2>1. \A x \in El : (c.key[x] = NoKey => c.lock[x] = 0) /\ c.rpt[x] <= c.lock[x]
    BY DEF Consistent, RecordsLinked
  <2> QED  BY <1>1, <1>2, <2>1 DEF LocksFor
<1>5. Consistent(d) /\ Counted(d, out) /\ SameLists(c, d) /\ d.lock = lk /\ d.rpt = c.rpt /\ d.dead = c.dead
  BY <1>3, <1>4, RelockIs
<1> QED  BY <1>2, <1>5

LEMMA LockRptIs ==
    ASSUME NEW c, Consistent(c), NEW out, Counted(c, out), NEW e \in El, c.key[e] # NoKey,
           NEW d, d = LockRpt(c, e)
    PROVE  /\ Consistent(d) /\ Counted(d, out) /\ SameLists(c, d) /\ d.dead = c.dead
           /\ \A x \in El : d.lock[x] = IF x = e THEN c.lock[x] + 1 ELSE c.lock[x]
           /\ \A x \in El : d.rpt[x] = IF x = e THEN c.rpt[x] + 1 ELSE c.rpt[x]
<1> DEFINE lk == [c.lock EXCEPT ![e] = @ + 1]
           rp == [c.rpt EXCEPT ![e] = @ + 1]
<1>1. c \in CacheType /\ c.lock \in [El -> Nat] /\ c.rpt \in [El -> Nat]
  BY CacheFields DEF Consistent
<1>2. lk \in [El -> Nat] /\ \A x \in El : lk[x] = IF x = e THEN c.lock[x] + 1 ELSE c.lock[x]
  BY <1>1
<1>3. rp \in [El -> Nat] /\ \A x \in El : rp[x] = IF x = e THEN c.rpt[x] + 1 ELSE c.rpt[x]
  BY <1>1
<1>4. d = Relocked(c, lk, rp)
  BY <1>1 DEF LockRpt, CacheType, Relocked
<1> HIDE DEF lk, rp
<1>5. LocksFor(c, lk, rp)
  <2>1. \A x \in El : (c.key[x] = NoKey => c.lock[x] = 0) /\ c.rpt[x] <= c.lock[x]
    BY DEF Consistent, RecordsLinked
  <2>2. \A x \in El : rp[x] <= lk[x] /\ (c.key[x] = NoKey => lk[x] = 0)
    BY <1>1, <1>2, <1>3, <2>1
  <2> QED  BY <1>2, <1>3, <2>2 DEF LocksFor
<1>6. Consistent(d) /\ Counted(d, out) /\ SameLists(c, d) /\ d.lock = lk /\ d.rpt = rp /\ d.dead = c.dead
  BY <1>4, <1>5, RelockIs
<1> QED  BY <1>2, <1>3, <1>6

(* unlocking what a report locked, which may end the program                 *)
LEMMA UnlockRptIs ==
    ASSUME NEW c, Consistent(c), NEW out, Counted(c, out), c.dead = "alive", NEW e \in El,
           NEW d, d = UnlockRpt(c, e)
    PROVE  /\ Consistent(d) /\ Counted(d, out) /\ SameLists(c, d)
           /\ d.dead = "alive" => \A x \in El :
                 /\ d.lock[x] = IF x = e THEN c.lock[x] - 1 ELSE c.lock[x]
                 /\ d.rpt[x] = IF x = e THEN c.rpt[x] - 1 ELSE c.rpt[x]
<1>1. c \in CacheType /\ c.lock \in [El -> Nat] /\ c.rpt \in [El -> Nat]
  BY CacheFields DEF Consistent
<1>2. CASE c.lock[e] = 0 \/ c.rpt[e] = 0 \/ c.key[e] = NoKey
  <2>1. d = Die(c, "unlocked") /\ "unlocked" \in Deaths
    BY <1>2 DEF UnlockRpt, Deaths
  <2>2. /\ Consistent(d) /\ d.dead = "unlocked" /\ SameLists(c, d)
        /\ d.crec = c.crec /\ d.rcel = c.rcel /\ d.refs = c.refs
    BY <2>1, DieIs
  <2>3. Counted(d, out)
    BY <2>2 DEF Counted, Own
  <2> QED  BY <2>2, <2>3
<1>3. CASE ~(c.lock[e] = 0 \/ c.rpt[e] = 0 \/ c.key[e] = NoKey)
  <2> DEFINE lk == [c.lock EXCEPT ![e] = @ - 1]
             rp == [c.rpt EXCEPT ![e] = @ - 1]
  <2>1. c.lock[e] - 1 \in Nat /\ c.rpt[e] - 1 \in Nat
    BY <1>1, <1>3
  <2>2. lk \in [El -> Nat] /\ \A x \in El : lk[x] = IF x = e THEN c.lock[x] - 1 ELSE c.lock[x]
    BY <1>1, <2>1
  <2>3. rp \in [El -> Nat] /\ \A x \in El : rp[x] = IF x = e THEN c.rpt[x] - 1 ELSE c.rpt[x]
    BY <1>1, <2>1
  <2>4. d = Relocked(c, lk, rp)
    BY <1>1, <1>3 DEF UnlockRpt, CacheType, Relocked
  <2> HIDE DEF lk, rp
  <2>5. LocksFor(c, lk, rp)
    <3>1. \A x \in El : (c.key[x] = NoKey => c.lock[x] = 0) /\ c.rpt[x] <= c.lock[x]
      BY DEF Consistent, RecordsLinked
    <3>2. \A x \in El : rp[x] <= lk[x] /\ (c.key[x] = NoKey => lk[x] = 0)
      BY <1>1, <1>3, <2>2, <2>3, <3>1
    <3> QED  BY <2>2, <2>3, <3>2 DEF LocksFor
  <2>6. Consistent(d) /\ Counted(d, out) /\ SameLists(c, d) /\ d.lock = lk /\ d.rpt = rp
    BY <2>4, <2>5, RelockIs
  <2> QED  BY <2>2, <2>3, <2>6
<1> QED  BY <1>2, <1>3

(* free_all_rprtlocks, which leaves out the events                           *)
LEMMA FreeAllRptLocksIs ==
    ASSUME NEW c, Consistent(c), NEW out, Counted(c, out), NEW d, d = FreeAllRptLocks(c)
    PROVE  /\ Consistent(d) /\ Counted(d, out) /\ SameLists(c, d) /\ d.dead = c.dead
           /\ \A x \in El : /\ d.lock[x] - d.rpt[x] = c.lock[x] - c.rpt[x]
                            /\ Cache[x] # "EVEN" => d.rpt[x] = 0
<1> DEFINE listed == {"INDI", "FAM", "SOUR", "OTHR"}
           lk == [e \in El |-> IF Cache[e] \in listed THEN c.lock[e] - c.rpt[e] ELSE c.lock[e]]
           rp == [e \in El |-> IF Cache[e] \in listed THEN 0 ELSE c.rpt[e]]
<1>1. c \in CacheType /\ c.lock \in [El -> Nat] /\ c.rpt \in [El -> Nat]
  BY CacheFields DEF Consistent
<1>2. d = Relocked(c, lk, rp)
  BY <1>1 DEF FreeAllRptLocks, FreeRptLocksIn, CacheType, Relocked
<1>3. \A x \in El : (c.key[x] = NoKey => c.lock[x] = 0) /\ c.rpt[x] <= c.lock[x]
  BY DEF Consistent, RecordsLinked
<1>4. ASSUME NEW x \in El
      PROVE  /\ lk[x] \in Nat /\ rp[x] \in Nat /\ rp[x] <= lk[x] /\ (c.key[x] = NoKey => lk[x] = 0)
             /\ lk[x] - rp[x] = c.lock[x] - c.rpt[x]
             /\ Cache[x] # "EVEN" => rp[x] = 0
  <2>1. CASE Cache[x] \in listed
    <3>1. lk[x] = c.lock[x] - c.rpt[x] /\ rp[x] = 0 /\ c.lock[x] \in Nat /\ c.rpt[x] \in Nat
      BY <1>1, <2>1
    <3> HIDE DEF lk, rp
    <3> QED  BY <1>3, <3>1
  <2>2. CASE Cache[x] \notin listed
    <3>1. lk[x] = c.lock[x] /\ rp[x] = c.rpt[x] /\ c.lock[x] \in Nat /\ c.rpt[x] \in Nat
      BY <1>1, <2>2
    <3>2. Cache[x] = "EVEN"
      BY <2>2, Constants DEF Type
    <3> HIDE DEF lk, rp
    <3> QED  BY <1>3, <3>1, <3>2
  <2> QED  BY <2>1, <2>2
<1>5. lk \in [El -> Nat] /\ rp \in [El -> Nat]
  BY <1>4
<1> HIDE DEF lk, rp
<1>6. LocksFor(c, lk, rp)
  BY <1>4, <1>5 DEF LocksFor
<1>7. Consistent(d) /\ Counted(d, out) /\ SameLists(c, d) /\ d.lock = lk /\ d.rpt = rp /\ d.dead = c.dead
  BY <1>2, <1>6, RelockIs
<1> QED  BY <1>4, <1>7
-----------------------------------------------------------------------------
(***************************************************************************)
(* How the program can die in the caches: reading a record only of a cache *)
(* in which all is locked.                                                 *)
(***************************************************************************)
AllLocked(c, t) == \A e \in El : Cache[e] = t => c.lock[e] > 0

\* the keys in the caches d were in the caches c, or are k
Gains(c, d, k) == \A q \in Key : q # k => d.table[q] \in {c.table[q], NoEl}

(* An element that is not free is in the direct list.                        *)
LEMMA DirectOrFree ==
    ASSUME NEW c, Consistent(c), NEW t \in Type, c.free[t] = << >>, NEW e \in El, Cache[e] = t
    PROVE  c.key[e] # NoKey /\ \E i \in 1..Len(c.direct[t]) : c.direct[t][i] = e
<1>1. PlacedIn(c, t)
  BY PlacedByType DEF Consistent
<1>2. Members(c.free[t]) = {} /\ Members(c.free[t]) = {x \in El : Cache[x] = t /\ c.key[x] = NoKey}
  BY <1>1 DEF PlacedIn, ListOf, Members
<1>3. c.key[e] # NoKey
  BY <1>2
<1>4. e \in Members(c.direct[t])
  BY <1>1, <1>3 DEF PlacedIn, ListOf
<1> QED  BY <1>3, <1>4 DEF Members

LEMMA FullIsLocked ==
    ASSUME NEW c, Consistent(c), NEW t \in Type, c.free[t] = << >>, Unlocked(c, t) = {}
    PROVE  AllLocked(c, t)
<1> SUFFICES ASSUME NEW e \in El, Cache[e] = t PROVE c.lock[e] > 0
  BY DEF AllLocked
<1>1. PICK i \in 1..Len(c.direct[t]) : c.direct[t][i] = e
  BY DirectOrFree
<1>2. c.lock[e] # 0
  BY <1>1 DEF Unlocked
<1>3. c.lock[e] \in Nat
  BY CacheFields DEF Consistent
<1> QED  BY <1>2, <1>3

LEMMA NodeToCacheDies ==
    ASSUME NEW c, Consistent(c), NEW out, Counted(c, out), c.dead = "alive",
           NEW k \in Key, NEW r \in Rec, KeyOf(r) = k, \A x \in El : c.crec[x] # r, c.table[k] = NoEl,
           NEW d, d = NodeToCache(c, k, r)
    PROVE  /\ d.dead \in {"alive", "full"} /\ (d.dead = "full" => AllLocked(c, TypeOf[k]))
           /\ Gains(c, d, k)
<1> DEFINE t == TypeOf[k]
           a == AddRef(c, r)
           b == MakeRoom(a, t)
           more == More(out, r)
<1>1. /\ Consistent(a) /\ Counted(a, more)
      /\ SameLists(c, a) /\ SameLocks(c, a) /\ a.dead = "alive" /\ t \in Type
  BY AddRefIs, Constants
<1>2. d = IF b.dead # "alive" THEN b ELSE Place(b, k, r)
  BY DEF NodeToCache
<1> HIDE DEF a, more
<1>3. /\ Consistent(b) /\ (b.dead = "alive" => b.free[t] # << >>) /\ Removals(a, b)
  BY <1>1, MakeRoomIs
<1>4. b.dead \in {"alive", "full"} /\ (b.dead = "full" => AllLocked(a, t))
  <2>1. CASE a.free[t] # << >>
    BY <1>1, <2>1 DEF MakeRoom
  <2>2. CASE a.free[t] = << >> /\ Unlocked(a, t) = {}
    <3>1. b = Die(a, "full") /\ "full" \in Deaths
      BY <2>2 DEF MakeRoom, Deaths
    <3>2. b.dead = "full"
      BY <1>1, <3>1, DieIs
    <3> QED  BY <1>1, <2>2, <3>2, FullIsLocked
  <2>3. CASE a.free[t] = << >> /\ Unlocked(a, t) # {}
    <3> DEFINE e == LeastRecent(a, t)
    <3>1. b = RemoveCel(a, e)
      BY <2>3 DEF MakeRoom
    <3>2. e \in El /\ Cache[e] = t /\ a.key[e] # NoKey /\ a.lock[e] = 0
      BY <1>1, <2>3, LeastRecentIs
    <3> HIDE DEF b, e
    <3>3. /\ Consistent(b) /\ Counted(b, more) /\ SameLocks(a, b) /\ LockedKeep(a, b)
          /\ b.dead = a.dead
          /\ b.table = [a.table EXCEPT ![a.key[e]] = NoEl]
          /\ b.crec = [a.crec EXCEPT ![e] = NoRec]
          /\ b.free[Cache[e]] # << >>
      BY <1>1, <3>1, <3>2, RemoveCelIs
    <3> QED  BY <1>1, <3>3
  <2> QED  BY <2>1, <2>2, <2>3
<1> HIDE DEF b
<1>5. AllLocked(a, t) => AllLocked(c, t)
  BY <1>1 DEF AllLocked, SameLocks
<1>6. \A q \in Key : b.table[q] \in {c.table[q], NoEl}
  BY <1>1, <1>3 DEF Removals, SameLists
<1>7. CASE b.dead # "alive"
  <2>1. d = b
    BY <1>2, <1>7
  <2> QED  BY <1>4, <1>5, <1>6, <1>7, <2>1 DEF Gains
<1>8. CASE b.dead = "alive"
  <2>1. d = Place(b, k, r)
    BY <1>2, <1>8
  <2>2. b \in CacheType /\ b.table \in [Key -> El \cup {NoEl}]
    BY <1>3, CacheFields DEF Consistent
  <2>3. d.dead = b.dead /\ d.table = [b.table EXCEPT ![k] = Head(b.free[t])]
    BY <2>1, <2>2 DEF Place, CacheType
  <2> QED  BY <1>6, <1>8, <2>2, <2>3 DEF Gains
<1> QED  BY <1>7, <1>8

LEMMA KeyToCacheelDies ==
    ASSUME NEW c, Consistent(c), NEW out, Counted(c, out), c.dead = "alive",
           NEW k \in Key, NEW d, d = KeyToCacheel(c, k)
    PROVE  /\ d.dead \in {"alive", "full", "memory"} /\ (d.dead = "full" => AllLocked(c, TypeOf[k]))
           /\ Gains(c, d, k)
<1>1. CASE c.table[k] # NoEl
  <2>1. Reads(c, d, k)
    BY KeyToCacheelIs
  <2> QED  BY <1>1, <2>1 DEF Reads, Gains
<1>2. CASE c.table[k] = NoEl /\ NoMemory(c, k)
  <2>1. d = Die(c, "memory") /\ "memory" \in Deaths
    BY <1>2 DEF KeyToCacheel, Deaths
  <2>2. d.dead = "memory" /\ SameLists(c, d)
    BY <2>1, DieIs
  <2> QED  BY <2>2 DEF SameLists, Gains
<1>3. CASE c.table[k] = NoEl /\ ~NoMemory(c, k)
  <2> DEFINE r == Fresh(c, k)
  <2>1. d = NodeToCache(c, k, r)
    BY <1>3 DEF KeyToCacheel
  <2>2. r \in Rec /\ KeyOf(r) = k /\ c.refs[r] = 0
    BY <1>3, FreshIs DEF Consistent
  <2> HIDE DEF r
  <2>3. \A x \in El : c.crec[x] # r
    BY <2>2, Constants DEF Consistent, RecordsLinked
  <2>4. /\ d.dead \in {"alive", "full"} /\ (d.dead = "full" => AllLocked(c, TypeOf[k]))
        /\ Gains(c, d, k)
    BY <1>3, <2>1, <2>2, <2>3, NodeToCacheDies
  <2> QED  BY <2>4
<1> QED  BY <1>1, <1>2, <1>3

(* Reading a record makes it the most recently used one.                     *)
Newest(c, k) == c.direct[TypeOf[k]] # << >> /\ c.direct[TypeOf[k]][1] = c.table[k]

LEMMA FirstDirectHead ==
    ASSUME NEW s \in Seq(El), NEW e, NEW t, t = FirstDirect(s, e)
    PROVE  t # << >> /\ t[1] = e
<1>1. Len(s) \in Nat /\ 1 \in 1..(Len(s) + 1)
  OBVIOUS
<1>2. t[1] = e /\ DOMAIN t = 1..(Len(s) + 1)
  BY <1>1 DEF FirstDirect
<1>3. t # << >>
  <2> SUFFICES ASSUME t = << >> PROVE FALSE
    OBVIOUS
  <2>1. DOMAIN t = {}
    OBVIOUS
  <2> QED  BY <1>1, <1>2, <2>1
<1> QED  BY <1>2, <1>3

LEMMA PlaceNewest ==
    ASSUME NEW c \in CacheType, NEW k \in Key, NEW r, NEW d, d = Place(c, k, r)
    PROVE  Newest(d, k)
<1> DEFINE t == TypeOf[k]
           e == Head(c.free[t])
<1>1. t \in Type /\ c.direct \in [Type -> Seq(El)] /\ c.table \in [Key -> El \cup {NoEl}]
  BY Constants, CacheFields
<1>2. d.direct = [c.direct EXCEPT ![t] = FirstDirect(@, e)] /\ d.table = [c.table EXCEPT ![k] = e]
  BY DEF Place, CacheType
<1> HIDE DEF e
<1>3. d.direct[t] = FirstDirect(c.direct[t], e) /\ d.table[k] = e /\ c.direct[t] \in Seq(El)
  BY <1>1, <1>2
<1>4. d.direct[t] # << >> /\ d.direct[t][1] = e
  BY <1>3, FirstDirectHead
<1> QED  BY <1>3, <1>4 DEF Newest

LEMMA KeyToCacheelNewest ==
    ASSUME NEW c, Consistent(c), NEW out, Counted(c, out), c.dead = "alive",
           NEW k \in Key, NEW d, d = KeyToCacheel(c, k), d.dead = "alive"
    PROVE  Newest(d, k)
<1>0. c \in CacheType /\ TypeOf[k] \in Type
  BY Constants DEF Consistent
<1>1. CASE c.table[k] # NoEl
  <2> DEFINE t == TypeOf[k]
             e == c.table[k]
  <2>1. d = [c EXCEPT !.direct[t] = DirectToFirst(@, e)] \/ d = Die(c, "assert")
    BY <1>1 DEF KeyToCacheel
  <2>2. d # Die(c, "assert")
    <3>1. "assert" \in Deaths /\ "assert" # "alive"
      BY DEF Deaths
    <3> QED  BY <3>1, DieIs
  <2>3. c.table \in [Key -> El \cup {NoEl}] /\ c.direct \in [Type -> Seq(El)]
    BY <1>0, CacheFields
  <2>4. e \in El /\ c.key[e] = k /\ Cache[e] = t /\ k # NoKey
    BY <1>1, <2>3, Constants DEF Consistent, TableExact
  <2>5. d.direct = [c.direct EXCEPT ![t] = DirectToFirst(@, e)] /\ d.table = c.table
    BY <1>0, <2>1, <2>2 DEF CacheType
  <2>6. d.direct[t] = FirstDirect(RemoveDirect(c.direct[t], e), e)
    BY <1>0, <2>3, <2>5 DEF DirectToFirst
  <2>7. RemoveDirect(c.direct[t], e) \in Seq(El)
    <3> DEFINE S == {x \in El : Cache[x] = t /\ c.key[x] # NoKey}
    <3>1. ListOf(c.direct[t], S) /\ e \in S
      BY <1>0, <2>4, PlacedByType DEF Consistent, PlacedIn
    <3> HIDE DEF S
    <3>2. ListOf(RemoveDirect(c.direct[t], e), S \ {e})
      BY <3>1, RemoveDirectIs
    <3> QED  BY <3>2 DEF ListOf
  <2>8. d.direct[t] # << >> /\ d.direct[t][1] = e
    BY <2>6, <2>7, FirstDirectHead
  <2> QED  BY <2>5, <2>8 DEF Newest
<1>2. CASE c.table[k] = NoEl
  <2> DEFINE r == Fresh(c, k)
             b == MakeRoom(AddRef(c, r), TypeOf[k])
  <2>1. ~NoMemory(c, k)
    <3>1. "memory" \in Deaths /\ "memory" # "alive"
      BY DEF Deaths
    <3> QED  BY <1>2, <3>1, DieIs DEF KeyToCacheel
  <2>2. d = NodeToCache(c, k, r)
    BY <1>2, <2>1 DEF KeyToCacheel
  <2>3. d = Place(b, k, r)
    BY <1>2, <2>2 DEF NodeToCache
  <2>4. r \in Rec
    BY <1>0, <2>1, FreshIs
  <2> HIDE DEF r
  <2> DEFINE a == AddRef(c, r)
  <2>5. Consistent(a) /\ Counted(a, More(out, r)) /\ a.dead = c.dead
    BY <2>4, AddRefIs
  <2>6. b = MakeRoom(a, TypeOf[k])
    OBVIOUS
  <2> HIDE DEF a, b
  <2>7. Consistent(b)
    BY <1>0, <2>5, <2>6, MakeRoomIs
  <2> QED  BY <2>3, <2>7, PlaceNewest DEF Consistent
<1> QED  BY <1>1, <1>2

(* The most recently used record only leaves a cache for another if all the  *)
(* others in it are locked.                                                  *)
Tight(c, t) == \E x \in El : \A e \in El : Cache[e] = t /\ e # x => c.lock[e] > 0

LEMMA NewestStays ==
    ASSUME NEW c, Consistent(c), NEW out, Counted(c, out), c.dead = "alive",
           NEW q \in Key, c.table[q] \in El, Newest(c, q),
           NEW k \in Key, NEW d, d = KeyToCacheel(c, k), d.dead = "alive", d.table[q] = NoEl
    PROVE  Tight(c, TypeOf[q])
<1> DEFINE t == TypeOf[q]
           r == Fresh(c, k)
           a == AddRef(c, r)
           b == MakeRoom(a, TypeOf[k])
           more == More(out, r)
<1>1. Reads(c, d, k) /\ t \in Type /\ c.table[q] # NoEl
  BY KeyToCacheelIs, Constants
<1>2. TypeOf[k] = t /\ c.table[k] = NoEl
  BY <1>1 DEF Reads, OnlyOf
<1>3. ~NoMemory(c, k)
  <2>1. "memory" \in Deaths /\ "memory" # "alive"
    BY DEF Deaths
  <2> QED  BY <1>2, <2>1, DieIs DEF KeyToCacheel
<1>4. d = IF b.dead # "alive" THEN b ELSE Place(b, k, r)
  BY <1>2, <1>3 DEF KeyToCacheel, NodeToCache
<1>5. r \in Rec
  BY <1>3, FreshIs DEF Consistent
<1> HIDE DEF r
<1>6. /\ Consistent(a) /\ Counted(a, more) /\ SameLists(c, a) /\ SameLocks(c, a) /\ a.dead = c.dead
  BY <1>5, AddRefIs
<1> HIDE DEF a, more
<1>7. Consistent(b) /\ b.dead = "alive"
  BY <1>1, <1>2, <1>4, <1>6, MakeRoomIs
<1>8. b.table[q] = NoEl
  <2>1. d = Place(b, k, r) /\ b \in CacheType /\ b.table \in [Key -> El \cup {NoEl}]
    BY <1>4, <1>7, CacheFields DEF Consistent
  <2>2. d.table = [b.table EXCEPT ![k] = Head(b.free[TypeOf[k]])]
    BY <2>1 DEF Place, CacheType
  <2> HIDE DEF b
  <2> QED  BY <1>1, <1>2, <2>1, <2>2
<1>9. a.free[t] = << >> /\ Unlocked(a, t) # {} /\ b = RemoveCel(a, LeastRecent(a, t))
  <2>1. a.table[q] # NoEl
    BY <1>1, <1>6 DEF SameLists
  <2>2. a.free[t] = << >>
    BY <1>2, <1>8, <2>1 DEF MakeRoom
  <2>3. Unlocked(a, t) # {}
    <3> SUFFICES ASSUME Unlocked(a, t) = {} PROVE FALSE
      OBVIOUS
    <3>1. b = Die(a, "full") /\ "full" \in Deaths /\ "full" # "alive"
      BY <1>2, <2>2 DEF MakeRoom, Deaths
    <3> HIDE DEF b
    <3> QED  BY <1>6, <1>7, <3>1, DieIs
  <2> QED  BY <1>2, <2>2, <2>3 DEF MakeRoom
<1> HIDE DEF b
<1> DEFINE s == a.direct[t]
           U == Unlocked(a, t)
           h == CHOOSE i \in U : \A j \in U : j <= i
<1>10. a \in CacheType /\ s \in Seq(El) /\ Distinct(s) /\ Len(s) \in Nat /\ U \in SUBSET (1..Len(s))
  <2>1. a \in CacheType /\ PlacedIn(a, t)
    BY <1>1, <1>6, PlacedByType DEF Consistent
  <2> QED  BY <2>1 DEF PlacedIn, ListOf, Unlocked
<1>11. h \in U /\ \A j \in U : j <= h
  <2> HIDE DEF U
  <2>1. \E i \in U : \A j \in U : j <= i
    BY <1>9, <1>10, HighestIn DEF U
  <2> QED  BY <2>1
<1>12. LeastRecent(a, t) = s[h] /\ s[h] \in El /\ a.key[s[h]] # NoKey /\ a.lock[s[h]] = 0
  <2>1. LeastRecent(a, t) = s[h]
    BY DEF LeastRecent
  <2> HIDE DEF h, s, U
  <2> QED  BY <1>1, <1>6, <1>9, <2>1, LeastRecentIs
<1> HIDE DEF h
<1>13. a.key[s[h]] = q
  <2> DEFINE e == s[h]
  <2>1. e \in El /\ a.key[e] # NoKey /\ a.lock[e] = 0 /\ b = RemoveCel(a, e)
    BY <1>9, <1>12
  <2> HIDE DEF e, s, U
  <2>2. /\ Consistent(b) /\ Counted(b, more) /\ SameLocks(a, b) /\ LockedKeep(a, b)
        /\ b.dead = a.dead
        /\ b.table = [a.table EXCEPT ![a.key[e]] = NoEl]
        /\ b.crec = [a.crec EXCEPT ![e] = NoRec]
        /\ b.free[Cache[e]] # << >>
    BY <1>6, <2>1, RemoveCelIs
  <2>3. a.table \in [Key -> El \cup {NoEl}] /\ a.table[q] # NoEl
    BY <1>1, <1>6, CacheFields DEF Consistent, SameLists
  <2>4. q = a.key[e]
    BY <1>8, <2>2, <2>3
  <2> QED  BY <2>4 DEF e
<1>14. s[h] = c.table[q]
  <2>1. a.table[a.key[s[h]]] = s[h]
    BY <1>6, <1>12 DEF Consistent, TableExact
  <2> QED  BY <1>6, <1>13, <2>1 DEF SameLists
<1>15. h = 1
  <2>1. s = c.direct[t] /\ s # << >> /\ s[1] = c.table[q]
    BY <1>6 DEF SameLists, Newest
  <2>2. 1 \in 1..Len(s)
    <3>1. Len(s) # 0
      BY <1>10, <2>1, EmptySeq
    <3> QED  BY <1>10, <3>1
  <2> HIDE DEF s
  <2>3. h \in 1..Len(s)
    BY <1>10, <1>11
  <2> QED  BY <1>10, <1>14, <2>1, <2>2, <2>3 DEF Distinct
<1>16. ASSUME NEW e \in El, Cache[e] = t, e # s[h] PROVE c.lock[e] > 0
  <2>1. PICK i \in 1..Len(s) : s[i] = e
    BY <1>1, <1>6, <1>9, <1>16, DirectOrFree
  <2>2. i # 1
    BY <1>15, <1>16, <2>1
  <2>3. i \notin U
    BY <1>11, <1>15, <2>1, <2>2, <1>10
  <2>4. a.lock[e] # 0
    BY <2>1, <2>3 DEF Unlocked
  <2>5. a.lock = c.lock /\ c.lock \in [El -> Nat]
    BY <1>6, CacheFields DEF SameLocks, Consistent
  <2> QED  BY <2>4, <2>5
<1> QED  BY <1>12, <1>16 DEF Tight

(* key_to_record                                                             *)
LEMMA KeyToRecordDies ==
    ASSUME NEW c, Consistent(c), NEW out, Counted(c, out), c.dead = "alive",
           NEW k \in Key, NEW d, d = KeyToRecord(c, k)
    PROVE  d.dead \in {"alive", "full", "memory"} /\ Gains(c, d, k)
<1> DEFINE b == KeyToCacheel(c, k)
<1>1. /\ b.dead \in {"alive", "full", "memory"} /\ (b.dead = "full" => AllLocked(c, TypeOf[k]))
      /\ Gains(c, b, k)
  BY KeyToCacheelDies
<1>2. d = IF b.dead # "alive" THEN b ELSE AddRef(b, RecordOf(b, k))
  BY DEF KeyToRecord
<1>3. b \in CacheType
  BY KeyToCacheelIs DEF Reads, Consistent
<1> HIDE DEF b
<1>4. d.dead = b.dead /\ d.table = b.table
  BY <1>2, <1>3 DEF AddRef, CacheType
<1> QED  BY <1>1, <1>4 DEF Gains

(* nztop, of a record that the database has.                                 *)
LEMMA NztopDies ==
    ASSUME NEW c, Consistent(c), NEW out, Counted(c, out), c.dead = "alive",
           NEW r \in Rec, NEW S, KeyOf(r) \in S, NEW d, d = Nztop(c, r, S)
    PROVE  d.dead \in {"alive", "full", "memory"} /\ Gains(c, d, KeyOf(r))
<1> DEFINE k == KeyOf(r)
           b == KeyToCacheel(c, k)
<1>1. CASE IsLoaded(c, r)
  <2>1. d = c
    BY <1>1 DEF Nztop
  <2> QED  BY <2>1 DEF Gains
<1>2. CASE ~IsLoaded(c, r)
  <2>1. d = IF b.dead # "alive" THEN b ELSE [b EXCEPT !.rcel[r] = b.table[k]]
    BY <1>2 DEF Nztop
  <2>2. /\ b.dead \in {"alive", "full", "memory"} /\ (b.dead = "full" => AllLocked(c, TypeOf[k]))
        /\ Gains(c, b, k)
    BY RecKey, KeyToCacheelDies
  <2>3. b \in CacheType
    BY RecKey, KeyToCacheelIs DEF Reads, Consistent
  <2> HIDE DEF b
  <2>4. d.dead = b.dead /\ d.table = b.table
    BY <2>1, <2>3 DEF CacheType
  <2> QED  BY <2>2, <2>4 DEF Gains
<1> QED  BY <1>1, <1>2

(* add_new_indi_to_cache                                                     *)
LEMMA AddNewDies ==
    ASSUME NEW c, Consistent(c), NEW out, Counted(c, out), c.dead = "alive",
           NEW k \in Key, c.table[k] = NoEl, NEW d, d = AddNew(c, k)
    PROVE  /\ d.dead \in {"alive", "full", "memory"} /\ (d.dead = "full" => AllLocked(c, TypeOf[k]))
           /\ Gains(c, d, k)
<1> DEFINE r == Fresh(c, k)
           a == AddRef(c, r)
           b == NodeToCache(a, k, r)
<1>1. CASE NoMemory(c, k)
  <2>1. d = Die(c, "memory") /\ "memory" \in Deaths
    BY <1>1 DEF AddNew, Deaths
  <2>2. d.dead = "memory" /\ SameLists(c, d)
    BY <2>1, DieIs
  <2> QED  BY <2>2 DEF SameLists, Gains
<1>2. CASE ~NoMemory(c, k)
  <2>1. d = IF b.dead # "alive" THEN b ELSE Release(b, r)
    BY <1>2 DEF AddNew
  <2>2. r \in Rec /\ KeyOf(r) = k /\ c.refs[r] = 0
    BY <1>2, FreshIs DEF Consistent
  <2> HIDE DEF r
  <2>3. /\ Consistent(a) /\ Counted(a, More(out, r)) /\ SameLists(c, a) /\ SameLocks(c, a)
        /\ a.dead = c.dead /\ a.crec = c.crec
    BY <2>2, AddRefIs
  <2>4. \A x \in El : a.crec[x] # r
    BY <2>2, <2>3, Constants DEF Consistent, RecordsLinked
  <2>5. b = NodeToCache(a, k, r) /\ a.table[k] = NoEl
    BY <2>3 DEF SameLists
  <2> HIDE DEF a, b
  <2>6. /\ b.dead \in {"alive", "full"} /\ (b.dead = "full" => AllLocked(a, TypeOf[k]))
        /\ Gains(a, b, k)
    BY <2>2, <2>3, <2>4, <2>5, NodeToCacheDies
  <2>7. Consistent(b)
    BY <2>2, <2>3, <2>4, <2>5, NodeToCacheIs
  <2>8. d.dead = b.dead /\ d.table = b.table
    BY <2>1, <2>7 DEF Release, FreeRec, Consistent, CacheType
  <2> QED  BY <2>3, <2>6, <2>8 DEF Gains, AllLocked, SameLists, SameLocks
<1> QED  BY <1>1, <1>2

(* remove_from_cache, of a record that is in its cache.                      *)
LEMMA RemoveFromCacheDies ==
    ASSUME NEW c, Consistent(c), NEW out, Counted(c, out), c.dead = "alive",
           NEW k \in Key, c.table[k] # NoEl, NEW d, d = RemoveFromCache(c, k)
    PROVE  \/ d.dead = "locked" /\ c.table[k] \in El /\ c.lock[c.table[k]] > 0
           \/ d.dead = "alive" /\ d.table = [c.table EXCEPT ![k] = NoEl]
<1> DEFINE e == c.table[k]
<1>1. d = RemoveCel(c, e) /\ e \in El /\ c.key[e] = k /\ k # NoKey /\ c.lock[e] \in Nat
  BY RecordOfIs, Constants, CacheFields DEF RemoveFromCache, Consistent
<1> HIDE DEF e
<1>2. CASE c.lock[e] > 0
  <2>1. d = Die(c, "locked") /\ "locked" \in Deaths
    BY <1>1, <1>2 DEF RemoveCel, Deaths
  <2>2. d.dead = "locked"
    BY <2>1, DieIs
  <2> QED  BY <1>1, <1>2, <2>2 DEF e
<1>3. CASE c.lock[e] = 0
  <2>1. /\ Consistent(d) /\ Counted(d, out) /\ SameLocks(c, d) /\ LockedKeep(c, d)
        /\ d.dead = c.dead
        /\ d.table = [c.table EXCEPT ![c.key[e]] = NoEl]
        /\ d.crec = [c.crec EXCEPT ![e] = NoRec]
        /\ d.free[Cache[e]] # << >>
    BY <1>1, <1>3, RemoveCelIs
  <2> QED  BY <1>1, <2>1
<1> QED  BY <1>1, <1>2, <1>3
================================================================================
