--------------------------- MODULE RecordIndex_proof ---------------------------
(* Proofs about RecordIndex: the indexes agree with the records between the      *)
(* commands, REFNs of persons stay unique, and no ghost survives its removal,    *)
(* for any records, values and bounds.                                           *)
EXTENDS RecordIndex, SequenceTheorems, FiniteSetTheorems, WellFoundedInduction, TLAPS

(***************************************************************************)
(* Lists of lines.  The functions of NodeLists are solutions of recursive  *)
(* equations; a solution exists, for one up to a place can be extended,    *)
(* and what it is follows from the smallest place where it is not so.      *)
(***************************************************************************)

(* A set of numbers that has one has a smallest one. *)
LEMMA SmallestExists ==
    ASSUME NEW S \in SUBSET Nat, S # {}
    PROVE  \E m \in S : \A k \in S : m <= k
<1>1. PICK m \in S : \A k \in S : ~(<<k, m>> \in OpToRel(<, Nat))
  BY NatLessThanWellFounded, WFMin
<1>2. \A k \in S : m <= k
  <2> SUFFICES ASSUME NEW k \in S, k < m
               PROVE  FALSE
    OBVIOUS
  <2>1. <<k, m>> \in Nat \X Nat /\ <<k, m>>[1] < <<k, m>>[2]
    OBVIOUS
  <2>2. <<k, m>> \in OpToRel(<, Nat)
    BY <2>1 DEF OpToRel
  <2> QED  BY <1>1, <2>2
<1> QED  BY <1>2

(* Hence a set of numbers that has 0, and n + 1 with every n below top, has all  *)
(* numbers up to top.                                                            *)
LEMMA UpTo ==
    ASSUME NEW top \in Nat, NEW S, 0 \in S, \A n \in Nat : n < top /\ n \in S => n + 1 \in S
    PROVE  \A n \in 0..top : n \in S
<1> DEFINE bad == { n \in 0..top : n \notin S }
<1>1. SUFFICES ASSUME bad # {} PROVE FALSE
  OBVIOUS
<1>2. PICK m \in bad : \A k \in bad : m <= k
  <2>1. bad \in SUBSET Nat
    OBVIOUS
  <2> HIDE DEF bad
  <2> QED  BY <1>1, <2>1, SmallestExists
<1>3. m \in 0..top /\ m \notin S /\ m # 0
  BY <1>2
<1>4. m - 1 \in 0..top /\ m - 1 \in Nat /\ m - 1 < top /\ m - 1 \notin bad
  <2>1. m - 1 \in 0..top /\ m - 1 \in Nat /\ m - 1 < top /\ ~(m <= m - 1)
    BY <1>3
  <2> HIDE DEF bad
  <2> QED  BY <1>2, <2>1
<1>5. m - 1 \in S
  BY <1>4
<1>6. m - 1 + 1 = m
  BY <1>3
<1> QED  BY <1>3, <1>4, <1>5, <1>6

(* The lines of a list. *)
In(s) == { s[i] : i \in 1..Len(s) }

LEMMA ContainsIsIn == \A s, v : Contains(s, v) <=> v \in In(s)
BY DEF Contains, In

LEMMA InAppend ==
    ASSUME NEW S, NEW s \in Seq(S), NEW v \in S
    PROVE  Append(s, v) \in Seq(S) /\ In(Append(s, v)) = In(s) \cup {v}
<1>1. /\ Append(s, v) \in Seq(S) /\ Len(s) \in Nat
      /\ Len(Append(s, v)) = Len(s) + 1
      /\ \A i \in 1..Len(s) : Append(s, v)[i] = s[i]
      /\ Append(s, v)[Len(s) + 1] = v
  BY AppendProperties
<1> DEFINE t == Append(s, v)
<1> HIDE DEF t
<1>2. \A i \in 1..Len(t) : i \in 1..Len(s) \/ i = Len(s) + 1
  BY <1>1 DEF t
<1>3. Len(s) + 1 \in 1..Len(t) /\ \A i \in 1..Len(s) : i \in 1..Len(t)
  BY <1>1 DEF t
<1>4. In(t) \subseteq In(s) \cup {v}
  BY <1>1, <1>2 DEF In, t
<1>5. In(s) \cup {v} \subseteq In(t)
  <2>1. v \in In(t)
    BY <1>1, <1>3 DEF In, t
  <2>2. In(s) \subseteq In(t)
    BY <1>1, <1>3 DEF In, t
  <2> QED  BY <2>1, <2>2
<1> QED  BY <1>1, <1>4, <1>5 DEF t

(* A line that is taken out leaves the others. *)
LEMMA InRemoveAt ==
    ASSUME NEW S, NEW s \in Seq(S), NEW n \in 1..Len(s)
    PROVE  RemoveAt(s, n) \in Seq(S) /\ In(RemoveAt(s, n)) \cup {s[n]} = In(s)
<1> DEFINE a == SubSeq(s, 1, n - 1)
           b == SubSeq(s, n + 1, Len(s))
           t == a \o b
           len == Len(s)
<1>0. len \in Nat /\ \A i \in 1..len : s[i] \in S
  OBVIOUS
<1>1. a \in Seq(S) /\ Len(a) = n - 1 /\ \A i \in 1..(n - 1) : a[i] = s[i]
  OBVIOUS
<1>2. b \in Seq(S) /\ Len(b) = len - n /\ \A i \in 1..(len - n) : b[i] = s[i + n]
  OBVIOUS
<1>3. /\ t \in Seq(S) /\ Len(t) = len - 1
      /\ \A i \in 1..(n - 1) : t[i] = s[i]
      /\ \A i \in n..(len - 1) : t[i] = s[i + 1]
  <2> HIDE DEF a, b
  <2>1. t \in Seq(S) /\ Len(t) = Len(a) + Len(b)
        /\ \A i \in 1..(Len(a) + Len(b)) : t[i] = IF i <= Len(a) THEN a[i] ELSE b[i - Len(a)]
    BY <1>1, <1>2, ConcatProperties
  <2>2. Len(t) = len - 1
    BY <1>0, <1>1, <1>2, <2>1
  <2>3. ASSUME NEW i \in 1..(n - 1) PROVE t[i] = s[i]
    <3>1. i \in 1..(Len(a) + Len(b)) /\ i <= Len(a)
      BY <1>0, <1>1, <1>2, <2>3
    <3> QED  BY <1>1, <2>1, <2>3, <3>1
  <2>4. ASSUME NEW i \in n..(len - 1) PROVE t[i] = s[i + 1]
    <3>1. i \in 1..(Len(a) + Len(b)) /\ ~(i <= Len(a)) /\ i - Len(a) = i - n + 1
          /\ i - n + 1 \in 1..(len - n) /\ i - n + 1 + n = i + 1
      BY <1>0, <1>1, <1>2, <2>4
    <3> HIDE DEF t, len
    <3>2. t[i] = b[i - n + 1]
      BY <2>1, <3>1
    <3>3. b[i - n + 1] = s[i - n + 1 + n]
      BY <1>2, <3>1
    <3> QED  BY <3>1, <3>2, <3>3
  <2> QED  BY <2>1, <2>2, <2>3, <2>4
<1>4. RemoveAt(s, n) = t
  BY DEF RemoveAt
<1> HIDE DEF a, b, t
<1>5. \A i \in 1..Len(t) : \/ i \in 1..(n - 1) /\ i \in 1..len
                           \/ i \in n..(len - 1) /\ i + 1 \in 1..len
  BY <1>0, <1>3
<1>6. In(t) \subseteq In(s)
  BY <1>3, <1>5 DEF In
<1>7. ASSUME NEW i \in 1..len, i # n PROVE s[i] \in In(t)
  <2>1. CASE i < n
    <3>1. i \in 1..(n - 1) /\ i \in 1..Len(t)
      BY <1>0, <1>3, <1>7, <2>1
    <3> QED  BY <1>3, <3>1 DEF In
  <2>2. CASE i > n
    <3>1. i - 1 \in n..(len - 1) /\ i - 1 \in 1..Len(t) /\ i - 1 + 1 = i
      BY <1>0, <1>3, <1>7, <2>2
    <3>2. t[i - 1] = s[i]
      BY <1>3, <3>1
    <3> QED  BY <3>1, <3>2 DEF In
  <2> QED  BY <1>0, <1>7, <2>1, <2>2
<1>8. In(s) \subseteq In(t) \cup {s[n]} /\ s[n] \in In(s)
  BY <1>7 DEF In
<1> QED  BY <1>3, <1>4, <1>6, <1>8

(* The equations of UniqueNodes and ClassifyNodes, and what solves them up to a  *)
(* place.                                                                        *)
Among(s, g, n) ==
    IF n = 0 THEN << >>
    ELSE LET t == g[n - 1] IN IF Contains(t, s[n]) THEN t ELSE Append(t, s[n])

AmongTo(s, g, m) == \A n \in 0..m : g[n] = Among(s, g, n)

After(s, two, g, n) ==
    IF n = 0 THEN [one |-> << >>, both |-> << >>, two |-> two, at |-> 1]
    ELSE ClassifyNode(g[n - 1], s[n])

AfterTo(s, two, g, m) == \A n \in 0..m : g[n] = After(s, two, g, n)

LEMMA UniqueIsAmong ==
    ASSUME NEW s
    PROVE  UniqueNodes(s) = (CHOOSE g : g = [n \in 0..Len(s) |-> Among(s, g, n)])[Len(s)]
BY DEF UniqueNodes, Among

LEMMA ClassifyIsAfter ==
    ASSUME NEW s1, NEW s2
    PROVE  ClassifyNodes(s1, s2)
             = (CHOOSE g : g = [n \in 0..Len(UniqueNodes(s1)) |->
                                  After(UniqueNodes(s1), UniqueNodes(s2), g, n)])[Len(UniqueNodes(s1))]
BY DEF ClassifyNodes, After

LEMMA SomeAmong ==
    ASSUME NEW s, NEW len \in Nat
    PROVE  \E g : g = [n \in 0..len |-> Among(s, g, n)]
<1> DEFINE S == { m \in 0..len : \E g : AmongTo(s, g, m) }
<1>1. 0 \in S
  <2> DEFINE g == [n \in 0..0 |-> << >>]
  <2>1. \A n \in 0..0 : n = 0 /\ g[n] = << >>
    OBVIOUS
  <2> HIDE DEF g
  <2>2. AmongTo(s, g, 0)
    BY <2>1 DEF AmongTo, Among
  <2> QED  BY <2>2
<1>2. ASSUME NEW m \in Nat, m < len, m \in S PROVE m + 1 \in S
  <2>1. PICK g : AmongTo(s, g, m)
    BY <1>2
  <2> DEFINE e == [n \in 0..(m + 1) |-> IF n = m + 1 THEN Among(s, g, m + 1) ELSE g[n]]
  <2>2. \A n \in 0..(m + 1) : e[n] = IF n = m + 1 THEN Among(s, g, m + 1) ELSE g[n]
    OBVIOUS
  <2> HIDE DEF e, S
  <2>3. \A n \in 0..(m + 1) : n = m + 1 \/ (n \in 0..m /\ n # m + 1)
    OBVIOUS
  <2>4. ASSUME NEW n \in 0..(m + 1) PROVE e[n] = Among(s, e, n)
    <3>1. CASE n = 0
      <4>1. n \in 0..m /\ n # m + 1
        BY <3>1
      <4>2. g[n] = << >>
        BY <2>1, <3>1, <4>1 DEF AmongTo, Among
      <4> QED  BY <2>2, <3>1, <4>1, <4>2 DEF Among
    <3>2. CASE n # 0
      <4>1. n - 1 \in 0..(m + 1) /\ n - 1 # m + 1
        BY <3>2
      <4>2. e[n - 1] = g[n - 1]
        BY <2>2, <4>1
      <4>3. Among(s, e, n) = Among(s, g, n)
        BY <4>2 DEF Among
      <4>4. e[n] = Among(s, g, n)
        BY <2>1, <2>2, <2>3 DEF AmongTo
      <4> QED  BY <4>3, <4>4
    <3> QED  BY <3>1, <3>2
  <2>5. AmongTo(s, e, m + 1)
    BY <2>4 DEF AmongTo
  <2> QED  BY <1>2, <2>5 DEF S
<1> HIDE DEF S
<1>3. len \in S
  BY <1>1, <1>2, UpTo
<1>4. PICK g : AmongTo(s, g, len)
  BY <1>3 DEF S
<1> DEFINE e == [n \in 0..len |-> g[n]]
<1>5. \A n \in 0..len : e[n] = g[n]
  OBVIOUS
<1>6. ASSUME NEW n \in 0..len PROVE g[n] = Among(s, e, n)
  <2>1. CASE n = 0
    BY <1>4, <2>1 DEF AmongTo, Among
  <2>2. CASE n # 0
    <3>1. n - 1 \in 0..len
      BY <2>2
    <3>2. e[n - 1] = g[n - 1]
      BY <1>5, <3>1
    <3> HIDE DEF e
    <3> QED  BY <1>4, <3>2 DEF AmongTo, Among
  <2> QED  BY <2>1, <2>2
<1>7. e = [n \in 0..len |-> Among(s, e, n)]
  BY <1>6
<1> QED  BY <1>7

LEMMA SomeAfter ==
    ASSUME NEW s, NEW two, NEW len \in Nat
    PROVE  \E g : g = [n \in 0..len |-> After(s, two, g, n)]
<1> DEFINE S == { m \in 0..len : \E g : AfterTo(s, two, g, m) }
           zero == [one |-> << >>, both |-> << >>, two |-> two, at |-> 1]
<1>0. ASSUME NEW g, NEW h, NEW n, n # 0 => g[n - 1] = h[n - 1]
      PROVE  After(s, two, g, n) = After(s, two, h, n)
  BY <1>0 DEF After
<1>1. 0 \in S
  <2> DEFINE g == [n \in 0..0 |-> zero]
  <2>1. \A n \in 0..0 : n = 0 /\ g[n] = zero
    OBVIOUS
  <2>2. \A n \in 0..0 : After(s, two, g, n) = zero
    BY DEF After
  <2> HIDE DEF g
  <2>3. AfterTo(s, two, g, 0)
    BY <2>1, <2>2 DEF AfterTo
  <2> QED  BY <2>3
<1>2. ASSUME NEW m \in Nat, m < len, m \in S PROVE m + 1 \in S
  <2>1. PICK g : AfterTo(s, two, g, m)
    BY <1>2
  <2> DEFINE e == [n \in 0..(m + 1) |-> IF n = m + 1 THEN After(s, two, g, m + 1) ELSE g[n]]
  <2>2. \A n \in 0..(m + 1) : e[n] = IF n = m + 1 THEN After(s, two, g, m + 1) ELSE g[n]
    OBVIOUS
  <2> HIDE DEF e, S
  <2>3. \A n \in 0..(m + 1) : n = m + 1 \/ (n \in 0..m /\ n # m + 1)
    OBVIOUS
  <2>4. ASSUME NEW n \in 0..(m + 1) PROVE e[n] = After(s, two, e, n)
    <3>1. n # 0 => e[n - 1] = g[n - 1]
      <4>1. n # 0 => n - 1 \in 0..(m + 1) /\ n - 1 # m + 1
        OBVIOUS
      <4> QED  BY <2>2, <4>1
    <3>2. After(s, two, e, n) = After(s, two, g, n)
      BY <1>0, <3>1
    <3>3. e[n] = After(s, two, g, n)
      BY <2>1, <2>2, <2>3 DEF AfterTo
    <3> QED  BY <3>2, <3>3
  <2>5. AfterTo(s, two, e, m + 1)
    BY <2>4 DEF AfterTo
  <2> QED  BY <1>2, <2>5 DEF S
<1> HIDE DEF S
<1>3. len \in S
  BY <1>1, <1>2, UpTo
<1>4. PICK g : AfterTo(s, two, g, len)
  BY <1>3 DEF S
<1> DEFINE e == [n \in 0..len |-> g[n]]
<1>5. \A n \in 0..len : e[n] = g[n]
  OBVIOUS
<1>6. ASSUME NEW n \in 0..len PROVE g[n] = After(s, two, e, n)
  <2>1. n # 0 => e[n - 1] = g[n - 1]
    <3>1. n # 0 => n - 1 \in 0..len
      OBVIOUS
    <3> HIDE DEF e
    <3> QED  BY <1>5, <3>1
  <2> HIDE DEF e
  <2>2. After(s, two, e, n) = After(s, two, g, n)
    BY <1>0, <2>1
  <2> QED  BY <1>4, <2>2 DEF AfterTo
<1>7. e = [n \in 0..len |-> After(s, two, e, n)]
  BY <1>6
<1> QED  BY <1>7

(***************************************************************************)
(* What the two functions compute.                                         *)
(***************************************************************************)
FirstOf(s, m) == { s[i] : i \in 1..m }

LEMMA FirstOfNext ==
    ASSUME NEW s, NEW m \in Nat
    PROVE  FirstOf(s, m + 1) = FirstOf(s, m) \cup {s[m + 1]} /\ FirstOf(s, 0) = {}
<1>1. \A i \in 1..(m + 1) : i \in 1..m \/ i = m + 1
  OBVIOUS
<1>2. m + 1 \in 1..(m + 1) /\ \A i \in 1..m : i \in 1..(m + 1)
  OBVIOUS
<1>3. FirstOf(s, 0) = {}
  BY DEF FirstOf
<1> QED  BY <1>1, <1>2, <1>3 DEF FirstOf

Once(s) == \A i, j \in 1..Len(s) : s[i] = s[j] => i = j

LEMMA OnceAppend ==
    ASSUME NEW S, NEW s \in Seq(S), NEW v \in S, Once(s), v \notin In(s)
    PROVE  Once(Append(s, v))
<1> DEFINE t == Append(s, v)
<1>1. /\ Len(s) \in Nat /\ Len(t) = Len(s) + 1
      /\ \A i \in 1..Len(s) : t[i] = s[i]
      /\ t[Len(s) + 1] = v
  BY AppendProperties
<1> HIDE DEF t
<1>2. \A i \in 1..Len(t) : i \in 1..Len(s) \/ i = Len(s) + 1
  BY <1>1
<1>3. \A i \in 1..Len(s) : t[i] # v
  BY <1>1 DEF In
<1>4. Once(t)
  BY <1>1, <1>2, <1>3 DEF Once
<1> QED  BY <1>4 DEF t

(* UniqueNodes has each line of the list once. *)
LEMMA UniqueIs ==
    ASSUME NEW S, NEW s \in Seq(S)
    PROVE  LET u == UniqueNodes(s) IN u \in Seq(S) /\ In(u) = In(s) /\ Once(u)
<1> DEFINE len == Len(s)
<1>1. len \in Nat /\ \A i \in 1..len : s[i] \in S
  OBVIOUS
<1> HIDE DEF len
<1>2. PICK g : g = [n \in 0..len |-> Among(s, g, n)] /\ UniqueNodes(s) = g[len]
  <2> DEFINE P(g) == g = [n \in 0..len |-> Among(s, g, n)]
  <2>1. \E g : P(g)
    BY <1>1, SomeAmong
  <2>2. UniqueNodes(s) = (CHOOSE g : P(g))[len]
    BY UniqueIsAmong DEF len
  <2> HIDE DEF P
  <2>3. P(CHOOSE g : P(g))
    BY <2>1
  <2>4. PICK g : g = CHOOSE h : P(h)
    OBVIOUS
  <2>5. P(g) /\ UniqueNodes(s) = g[len]
    BY <2>2, <2>3, <2>4
  <2> QED  BY <2>5 DEF P
<1>3. \A n \in 0..len : g[n] = Among(s, g, n)
  <2>1. \A f : f = [n \in 0..len |-> Among(s, g, n)] => \A n \in 0..len : f[n] = Among(s, g, n)
    OBVIOUS
  <2> QED  BY <1>2, <2>1
<1> DEFINE Good(t, n) == t \in Seq(S) /\ In(t) = FirstOf(s, n) /\ Once(t)
           N == { n \in 0..len : Good(g[n], n) }
<1>4. 0 \in N
  <2>1. g[0] = << >>
    BY <1>1, <1>3 DEF Among
  <2>2. << >> \in Seq(S) /\ In(<< >>) = {} /\ Once(<< >>)
    BY DEF In, Once
  <2>3. FirstOf(s, 0) = {}
    BY FirstOfNext
  <2>4. Good(g[0], 0)
    BY <2>1, <2>2, <2>3
  <2> HIDE DEF Good
  <2> QED  BY <1>1, <2>4
<1>5. ASSUME NEW n \in Nat, n < len, n \in N PROVE n + 1 \in N
  <2>1. n \in 0..len /\ n + 1 \in 0..len /\ n + 1 # 0 /\ n + 1 - 1 = n /\ n + 1 \in 1..len
    BY <1>1, <1>5
  <2> DEFINE t == g[n]  v == s[n + 1]
  <2>2. g[n + 1] = IF Contains(t, v) THEN t ELSE Append(t, v)
    BY <1>3, <2>1 DEF Among
  <2>3. t \in Seq(S) /\ In(t) = FirstOf(s, n) /\ Once(t) /\ v \in S
    BY <1>1, <1>5, <2>1
  <2>4. FirstOf(s, n + 1) = FirstOf(s, n) \cup {v}
    BY FirstOfNext
  <2> HIDE DEF t, v, N
  <2>5. CASE Contains(t, v)
    <3>1. v \in In(t)
      BY <2>5, ContainsIsIn
    <3>2. Good(g[n + 1], n + 1)
      BY <2>2, <2>3, <2>4, <2>5, <3>1
    <3> QED  BY <2>1, <3>2 DEF N
  <2>6. CASE ~Contains(t, v)
    <3>1. v \notin In(t)
      BY <2>6, ContainsIsIn
    <3>2. Append(t, v) \in Seq(S) /\ In(Append(t, v)) = In(t) \cup {v}
      BY <2>3, InAppend
    <3>3. Once(Append(t, v))
      BY <2>3, <3>1, OnceAppend
    <3>4. Good(g[n + 1], n + 1)
      BY <2>2, <2>3, <2>4, <2>6, <3>2, <3>3
    <3> QED  BY <2>1, <3>4 DEF N
  <2> QED  BY <2>5, <2>6
<1> HIDE DEF N, Good
<1>6. len \in N
  <2>1. \A n \in Nat : n < len /\ n \in N => n + 1 \in N
    BY <1>5
  <2>2. \A n \in 0..len : n \in N
    BY <1>1, <1>4, <2>1, UpTo
  <2> QED  BY <1>1, <2>2
<1>7. Good(g[len], len)
  BY <1>6 DEF N
<1>8. FirstOf(s, len) = In(s)
  BY DEF FirstOf, In, len
<1> QED  BY <1>2, <1>7, <1>8 DEF Good

(* What holds of the lists of ClassifyNodes after the first n lines of s.        *)
Split(S, s, two, a, n) ==
    /\ a.one \in Seq(S) /\ a.both \in Seq(S) /\ a.two \in Seq(S) /\ a.at \in Nat \ {0}
    /\ In(a.one) \cup In(a.both) = FirstOf(s, n)
    /\ In(a.one) \cap In(a.both) = {}
    /\ In(a.both) \cup In(a.two) = In(two)

Shaped(a) == \E one, both, t, at : a = [one |-> one, both |-> both, two |-> t, at |-> at]

LEMMA SplitNext ==
    ASSUME NEW S, NEW s \in Seq(S), Once(s), NEW two, NEW n \in Nat, n < Len(s),
           NEW a, Split(S, s, two, a, n), Shaped(a)
    PROVE  /\ Split(S, s, two, ClassifyNode(a, s[n + 1]), n + 1)
           /\ Shaped(ClassifyNode(a, s[n + 1]))
<1> DEFINE x == s[n + 1]
           hits == { m \in a.at..Len(a.two) : a.two[m] = x }
           place == CHOOSE m \in hits : \A k \in hits : m <= k
           b == ClassifyNode(a, x)
<1>1. x \in S /\ n + 1 \in 1..Len(s)
  OBVIOUS
<1>2. FirstOf(s, n + 1) = FirstOf(s, n) \cup {x}
  BY FirstOfNext
<1>3. x \notin FirstOf(s, n)
  <2> SUFFICES ASSUME NEW i \in 1..n, s[i] = x PROVE FALSE
    BY DEF FirstOf
  <2>1. i \in 1..Len(s) /\ i # n + 1
    OBVIOUS
  <2> QED  BY <1>1, <2>1 DEF Once
<1>4. b = IF a.at > Len(a.two) THEN [a EXCEPT !.one = Append(@, x)]
          ELSE IF hits = {} THEN [a EXCEPT !.one = Append(@, x), !.at = 1]
          ELSE [a EXCEPT !.both = Append(@, x), !.two = RemoveAt(@, place), !.at = place]
  BY DEF ClassifyNode
<1> HIDE DEF x, hits, place, b
<1>5. CASE a.at > Len(a.two) \/ hits = {}
  <2>1. /\ b.one = Append(a.one, x) /\ b.both = a.both /\ b.two = a.two
        /\ b.at \in {a.at, 1}
        /\ Shaped(b)
    BY <1>4, <1>5 DEF Shaped
  <2>2. b.one \in Seq(S) /\ In(b.one) = In(a.one) \cup {x}
    <3>1. a.one \in Seq(S)
      BY DEF Split
    <3>2. Append(a.one, x) \in Seq(S) /\ In(Append(a.one, x)) = In(a.one) \cup {x}
      BY <1>1, <3>1, InAppend
    <3> QED  BY <2>1, <3>2
  <2>3. x \notin In(a.both)
    BY <1>3 DEF Split
  <2>4. Split(S, s, two, b, n + 1)
    BY <1>2, <2>1, <2>2, <2>3 DEF Split
  <2> QED  BY <2>1, <2>4 DEF b, x
<1>6. CASE ~(a.at > Len(a.two)) /\ hits # {}
  <2>1. a.at \in Nat \ {0} /\ Len(a.two) \in Nat /\ a.two \in Seq(S)
    BY DEF Split
  <2>2. hits \in SUBSET Nat /\ \A m \in hits : m \in 1..Len(a.two) /\ a.two[m] = x
    BY <2>1 DEF hits
  <2>3. place \in hits
    <3>1. \E m \in hits : \A k \in hits : m <= k
      BY <1>6, <2>2, SmallestExists
    <3> QED  BY <3>1 DEF place
  <2>4. place \in 1..Len(a.two) /\ a.two[place] = x
    BY <2>2, <2>3
  <2>5. /\ b.one = a.one /\ b.both = Append(a.both, x)
        /\ b.two = RemoveAt(a.two, place) /\ b.at = place
        /\ Shaped(b)
    BY <1>4, <1>6 DEF Shaped
  <2>6. b.two \in Seq(S) /\ In(b.two) \cup {x} = In(a.two)
    BY <2>1, <2>4, <2>5, InRemoveAt
  <2>7. b.both \in Seq(S) /\ In(b.both) = In(a.both) \cup {x}
    <3>1. a.both \in Seq(S)
      BY DEF Split
    <3>2. Append(a.both, x) \in Seq(S) /\ In(Append(a.both, x)) = In(a.both) \cup {x}
      BY <1>1, <3>1, InAppend
    <3> QED  BY <2>5, <3>2
  <2>8. x \notin In(a.one)
    BY <1>3 DEF Split
  <2>9. b.at \in Nat \ {0}
    BY <2>1, <2>4, <2>5
  <2>10. Split(S, s, two, b, n + 1)
    BY <1>2, <2>5, <2>6, <2>7, <2>8, <2>9 DEF Split
  <2> QED  BY <2>5, <2>10 DEF b, x
<1> QED  BY <1>5, <1>6

(* ClassifyNodes: a line is in the second list when it is among its own new      *)
(* lines, or in the first list and not among those it lost.  The lines it lost   *)
(* are of the first list, the new ones of the second.                            *)
LEMMA ClassifyIs ==
    ASSUME NEW S, NEW s1 \in Seq(S), NEW s2 \in Seq(S)
    PROVE  LET c == ClassifyNodes(s1, s2)
           IN /\ c.one \in Seq(S) /\ c.two \in Seq(S)
              /\ In(c.one) \subseteq In(s1) /\ In(c.two) \subseteq In(s2)
              /\ \A v : v \in In(s2) <=> v \in In(c.two) \/ (v \in In(s1) /\ v \notin In(c.one))
<1> DEFINE s == UniqueNodes(s1)
           two == UniqueNodes(s2)
           len == Len(s)
<1>1. s \in Seq(S) /\ In(s) = In(s1) /\ Once(s)
  BY UniqueIs
<1>2. two \in Seq(S) /\ In(two) = In(s2)
  BY UniqueIs
<1> HIDE DEF s, two
<1>3. len \in Nat
  BY <1>1
<1> HIDE DEF len
<1>4. PICK g : g = [n \in 0..len |-> After(s, two, g, n)] /\ ClassifyNodes(s1, s2) = g[len]
  <2> DEFINE P(g) == g = [n \in 0..len |-> After(s, two, g, n)]
  <2>1. \E g : P(g)
    BY <1>3, SomeAfter
  <2>2. ClassifyNodes(s1, s2) = (CHOOSE g : P(g))[len]
    BY ClassifyIsAfter DEF len, s, two
  <2> HIDE DEF P
  <2>3. P(CHOOSE g : P(g))
    BY <2>1
  <2>4. PICK g : g = CHOOSE h : P(h)
    OBVIOUS
  <2>5. P(g) /\ ClassifyNodes(s1, s2) = g[len]
    BY <2>2, <2>3, <2>4
  <2> QED  BY <2>5 DEF P
<1>5. \A n \in 0..len : g[n] = After(s, two, g, n)
  <2>1. \A f : f = [n \in 0..len |-> After(s, two, g, n)]
                 => \A n \in 0..len : f[n] = After(s, two, g, n)
    OBVIOUS
  <2> QED  BY <1>4, <2>1
<1> DEFINE N == { n \in 0..len : Split(S, s, two, g[n], n) /\ Shaped(g[n]) }
<1>6. 0 \in N
  <2>1. g[0] = [one |-> << >>, both |-> << >>, two |-> two, at |-> 1]
    BY <1>3, <1>5 DEF After
  <2>2. << >> \in Seq(S) /\ In(<< >>) = {}
    BY DEF In
  <2>3. FirstOf(s, 0) = {}
    BY FirstOfNext
  <2>4. Split(S, s, two, g[0], 0)
    BY <1>2, <2>1, <2>2, <2>3 DEF Split
  <2>5. Shaped(g[0])
    BY <2>1 DEF Shaped
  <2> QED  BY <1>3, <2>4, <2>5
<1>7. ASSUME NEW n \in Nat, n < len, n \in N PROVE n + 1 \in N
  <2>1. n + 1 \in 0..len /\ n + 1 # 0 /\ n + 1 - 1 = n
    BY <1>3, <1>7
  <2>2. g[n + 1] = ClassifyNode(g[n], s[n + 1])
    BY <1>5, <2>1 DEF After
  <2>3. Split(S, s, two, g[n], n) /\ Shaped(g[n]) /\ n < Len(s)
    BY <1>7 DEF len
  <2>4. Split(S, s, two, g[n + 1], n + 1) /\ Shaped(g[n + 1])
    <3> DEFINE a == g[n]
    <3>1. Split(S, s, two, a, n) /\ Shaped(a) /\ n < Len(s) /\ s \in Seq(S) /\ Once(s) /\ n \in Nat
      BY <1>1, <2>3
    <3> HIDE DEF a, N
    <3>2. Split(S, s, two, ClassifyNode(a, s[n + 1]), n + 1) /\ Shaped(ClassifyNode(a, s[n + 1]))
      BY <3>1, SplitNext
    <3> QED  BY <2>2, <3>2 DEF a
  <2> QED  BY <2>1, <2>4
<1> HIDE DEF N
<1>8. len \in N
  <2>1. \A n \in Nat : n < len /\ n \in N => n + 1 \in N
    BY <1>7
  <2>2. \A n \in 0..len : n \in N
    BY <1>3, <1>6, <2>1, UpTo
  <2> QED  BY <1>3, <2>2
<1>9. Split(S, s, two, g[len], len)
  BY <1>8 DEF N
<1>10. FirstOf(s, len) = In(s)
  BY DEF FirstOf, In, len
<1> DEFINE c == ClassifyNodes(s1, s2)
<1>11. /\ c.one \in Seq(S) /\ c.two \in Seq(S)
       /\ In(c.one) \cup In(c.both) = In(s1)
       /\ In(c.one) \cap In(c.both) = {}
       /\ In(c.both) \cup In(c.two) = In(s2)
  BY <1>1, <1>2, <1>4, <1>9, <1>10 DEF Split
<1> HIDE DEF c
<1>12. /\ c.one \in Seq(S) /\ c.two \in Seq(S)
       /\ In(c.one) \subseteq In(s1) /\ In(c.two) \subseteq In(s2)
       /\ \A v : v \in In(s2) <=> v \in In(c.two) \/ (v \in In(s1) /\ v \notin In(c.one))
  BY <1>11
<1> QED  BY <1>12 DEF c

(***************************************************************************)
(* The writes of a command, and what those from the n-th on do to an       *)
(* entry <<v, k>> of the index and to the value v of the record k.         *)
(***************************************************************************)
Text == {Gone} \cup PersonText \cup OtherText
Good == (Name \X Person) \cup (Refn \X Key)

IndexWrite == { w \in [what : {"add", "drop"}, key : Key, value : Value] : <<w.value, w.key>> \in Good }
StoreWrite == { w \in [what : {"store"}, key : Key, value : Text] : w.value \in TextsOf(w.key) \cup {Gone} }
Write == IndexWrite \cup StoreWrite
GhostWrite == [what : {"ghost"}]

(* What a record with this text has. *)
Lines(t, v) == t # Gone /\ (v \in In(t.NAME) \/ v \in In(t.REFN))

(* A write that decides whether the entry is in the index (side "index"), or     *)
(* whether the record has the value (side "disk"), and what it decides.          *)
Decides(w, side, v, k) ==
    IF side = "index" THEN w.what \in {"add", "drop"} /\ w.value = v /\ w.key = k
    ELSE w.what = "store" /\ w.key = k
Grants(w, side, v, k) ==
    Decides(w, side, v, k) /\ IF side = "index" THEN w.what = "add" ELSE Lines(w.value, v)

(* The writes from the n-th on leave it as it is; the last that decides grants   *)
(* it: one does, and so does every later one that decides.                       *)
Leaves(W, n, side, v, k) == \A m \in n..Len(W) : ~Decides(W[m], side, v, k)
Gains(W, n, side, v, k) ==
    \E m \in n..Len(W) :
       /\ Grants(W[m], side, v, k)
       /\ \A l \in (m + 1)..Len(W) : Decides(W[l], side, v, k) => Grants(W[l], side, v, k)

LEMMA DecidesNext ==
    ASSUME NEW S, NEW W \in Seq(S), NEW n \in 1..Len(W), NEW side, NEW v, NEW k
    PROVE  /\ Leaves(W, n, side, v, k)
                <=> Leaves(W, n + 1, side, v, k) /\ ~Decides(W[n], side, v, k)
           /\ Gains(W, n, side, v, k)
                <=> \/ Gains(W, n + 1, side, v, k)
                    \/ Leaves(W, n + 1, side, v, k) /\ Grants(W[n], side, v, k)
<1>1. Len(W) \in Nat
  OBVIOUS
<1>2. \A m \in n..Len(W) : m = n \/ m \in (n + 1)..Len(W)
  BY <1>1
<1>3. n \in n..Len(W) /\ \A m \in (n + 1)..Len(W) : m \in n..Len(W)
  BY <1>1
<1> DEFINE D(m) == Decides(W[m], side, v, k)
           G(m) == Grants(W[m], side, v, k)
           L == Len(W)
<1>4. \A m \in n..L : \A l \in (m + 1)..L : l \in (n + 1)..L
  BY <1>1
<1>5. \A m : G(m) => D(m)
  BY DEF Grants
<1>6. /\ Leaves(W, n, side, v, k) <=> \A m \in n..L : ~D(m)
      /\ Leaves(W, n + 1, side, v, k) <=> \A m \in (n + 1)..L : ~D(m)
      /\ Gains(W, n, side, v, k) <=> \E m \in n..L : G(m) /\ \A l \in (m + 1)..L : D(l) => G(l)
      /\ Gains(W, n + 1, side, v, k)
           <=> \E m \in (n + 1)..L : G(m) /\ \A l \in (m + 1)..L : D(l) => G(l)
  BY DEF Leaves, Gains
<1>7. \A m \in (n + 1)..L : \A l \in (m + 1)..L : l \in (n + 1)..L
  BY <1>1
<1> HIDE DEF D, G, L
<1>8. Leaves(W, n, side, v, k) <=> Leaves(W, n + 1, side, v, k) /\ ~D(n)
  BY <1>2, <1>3, <1>6 DEF L
<1>9. ASSUME Gains(W, n, side, v, k)
      PROVE  Gains(W, n + 1, side, v, k) \/ (Leaves(W, n + 1, side, v, k) /\ G(n))
  <2>1. PICK m \in n..L : G(m) /\ \A l \in (m + 1)..L : D(l) => G(l)
    BY <1>6, <1>9
  <2>2. CASE m = n
    <3>1. CASE \E l \in (n + 1)..L : D(l)
      <4>1. PICK l \in (n + 1)..L : D(l)
        BY <3>1
      <4>2. G(l) /\ \A i \in (l + 1)..L : i \in (m + 1)..L
        BY <1>7, <2>1, <2>2, <4>1
      <4>3. Gains(W, n + 1, side, v, k)
        BY <1>6, <2>1, <4>2
      <4> QED  BY <4>3
    <3>2. CASE ~ \E l \in (n + 1)..L : D(l)
      BY <1>6, <2>1, <2>2, <3>2
    <3> QED  BY <3>1, <3>2
  <2>3. CASE m # n
    <3>1. m \in (n + 1)..L
      BY <1>2, <2>3 DEF L
    <3> QED  BY <1>6, <2>1, <3>1
  <2> QED  BY <2>2, <2>3
<1>10. ASSUME Gains(W, n + 1, side, v, k) \/ (Leaves(W, n + 1, side, v, k) /\ G(n))
       PROVE  Gains(W, n, side, v, k)
  <2>1. CASE Gains(W, n + 1, side, v, k)
    BY <1>3, <1>6, <2>1 DEF L
  <2>2. CASE Leaves(W, n + 1, side, v, k) /\ G(n)
    BY <1>3, <1>6, <2>2 DEF L
  <2> QED  BY <1>10, <2>1, <2>2
<1> QED  BY <1>8, <1>9, <1>10 DEF D, G

LEMMA NoneLeft ==
    ASSUME NEW S, NEW W \in Seq(S), NEW side, NEW v, NEW k
    PROVE  Leaves(W, Len(W) + 1, side, v, k) /\ ~Gains(W, Len(W) + 1, side, v, k)
<1>1. \A m \in (Len(W) + 1)..Len(W) : FALSE
  OBVIOUS
<1> QED  BY <1>1 DEF Leaves, Gains

(* Commands are put together from lists of writes. *)
LEMMA Places ==
    ASSUME NEW A \in Seq(Write), NEW B \in Seq(Write)
    PROVE  /\ A \o B \in Seq(Write) /\ Len(A \o B) = Len(A) + Len(B)
           /\ Len(A) \in Nat /\ Len(B) \in Nat
           /\ \A m \in 1..Len(A) : (A \o B)[m] = A[m]
           /\ \A m \in 1..Len(B) : (A \o B)[Len(A) + m] = B[m]
<1>1. /\ A \o B \in Seq(Write) /\ Len(A \o B) = Len(A) + Len(B)
      /\ \A i \in 1..(Len(A) + Len(B)) :
            (A \o B)[i] = IF i <= Len(A) THEN A[i] ELSE B[i - Len(A)]
  BY ConcatProperties
<1>2. Len(A) \in Nat /\ Len(B) \in Nat
  OBVIOUS
<1> DEFINE a == Len(A)  b == Len(B)  C == A \o B
<1> HIDE DEF a, b, C
<1>3. \A m \in 1..a : C[m] = A[m]
  <2>1. a \in Nat /\ b \in Nat /\ \A i \in 1..(a + b) : C[i] = IF i <= a THEN A[i] ELSE B[i - a]
    BY <1>1, <1>2 DEF a, b, C
  <2>2. \A m \in 1..a : m \in 1..(a + b) /\ m <= a
    BY <2>1
  <2> QED  BY <2>1, <2>2
<1>4. \A m \in 1..b : C[a + m] = B[m]
  <2>1. a \in Nat /\ b \in Nat /\ \A i \in 1..(a + b) : C[i] = IF i <= a THEN A[i] ELSE B[i - a]
    BY <1>1, <1>2 DEF a, b, C
  <2>2. \A m \in 1..b : a + m \in 1..(a + b) /\ ~(a + m <= a) /\ a + m - a = m
    BY <2>1
  <2>3. ASSUME NEW m \in 1..b PROVE C[a + m] = B[m]
    <3>1. C[a + m] = B[a + m - a]
      BY <2>1, <2>2
    <3> QED  BY <2>2, <3>1
  <2> QED  BY <2>3
<1> QED  BY <1>1, <1>2, <1>3, <1>4 DEF a, b, C

LEMMA Joined ==
    ASSUME NEW A \in Seq(Write), NEW B \in Seq(Write), NEW side, NEW v, NEW k
    PROVE  /\ Leaves(A \o B, 1, side, v, k)
                <=> Leaves(A, 1, side, v, k) /\ Leaves(B, 1, side, v, k)
           /\ Gains(A \o B, 1, side, v, k)
                <=> \/ Gains(B, 1, side, v, k)
                    \/ Gains(A, 1, side, v, k) /\ Leaves(B, 1, side, v, k)
<1> DEFINE C == A \o B  a == Len(A)  b == Len(B)
<1>1. /\ Len(C) = a + b /\ a \in Nat /\ b \in Nat
      /\ \A m \in 1..a : C[m] = A[m]
      /\ \A m \in 1..b : C[a + m] = B[m]
  BY Places
<1> DEFINE D(w) == Decides(w, side, v, k)
           G(w) == Grants(w, side, v, k)
<1>2. /\ Leaves(C, 1, side, v, k) <=> \A m \in 1..Len(C) : ~D(C[m])
      /\ Leaves(A, 1, side, v, k) <=> \A m \in 1..a : ~D(A[m])
      /\ Leaves(B, 1, side, v, k) <=> \A m \in 1..b : ~D(B[m])
  BY DEF Leaves
<1>3. /\ Gains(C, 1, side, v, k) <=> \E m \in 1..Len(C) : G(C[m]) /\ \A l \in (m + 1)..Len(C) : D(C[l]) => G(C[l])
      /\ Gains(A, 1, side, v, k) <=> \E m \in 1..a : G(A[m]) /\ \A l \in (m + 1)..a : D(A[l]) => G(A[l])
      /\ Gains(B, 1, side, v, k) <=> \E m \in 1..b : G(B[m]) /\ \A l \in (m + 1)..b : D(B[l]) => G(B[l])
  BY DEF Gains
<1> HIDE DEF C, a, b, D, G
<1>4. \A m \in 1..Len(C) : m \in 1..a \/ (m - a \in 1..b /\ a + (m - a) = m)
  BY <1>1
<1>5. /\ \A m \in 1..a : m \in 1..Len(C)
      /\ \A m \in 1..b : a + m \in 1..Len(C)
  BY <1>1
<1>6. ASSUME NEW m \in 1..b, D(B[m]) PROVE a + m \in 1..Len(C) /\ D(C[a + m])
  BY <1>1, <1>5, <1>6
<1>7. ASSUME NEW m \in 1..Len(C), m \notin 1..a PROVE m - a \in 1..b /\ C[m] = B[m - a]
  <2>1. m - a \in 1..b /\ a + (m - a) = m
    BY <1>4, <1>7
  <2>2. C[a + (m - a)] = B[m - a]
    BY <1>1, <2>1
  <2> QED  BY <2>1, <2>2
<1>8. (\A m \in 1..Len(C) : ~D(C[m])) <=> (\A m \in 1..a : ~D(A[m])) /\ (\A m \in 1..b : ~D(B[m]))
  <2>1. ASSUME \A m \in 1..Len(C) : ~D(C[m])
        PROVE (\A m \in 1..a : ~D(A[m])) /\ (\A m \in 1..b : ~D(B[m]))
    BY <1>1, <1>5, <2>1
  <2>2. ASSUME \A m \in 1..a : ~D(A[m]), \A m \in 1..b : ~D(B[m]), NEW m \in 1..Len(C)
        PROVE  ~D(C[m])
    <3>1. CASE m \in 1..a
      BY <1>1, <2>2, <3>1
    <3>2. CASE m \notin 1..a
      BY <1>7, <2>2, <3>2
    <3> QED  BY <3>1, <3>2
  <2> QED  BY <2>1, <2>2
<1>9. ASSUME NEW m \in 1..Len(C), G(C[m]), \A l \in (m + 1)..Len(C) : D(C[l]) => G(C[l])
      PROVE  \/ \E i \in 1..b : G(B[i]) /\ \A l \in (i + 1)..b : D(B[l]) => G(B[l])
             \/ /\ \E i \in 1..a : G(A[i]) /\ \A l \in (i + 1)..a : D(A[l]) => G(A[l])
                /\ \A l \in 1..b : ~D(B[l])
  <2>1. CASE m \in 1..a
    <3>1. \A l \in (m + 1)..a : l \in (m + 1)..Len(C) /\ l \in 1..a
      BY <1>1, <2>1
    <3>2. \A l \in 1..b : a + l \in (m + 1)..Len(C)
      BY <1>1, <2>1
    <3>3. G(A[m]) /\ \A l \in (m + 1)..a : D(A[l]) => G(A[l])
      BY <1>1, <1>9, <2>1, <3>1
    <3>4. \A l \in 1..b : D(B[l]) => G(B[l])
      BY <1>1, <1>9, <3>2
    <3>5. \A i \in 1..b : \A l \in (i + 1)..b : l \in 1..b
      BY <1>1
    <3> QED  BY <2>1, <3>3, <3>4, <3>5
  <2>2. CASE m \notin 1..a
    <3>1. m - a \in 1..b /\ C[m] = B[m - a]
      BY <1>7, <2>2
    <3> DEFINE i == m - a
    <3>2. \A l \in (i + 1)..b : l \in 1..b /\ a + l \in (m + 1)..Len(C)
      BY <1>1, <3>1
    <3> HIDE DEF i
    <3>3. \A l \in (i + 1)..b : D(B[l]) => G(B[l])
      BY <1>1, <1>9, <3>2
    <3>4. G(B[i]) /\ i \in 1..b
      BY <1>9, <3>1 DEF i
    <3> QED  BY <3>3, <3>4
  <2> QED  BY <2>1, <2>2
<1>10. ASSUME NEW i \in 1..b, G(B[i]), \A l \in (i + 1)..b : D(B[l]) => G(B[l])
       PROVE  \E m \in 1..Len(C) : G(C[m]) /\ \A l \in (m + 1)..Len(C) : D(C[l]) => G(C[l])
  <2> DEFINE m == a + i
  <2>1. m \in 1..Len(C) /\ C[m] = B[i]
    BY <1>1, <1>5
  <2>2. \A l \in (m + 1)..Len(C) : l \in 1..Len(C) /\ l \notin 1..a /\ l - a \in (i + 1)..b
    BY <1>1
  <2> HIDE DEF m
  <2>3. \A l \in (m + 1)..Len(C) : D(C[l]) => G(C[l])
    BY <1>7, <1>10, <2>2
  <2> QED  BY <1>10, <2>1, <2>3
<1>11. ASSUME NEW i \in 1..a, G(A[i]), \A l \in (i + 1)..a : D(A[l]) => G(A[l]), \A l \in 1..b : ~D(B[l])
       PROVE  \E m \in 1..Len(C) : G(C[m]) /\ \A l \in (m + 1)..Len(C) : D(C[l]) => G(C[l])
  <2>1. \A l \in (i + 1)..Len(C) : l \in 1..Len(C) /\ (l \in 1..a => l \in (i + 1)..a)
    BY <1>1
  <2>2. ASSUME NEW l \in (i + 1)..Len(C) PROVE D(C[l]) => G(C[l])
    <3>1. CASE l \in 1..a
      BY <1>1, <1>11, <2>1, <3>1
    <3>2. CASE l \notin 1..a
      BY <1>7, <1>11, <2>1, <3>2
    <3> QED  BY <3>1, <3>2
  <2>3. i \in 1..Len(C) /\ C[i] = A[i]
    BY <1>1, <1>5
  <2> QED  BY <1>11, <2>2, <2>3
<1>12. (\E m \in 1..Len(C) : G(C[m]) /\ \A l \in (m + 1)..Len(C) : D(C[l]) => G(C[l]))
         <=> \/ \E i \in 1..b : G(B[i]) /\ \A l \in (i + 1)..b : D(B[l]) => G(B[l])
             \/ /\ \E i \in 1..a : G(A[i]) /\ \A l \in (i + 1)..a : D(A[l]) => G(A[l])
                /\ \A l \in 1..b : ~D(B[l])
  BY <1>9, <1>10, <1>11
<1>13. Leaves(C, 1, side, v, k) <=> Leaves(A, 1, side, v, k) /\ Leaves(B, 1, side, v, k)
  BY <1>2, <1>8
<1>14. Gains(C, 1, side, v, k)
         <=> Gains(B, 1, side, v, k) \/ (Gains(A, 1, side, v, k) /\ Leaves(B, 1, side, v, k))
  BY <1>2, <1>3, <1>12
<1> QED  BY <1>13, <1>14 DEF C

(* The records that the writes store. *)
Puts(W, k, t) == \E m \in 1..Len(W) : W[m].what = "store" /\ W[m].key = k /\ W[m].value = t

LEMMA PutsJoined ==
    ASSUME NEW A \in Seq(Write), NEW B \in Seq(Write), NEW k, NEW t
    PROVE  Puts(A \o B, k, t) <=> Puts(A, k, t) \/ Puts(B, k, t)
<1> DEFINE C == A \o B  a == Len(A)  b == Len(B)
           P(w) == w.what = "store" /\ w.key = k /\ w.value = t
<1>1. /\ Len(C) = a + b /\ a \in Nat /\ b \in Nat
      /\ \A m \in 1..a : C[m] = A[m]
      /\ \A m \in 1..b : C[a + m] = B[m]
  BY Places
<1>2. /\ Puts(C, k, t) <=> \E m \in 1..Len(C) : P(C[m])
      /\ Puts(A, k, t) <=> \E m \in 1..a : P(A[m])
      /\ Puts(B, k, t) <=> \E m \in 1..b : P(B[m])
  BY DEF Puts
<1> HIDE DEF C, a, b, P
<1>3. \A m \in 1..Len(C) : m \in 1..a \/ (m - a \in 1..b /\ a + (m - a) = m)
  BY <1>1
<1>4. /\ \A m \in 1..a : m \in 1..Len(C)
      /\ \A m \in 1..b : a + m \in 1..Len(C)
  BY <1>1
<1>5. ASSUME NEW m \in 1..Len(C), P(C[m])
      PROVE  (\E i \in 1..a : P(A[i])) \/ \E i \in 1..b : P(B[i])
  <2>1. CASE m \in 1..a
    BY <1>1, <1>5, <2>1
  <2>2. CASE m \notin 1..a
    <3>1. m - a \in 1..b /\ a + (m - a) = m
      BY <1>3, <2>2
    <3>2. C[a + (m - a)] = B[m - a]
      BY <1>1, <3>1
    <3> QED  BY <1>5, <3>1, <3>2
  <2> QED  BY <2>1, <2>2
<1>6. ASSUME NEW i \in 1..a, P(A[i]) PROVE \E m \in 1..Len(C) : P(C[m])
  BY <1>1, <1>4, <1>6
<1>7. ASSUME NEW i \in 1..b, P(B[i]) PROVE \E m \in 1..Len(C) : P(C[m])
  BY <1>1, <1>4, <1>7
<1>8. Puts(C, k, t) <=> Puts(A, k, t) \/ Puts(B, k, t)
  BY <1>2, <1>5, <1>6, <1>7
<1> QED  BY <1>8 DEF C

(***************************************************************************)
(* What each list of writes does.                                          *)
(***************************************************************************)
LEMMA NotBoth ==
    ASSUME NEW W, NEW side, NEW v, NEW k, Leaves(W, 1, side, v, k)
    PROVE  ~Gains(W, 1, side, v, k)
BY DEF Leaves, Gains, Grants

LEMMA AddDoes ==
    ASSUME NEW S \in SUBSET Value, NEW s \in Seq(S), NEW j \in Key, S \X {j} \subseteq Good
    PROVE  /\ Add(s, j) \in Seq(Write)
           /\ \A v, k : /\ Leaves(Add(s, j), 1, "disk", v, k)
                        /\ \A t : ~Puts(Add(s, j), k, t)
                        /\ Leaves(Add(s, j), 1, "index", v, k) <=> ~(k = j /\ v \in In(s))
                        /\ Gains(Add(s, j), 1, "index", v, k) <=> k = j /\ v \in In(s)
<1> DEFINE A == Add(s, j)
           w(n) == [what |-> "add", key |-> j, value |-> s[n]]
<1>1. Len(s) \in Nat /\ \A n \in 1..Len(s) : s[n] \in S
  OBVIOUS
<1>2. \A n \in 1..Len(s) : w(n) \in Write
  <2> SUFFICES ASSUME NEW n \in 1..Len(s) PROVE w(n) \in Write
    OBVIOUS
  <2>1. s[n] \in Value /\ <<s[n], j>> \in Good
    BY <1>1
  <2> QED  BY <2>1 DEF Write, IndexWrite
<1>3. A = [n \in 1..Len(s) |-> w(n)]
  BY DEF Add
<1>4. A \in Seq(Write) /\ Len(A) = Len(s) /\ \A n \in 1..Len(s) : A[n] = w(n)
  <2>1. A \in [1..Len(s) -> Write] /\ \A n \in 1..Len(s) : A[n] = w(n)
    BY <1>2, <1>3
  <2> HIDE DEF A, w
  <2> QED  BY <1>1, <2>1
<1> HIDE DEF A
<1>5. \A n \in 1..Len(A) : /\ A[n].what = "add" /\ A[n].key = j /\ A[n].value = s[n]
  <2>1. \A n : w(n).what = "add" /\ w(n).key = j /\ w(n).value = s[n]
    OBVIOUS
  <2> HIDE DEF w
  <2>2. \A n \in 1..Len(A) : A[n] = w(n)
    BY <1>4
  <2> QED  BY <2>1, <2>2
<1> HIDE DEF w
<1> SUFFICES ASSUME NEW v, NEW k
    PROVE  /\ Leaves(A, 1, "disk", v, k) /\ \A t : ~Puts(A, k, t)
           /\ Leaves(A, 1, "index", v, k) <=> ~(k = j /\ v \in In(s))
           /\ Gains(A, 1, "index", v, k) <=> k = j /\ v \in In(s)
  BY <1>4 DEF A
<1>6. \A n \in 1..Len(A) : /\ ~Decides(A[n], "disk", v, k)
                           /\ Decides(A[n], "index", v, k) <=> s[n] = v /\ k = j
                           /\ Grants(A[n], "index", v, k) <=> s[n] = v /\ k = j
  BY <1>5 DEF Decides, Grants
<1>7. Leaves(A, 1, "disk", v, k) /\ \A t : ~Puts(A, k, t)
  BY <1>5, <1>6 DEF Leaves, Puts
<1>8. v \in In(s) <=> \E n \in 1..Len(A) : s[n] = v
  BY <1>4 DEF In
<1>9. \A n \in 1..Len(A) : \A l \in (n + 1)..Len(A) : l \in 1..Len(A)
  BY <1>1, <1>4
<1>10. Leaves(A, 1, "index", v, k) <=> ~(k = j /\ v \in In(s))
  BY <1>6, <1>8 DEF Leaves
<1>11. Gains(A, 1, "index", v, k) <=> k = j /\ v \in In(s)
  BY <1>6, <1>8, <1>9 DEF Gains
<1> QED  BY <1>7, <1>10, <1>11

LEMMA DropDoes ==
    ASSUME NEW S \in SUBSET Value, NEW s \in Seq(S), NEW j \in Key, S \X {j} \subseteq Good
    PROVE  /\ Drop(s, j) \in Seq(Write)
           /\ \A v, k : /\ Leaves(Drop(s, j), 1, "disk", v, k)
                        /\ \A t : ~Puts(Drop(s, j), k, t)
                        /\ Leaves(Drop(s, j), 1, "index", v, k) <=> ~(k = j /\ v \in In(s))
                        /\ ~Gains(Drop(s, j), 1, "index", v, k)
<1> DEFINE A == Drop(s, j)
           w(n) == [what |-> "drop", key |-> j, value |-> s[n]]
<1>1. Len(s) \in Nat /\ \A n \in 1..Len(s) : s[n] \in S
  OBVIOUS
<1>2. \A n \in 1..Len(s) : w(n) \in Write
  <2> SUFFICES ASSUME NEW n \in 1..Len(s) PROVE w(n) \in Write
    OBVIOUS
  <2>1. s[n] \in Value /\ <<s[n], j>> \in Good
    BY <1>1
  <2> QED  BY <2>1 DEF Write, IndexWrite
<1>3. A = [n \in 1..Len(s) |-> w(n)]
  BY DEF Drop
<1>4. A \in Seq(Write) /\ Len(A) = Len(s) /\ \A n \in 1..Len(s) : A[n] = w(n)
  <2>1. A \in [1..Len(s) -> Write] /\ \A n \in 1..Len(s) : A[n] = w(n)
    BY <1>2, <1>3
  <2> HIDE DEF A, w
  <2> QED  BY <1>1, <2>1
<1> HIDE DEF A
<1>5. \A n \in 1..Len(A) : /\ A[n].what = "drop" /\ A[n].key = j /\ A[n].value = s[n]
  <2>1. \A n : w(n).what = "drop" /\ w(n).key = j /\ w(n).value = s[n]
    OBVIOUS
  <2> HIDE DEF w
  <2>2. \A n \in 1..Len(A) : A[n] = w(n)
    BY <1>4
  <2> QED  BY <2>1, <2>2
<1> HIDE DEF w
<1> SUFFICES ASSUME NEW v, NEW k
    PROVE  /\ Leaves(A, 1, "disk", v, k) /\ \A t : ~Puts(A, k, t)
           /\ Leaves(A, 1, "index", v, k) <=> ~(k = j /\ v \in In(s))
           /\ ~Gains(A, 1, "index", v, k)
  BY <1>4 DEF A
<1>6. \A n \in 1..Len(A) : /\ ~Decides(A[n], "disk", v, k)
                           /\ Decides(A[n], "index", v, k) <=> s[n] = v /\ k = j
                           /\ ~Grants(A[n], "index", v, k)
  BY <1>5 DEF Decides, Grants
<1>7. Leaves(A, 1, "disk", v, k) /\ \A t : ~Puts(A, k, t)
  BY <1>5, <1>6 DEF Leaves, Puts
<1>8. v \in In(s) <=> \E n \in 1..Len(A) : s[n] = v
  BY <1>4 DEF In
<1>9. Leaves(A, 1, "index", v, k) <=> ~(k = j /\ v \in In(s))
  BY <1>6, <1>8 DEF Leaves
<1>10. ~Gains(A, 1, "index", v, k)
  BY <1>6 DEF Gains
<1> QED  BY <1>7, <1>9, <1>10

LEMMA StoreDoes ==
    ASSUME NEW j \in Key, NEW text \in TextsOf(j) \cup {Gone}
    PROVE  /\ Store(j, text) \in Seq(Write)
           /\ \A v, k : /\ Leaves(Store(j, text), 1, "index", v, k)
                        /\ Leaves(Store(j, text), 1, "disk", v, k) <=> k # j
                        /\ Gains(Store(j, text), 1, "disk", v, k) <=> k = j /\ Lines(text, v)
                        /\ \A t : Puts(Store(j, text), k, t) <=> k = j /\ t = text
<1> DEFINE w == [what |-> "store", key |-> j, value |-> text]
           A == <<w>>
<1>1. A = Store(j, text)
  BY DEF Store
<1>2. w \in Write
  <2>1. text \in Text
    BY DEF Text, TextsOf
  <2> QED  BY <2>1 DEF Write, StoreWrite
<1>3. w.what = "store" /\ w.key = j /\ w.value = text
  OBVIOUS
<1> HIDE DEF w
<1>4. A \in Seq(Write) /\ Len(A) = 1 /\ A[1] = w
  BY <1>2
<1> HIDE DEF A
<1> SUFFICES ASSUME NEW v, NEW k
    PROVE  /\ Leaves(A, 1, "index", v, k)
           /\ Leaves(A, 1, "disk", v, k) <=> k # j
           /\ Gains(A, 1, "disk", v, k) <=> k = j /\ Lines(text, v)
           /\ \A t : Puts(A, k, t) <=> k = j /\ t = text
  BY <1>1, <1>4
<1>5. \A n \in 1..Len(A) : n = 1 /\ A[n] = w /\ \A l \in (n + 1)..Len(A) : FALSE
  BY <1>4
<1>6. 1 \in 1..Len(A) /\ A[1] = w /\ \A l \in (1 + 1)..Len(A) : FALSE
  BY <1>4
<1>7. /\ ~Decides(w, "index", v, k)
      /\ Decides(w, "disk", v, k) <=> k = j
      /\ Grants(w, "disk", v, k) <=> k = j /\ Lines(text, v)
  BY <1>3 DEF Decides, Grants
<1>8. Leaves(A, 1, "index", v, k) /\ (Leaves(A, 1, "disk", v, k) <=> k # j)
  BY <1>5, <1>6, <1>7 DEF Leaves
<1>9. Gains(A, 1, "disk", v, k) <=> k = j /\ Lines(text, v)
  BY <1>5, <1>6, <1>7 DEF Gains
<1>10. \A t : Puts(A, k, t) <=> k = j /\ t = text
  BY <1>3, <1>5, <1>6 DEF Puts
<1> QED  BY <1>8, <1>9, <1>10

(* The values that the lines of a record may have. *)
NamesOf(k) == IF k \in Person THEN Name ELSE {}

LEMMA TextIs ==
    ASSUME NEW k \in Key, NEW text \in TextsOf(k)
    PROVE  /\ text.NAME \in Seq(NamesOf(k)) /\ text.REFN \in Seq(Refn) /\ text # Gone
           /\ In(text.NAME) \subseteq NamesOf(k) /\ In(text.REFN) \subseteq Refn
           /\ NamesOf(k) \in SUBSET Value /\ Refn \in SUBSET Value
           /\ NamesOf(k) \cap Refn = {} /\ Value \subseteq Name \cup Refn
           /\ NamesOf(k) \X {k} \subseteq Good /\ Refn \X {k} \subseteq Good
<1>1. \A S, n, s : n \in Nat /\ s \in Lists(S, n) => s \in Seq(S)
  BY DEF Lists
<1>2. text.NAME \in Seq(NamesOf(k)) /\ text.REFN \in Seq(Refn)
  <2>0. MaxNames \in Nat /\ MaxRefns \in Nat
    BY RecordIndexAssumption
  <2>1. CASE k \in Person
    BY <1>1, <2>0, <2>1 DEF TextsOf, PersonText, NamesOf
  <2>2. CASE k \notin Person
    <3>1. text.NAME = << >> /\ text.REFN \in Lists(Refn, MaxRefns)
      BY <2>2 DEF TextsOf, OtherText
    <3> QED  BY <1>1, <2>0, <2>2, <3>1 DEF NamesOf
  <2> QED  BY <2>1, <2>2
<1>3. \A S, s : s \in Seq(S) => In(s) \subseteq S
  BY DEF In
<1>4. text # Gone
  BY RecordIndexAssumption
<1>5. NamesOf(k) \in SUBSET Value /\ Refn \in SUBSET Value /\ NamesOf(k) \cap Refn = {}
  BY RecordIndexAssumption DEF NamesOf, Value
<1>6. NamesOf(k) \X {k} \subseteq Good /\ Refn \X {k} \subseteq Good
  BY DEF NamesOf, Good
<1> QED  BY <1>2, <1>3, <1>4, <1>5, <1>6 DEF Value

(***************************************************************************)
(* Reindex: the entries of a changed record become those of its new text.  *)
(***************************************************************************)
LEMMA ExchangeDoes ==
    ASSUME NEW S \in SUBSET Value, NEW old \in Seq(S), NEW new \in Seq(S),
           NEW j \in Key, S \X {j} \subseteq Good
    PROVE  LET X == Exchange(old, new, j)
           IN /\ X \in Seq(Write)
              /\ \A v, k : /\ Leaves(X, 1, "disk", v, k) /\ \A t : ~Puts(X, k, t)
                           /\ k # j \/ v \notin S => Leaves(X, 1, "index", v, k)
              /\ \A v : Gains(X, 1, "index", v, j) \/ (v \in In(old) /\ Leaves(X, 1, "index", v, j))
                          <=> v \in In(new)
<1> DEFINE c == ClassifyNodes(old, new)
           X == Exchange(old, new, j)
           D == Drop(c.one, j)
           A == Add(c.two, j)
<1>1. /\ c.one \in Seq(S) /\ c.two \in Seq(S)
      /\ \A v : v \in In(new) <=> v \in In(c.two) \/ (v \in In(old) /\ v \notin In(c.one))
  BY ClassifyIs
<1>2. X = D \o A
  BY DEF Exchange
<1> HIDE DEF c
<1>3. /\ D \in Seq(Write)
      /\ \A v, k : /\ Leaves(D, 1, "disk", v, k) /\ \A t : ~Puts(D, k, t)
                   /\ Leaves(D, 1, "index", v, k) <=> ~(k = j /\ v \in In(c.one))
                   /\ ~Gains(D, 1, "index", v, k)
  BY <1>1, DropDoes
<1>4. /\ A \in Seq(Write)
      /\ \A v, k : /\ Leaves(A, 1, "disk", v, k) /\ \A t : ~Puts(A, k, t)
                   /\ Leaves(A, 1, "index", v, k) <=> ~(k = j /\ v \in In(c.two))
                   /\ Gains(A, 1, "index", v, k) <=> k = j /\ v \in In(c.two)
  BY <1>1, AddDoes
<1> HIDE DEF X, D, A
<1>5. In(c.one) \subseteq S /\ In(c.two) \subseteq S
  BY <1>1 DEF In
<1>6. X \in Seq(Write)
  BY <1>2, <1>3, <1>4, Places
<1>7. \A v, k : /\ Leaves(X, 1, "disk", v, k)
                /\ Leaves(X, 1, "index", v, k)
                     <=> Leaves(D, 1, "index", v, k) /\ Leaves(A, 1, "index", v, k)
                /\ Gains(X, 1, "index", v, k)
                     <=> \/ Gains(A, 1, "index", v, k)
                         \/ Gains(D, 1, "index", v, k) /\ Leaves(A, 1, "index", v, k)
                /\ \A t : ~Puts(X, k, t)
  BY <1>2, <1>3, <1>4, Joined, PutsJoined
<1>8. \A v, k : k # j \/ v \notin S => Leaves(X, 1, "index", v, k)
  BY <1>3, <1>4, <1>5, <1>7
<1>9. ASSUME NEW v
      PROVE Gains(X, 1, "index", v, j) \/ (v \in In(old) /\ Leaves(X, 1, "index", v, j)) <=> v \in In(new)
  BY <1>1, <1>3, <1>4, <1>7
<1> QED  BY <1>6, <1>7, <1>8, <1>9 DEF X

LEMMA ReindexDoes ==
    ASSUME NEW j \in Key, NEW old \in TextsOf(j), NEW new \in TextsOf(j)
    PROVE  LET X == Reindex(old, new, j)
           IN /\ X \in Seq(Write)
              /\ \A v, k : /\ Leaves(X, 1, "disk", v, k) /\ \A t : ~Puts(X, k, t)
                           /\ k # j => Leaves(X, 1, "index", v, k)
              /\ \A v \in Value :
                   Gains(X, 1, "index", v, j) \/ (Lines(old, v) /\ Leaves(X, 1, "index", v, j))
                     <=> Lines(new, v)
<1> DEFINE X == Reindex(old, new, j)
           A == Exchange(old.NAME, new.NAME, j)
           B == Exchange(old.REFN, new.REFN, j)
           N == NamesOf(j)
<1>1. /\ old.NAME \in Seq(N) /\ old.REFN \in Seq(Refn) /\ old # Gone
      /\ new.NAME \in Seq(N) /\ new.REFN \in Seq(Refn) /\ new # Gone
      /\ In(old.NAME) \subseteq N /\ In(old.REFN) \subseteq Refn
      /\ In(new.NAME) \subseteq N /\ In(new.REFN) \subseteq Refn
      /\ N \in SUBSET Value /\ Refn \in SUBSET Value /\ N \cap Refn = {}
      /\ N \X {j} \subseteq Good /\ Refn \X {j} \subseteq Good
  BY TextIs
<1> HIDE DEF N
<1>2. X = A \o B
  BY DEF Reindex
<1>3. /\ A \in Seq(Write)
      /\ \A v, k : /\ Leaves(A, 1, "disk", v, k) /\ \A t : ~Puts(A, k, t)
                   /\ k # j \/ v \notin N => Leaves(A, 1, "index", v, k)
      /\ \A v : Gains(A, 1, "index", v, j) \/ (v \in In(old.NAME) /\ Leaves(A, 1, "index", v, j))
                  <=> v \in In(new.NAME)
  BY <1>1, ExchangeDoes
<1>4. /\ B \in Seq(Write)
      /\ \A v, k : /\ Leaves(B, 1, "disk", v, k) /\ \A t : ~Puts(B, k, t)
                   /\ k # j \/ v \notin Refn => Leaves(B, 1, "index", v, k)
      /\ \A v : Gains(B, 1, "index", v, j) \/ (v \in In(old.REFN) /\ Leaves(B, 1, "index", v, j))
                  <=> v \in In(new.REFN)
  BY <1>1, ExchangeDoes
<1> HIDE DEF X, A, B
<1>5. X \in Seq(Write)
  BY <1>2, <1>3, <1>4, Places
<1>6. \A v, k : /\ Leaves(X, 1, "disk", v, k)
                /\ Leaves(X, 1, "index", v, k)
                     <=> Leaves(A, 1, "index", v, k) /\ Leaves(B, 1, "index", v, k)
                /\ Gains(X, 1, "index", v, k)
                     <=> \/ Gains(B, 1, "index", v, k)
                         \/ Gains(A, 1, "index", v, k) /\ Leaves(B, 1, "index", v, k)
                /\ \A t : ~Puts(X, k, t)
  BY <1>2, <1>3, <1>4, Joined, PutsJoined
<1>7. \A v, k : k # j => Leaves(X, 1, "index", v, k)
  BY <1>3, <1>4, <1>6
<1>8. \A v : /\ v \notin N => ~Gains(A, 1, "index", v, j)
             /\ v \notin Refn => ~Gains(B, 1, "index", v, j)
  BY <1>3, <1>4, NotBoth
<1>9. ASSUME NEW v
      PROVE Gains(X, 1, "index", v, j) \/ (Lines(old, v) /\ Leaves(X, 1, "index", v, j))
              <=> Lines(new, v)
  <2>1. CASE v \in N
    <3>1. v \notin Refn
      BY <1>1, <2>1
    <3>2. v \notin In(old.REFN) /\ v \notin In(new.REFN)
      BY <1>1, <3>1
    <3>3. (Lines(old, v) <=> v \in In(old.NAME)) /\ (Lines(new, v) <=> v \in In(new.NAME))
      BY <1>1, <3>2 DEF Lines
    <3> QED  BY <1>3, <1>4, <1>6, <1>8, <3>1, <3>3
  <2>2. CASE v \notin N
    <3>1. v \notin In(old.NAME) /\ v \notin In(new.NAME)
      BY <1>1, <2>2
    <3>2. (Lines(old, v) <=> v \in In(old.REFN)) /\ (Lines(new, v) <=> v \in In(new.REFN))
      BY <1>1, <3>1 DEF Lines
    <3> QED  BY <1>3, <1>4, <1>6, <1>8, <2>2, <3>2
  <2> QED  BY <2>1, <2>2
<1> QED  BY <1>5, <1>6, <1>7, <1>9 DEF X

(***************************************************************************)
(* The commands, as planned when they begin: where the index agrees with   *)
(* the records, and but for what is left behind carelessly, it will when   *)
(* all is written; and what no write of the index touches is stored as it  *)
(* is.                                                                     *)
(***************************************************************************)
Stored == \A k \in Key : disk[k] \in TextsOf(k) \cup {Gone}

Faithful(W, careless) ==
    \A v \in Value, k \in Key :
       \/ <<v, k>> \in careless
       \/ Gains(W, 1, "index", v, k) \/ (Lines(disk[k], v) /\ Leaves(W, 1, "index", v, k))
            <=> Gains(W, 1, "disk", v, k) \/ (Lines(disk[k], v) /\ Leaves(W, 1, "disk", v, k))

Untouched(W, careless) ==
    \A v \in Value, k \in Key :
       \/ <<v, k>> \in careless
       \/ ~Leaves(W, 1, "index", v, k)
       \/ \A t : Puts(W, k, t) => (Lines(t, v) <=> Lines(disk[k], v))

Planned(W, careless) == W \in Seq(Write) /\ Faithful(W, careless) /\ Untouched(W, careless)

LEMMA PlannedMore ==
    ASSUME NEW W, NEW few, NEW many, few \subseteq many, Planned(W, few)
    PROVE  Planned(W, many)
<1>1. \A e : e \in few => e \in many
  OBVIOUS
<1> QED  BY <1>1 DEF Planned, Faithful, Untouched

LEMMA GoneHasNone == \A v : ~Lines(Gone, v)
BY DEF Lines

LEMMA NewPlanned ==
    ASSUME NEW j \in Key, disk[j] = Gone, NEW text \in TextsOf(j)
    PROVE  /\ Planned(NewRecord(j, text), {})
           /\ \A k, t : Puts(NewRecord(j, text), k, t) <=> k = j /\ t = text
<1> DEFINE A == Add(text.NAME, j)  B == Add(text.REFN, j)  C == Store(j, text)
           W == NewRecord(j, text)
<1>1. /\ text.NAME \in Seq(NamesOf(j)) /\ text.REFN \in Seq(Refn) /\ text # Gone
      /\ NamesOf(j) \in SUBSET Value /\ Refn \in SUBSET Value
      /\ NamesOf(j) \X {j} \subseteq Good /\ Refn \X {j} \subseteq Good
  BY TextIs
<1>2. /\ A \in Seq(Write)
      /\ \A v, k : /\ Leaves(A, 1, "disk", v, k) /\ \A t : ~Puts(A, k, t)
                   /\ Leaves(A, 1, "index", v, k) <=> ~(k = j /\ v \in In(text.NAME))
                   /\ Gains(A, 1, "index", v, k) <=> k = j /\ v \in In(text.NAME)
  BY <1>1, AddDoes
<1>3. /\ B \in Seq(Write)
      /\ \A v, k : /\ Leaves(B, 1, "disk", v, k) /\ \A t : ~Puts(B, k, t)
                   /\ Leaves(B, 1, "index", v, k) <=> ~(k = j /\ v \in In(text.REFN))
                   /\ Gains(B, 1, "index", v, k) <=> k = j /\ v \in In(text.REFN)
  BY <1>1, AddDoes
<1>4. /\ C \in Seq(Write)
      /\ \A v, k : /\ Leaves(C, 1, "index", v, k)
                   /\ Leaves(C, 1, "disk", v, k) <=> k # j
                   /\ Gains(C, 1, "disk", v, k) <=> k = j /\ Lines(text, v)
                   /\ \A t : Puts(C, k, t) <=> k = j /\ t = text
  BY StoreDoes
<1>5. W = (A \o B) \o C
  BY DEF NewRecord
<1>6. \A v : Lines(text, v) <=> v \in In(text.NAME) \/ v \in In(text.REFN)
  BY <1>1 DEF Lines
<1> HIDE DEF A, B, C, W
<1>7. A \o B \in Seq(Write) /\ W \in Seq(Write)
  BY <1>2, <1>3, <1>4, <1>5, Places
<1>8. \A side, v, k :
         /\ Leaves(A \o B, 1, side, v, k) <=> Leaves(A, 1, side, v, k) /\ Leaves(B, 1, side, v, k)
         /\ Gains(A \o B, 1, side, v, k)
              <=> Gains(B, 1, side, v, k) \/ (Gains(A, 1, side, v, k) /\ Leaves(B, 1, side, v, k))
         /\ \A t : Puts(A \o B, k, t) <=> Puts(A, k, t) \/ Puts(B, k, t)
  BY <1>2, <1>3, Joined, PutsJoined
<1>9. \A side, v, k :
         /\ Leaves(W, 1, side, v, k) <=> Leaves(A \o B, 1, side, v, k) /\ Leaves(C, 1, side, v, k)
         /\ Gains(W, 1, side, v, k)
              <=> Gains(C, 1, side, v, k) \/ (Gains(A \o B, 1, side, v, k) /\ Leaves(C, 1, side, v, k))
         /\ \A t : Puts(W, k, t) <=> Puts(A \o B, k, t) \/ Puts(C, k, t)
  BY <1>4, <1>5, <1>7, Joined, PutsJoined
<1>10. \A v, k : /\ Leaves(W, 1, "index", v, k) <=> ~(k = j /\ Lines(text, v))
                 /\ Gains(W, 1, "index", v, k) <=> k = j /\ Lines(text, v)
                 /\ Leaves(W, 1, "disk", v, k) <=> k # j
                 /\ Gains(W, 1, "disk", v, k) <=> k = j /\ Lines(text, v)
                 /\ \A t : Puts(W, k, t) <=> k = j /\ t = text
  <2> TAKE v, k
  <2>1. ~Gains(A, 1, "disk", v, k) /\ ~Gains(B, 1, "disk", v, k) /\ ~Gains(C, 1, "index", v, k)
    BY <1>2, <1>3, <1>4, NotBoth
  <2>2. \A t : Puts(W, k, t) <=> k = j /\ t = text
    BY <1>2, <1>3, <1>4, <1>8, <1>9
  <2> QED  BY <1>2, <1>3, <1>4, <1>6, <1>8, <1>9, <2>1, <2>2
<1>11. Faithful(W, {}) /\ Untouched(W, {})
  BY <1>10, GoneHasNone DEF Faithful, Untouched
<1> QED  BY <1>7, <1>10, <1>11 DEF Planned, W

LEMMA RestorePlanned ==
    ASSUME NEW j \in Key, disk[j] = Gone, j \notin Person, NEW text \in TextsOf(j)
    PROVE  Planned(Store(j, text) \o Add(text.REFN, j), {})
<1> DEFINE B == Add(text.REFN, j)  C == Store(j, text)
           W == C \o B
<1>1. /\ text.REFN \in Seq(Refn) /\ text # Gone /\ In(text.NAME) = {}
      /\ Refn \in SUBSET Value /\ Refn \X {j} \subseteq Good
  <2>1. NamesOf(j) = {}
    BY DEF NamesOf
  <2> QED  BY <2>1, TextIs
<1>2. /\ B \in Seq(Write)
      /\ \A v, k : /\ Leaves(B, 1, "disk", v, k) /\ \A t : ~Puts(B, k, t)
                   /\ Leaves(B, 1, "index", v, k) <=> ~(k = j /\ v \in In(text.REFN))
                   /\ Gains(B, 1, "index", v, k) <=> k = j /\ v \in In(text.REFN)
  BY <1>1, AddDoes
<1>3. /\ C \in Seq(Write)
      /\ \A v, k : /\ Leaves(C, 1, "index", v, k)
                   /\ Leaves(C, 1, "disk", v, k) <=> k # j
                   /\ Gains(C, 1, "disk", v, k) <=> k = j /\ Lines(text, v)
                   /\ \A t : Puts(C, k, t) <=> k = j /\ t = text
  BY StoreDoes
<1>4. \A v : Lines(text, v) <=> v \in In(text.REFN)
  BY <1>1 DEF Lines
<1> HIDE DEF B, C
<1>5. \A side, v, k :
         /\ Leaves(W, 1, side, v, k) <=> Leaves(C, 1, side, v, k) /\ Leaves(B, 1, side, v, k)
         /\ Gains(W, 1, side, v, k)
              <=> Gains(B, 1, side, v, k) \/ (Gains(C, 1, side, v, k) /\ Leaves(B, 1, side, v, k))
         /\ \A t : Puts(W, k, t) <=> Puts(C, k, t) \/ Puts(B, k, t)
  BY <1>2, <1>3, Joined, PutsJoined
<1>6. W \in Seq(Write)
  BY <1>2, <1>3, Places
<1> HIDE DEF W
<1>7. \A v, k : /\ Leaves(W, 1, "index", v, k) <=> ~(k = j /\ Lines(text, v))
                /\ Gains(W, 1, "index", v, k) <=> k = j /\ Lines(text, v)
                /\ Leaves(W, 1, "disk", v, k) <=> k # j
                /\ Gains(W, 1, "disk", v, k) <=> k = j /\ Lines(text, v)
                /\ \A t : Puts(W, k, t) <=> k = j /\ t = text
  <2> TAKE v, k
  <2>1. ~Gains(B, 1, "disk", v, k) /\ ~Gains(C, 1, "index", v, k)
    BY <1>2, <1>3, NotBoth
  <2>2. \A t : Puts(W, k, t) <=> k = j /\ t = text
    BY <1>2, <1>3, <1>5
  <2> QED  BY <1>2, <1>3, <1>4, <1>5, <2>1, <2>2
<1>8. Faithful(W, {}) /\ Untouched(W, {})
  BY <1>7, GoneHasNone DEF Faithful, Untouched
<1> QED  BY <1>6, <1>8 DEF Planned, W, B, C

LEMMA ReplacePlanned ==
    ASSUME NEW j \in Key, disk[j] \in TextsOf(j), NEW text \in TextsOf(j)
    PROVE  /\ Planned(Replace(j, text), {})
           /\ \A k, t : Puts(Replace(j, text), k, t) <=> k = j /\ t = text
<1> DEFINE B == Reindex(disk[j], text, j)  C == Store(j, text)
           W == Replace(j, text)
<1>1. /\ B \in Seq(Write)
      /\ \A v, k : /\ Leaves(B, 1, "disk", v, k) /\ \A t : ~Puts(B, k, t)
                   /\ k # j => Leaves(B, 1, "index", v, k)
      /\ \A v \in Value :
           Gains(B, 1, "index", v, j) \/ (Lines(disk[j], v) /\ Leaves(B, 1, "index", v, j))
             <=> Lines(text, v)
  BY ReindexDoes
<1>2. /\ C \in Seq(Write)
      /\ \A v, k : /\ Leaves(C, 1, "index", v, k)
                   /\ Leaves(C, 1, "disk", v, k) <=> k # j
                   /\ Gains(C, 1, "disk", v, k) <=> k = j /\ Lines(text, v)
                   /\ \A t : Puts(C, k, t) <=> k = j /\ t = text
  BY StoreDoes
<1>3. W = C \o B
  BY DEF Replace
<1> HIDE DEF W, B, C
<1>4. \A side, v, k :
         /\ Leaves(W, 1, side, v, k) <=> Leaves(C, 1, side, v, k) /\ Leaves(B, 1, side, v, k)
         /\ Gains(W, 1, side, v, k)
              <=> Gains(B, 1, side, v, k) \/ (Gains(C, 1, side, v, k) /\ Leaves(B, 1, side, v, k))
         /\ \A t : Puts(W, k, t) <=> Puts(C, k, t) \/ Puts(B, k, t)
  BY <1>1, <1>2, <1>3, Joined, PutsJoined
<1>5. W \in Seq(Write)
  BY <1>1, <1>2, <1>3, Places
<1>6. \A k, t : Puts(W, k, t) <=> k = j /\ t = text
  BY <1>1, <1>2, <1>4
<1>7. ASSUME NEW v \in Value, NEW k \in Key
      PROVE  /\ Gains(W, 1, "index", v, k) \/ (Lines(disk[k], v) /\ Leaves(W, 1, "index", v, k))
                  <=> Gains(W, 1, "disk", v, k) \/ (Lines(disk[k], v) /\ Leaves(W, 1, "disk", v, k))
             /\ \/ ~Leaves(W, 1, "index", v, k)
                \/ \A t : Puts(W, k, t) => (Lines(t, v) <=> Lines(disk[k], v))
  <2>1. ~Gains(B, 1, "disk", v, k) /\ ~Gains(C, 1, "index", v, k)
    BY <1>1, <1>2, NotBoth
  <2>2. Leaves(B, 1, "index", v, k) => ~Gains(B, 1, "index", v, k)
    BY NotBoth
  <2>3. CASE k = j
    <3>1. Gains(W, 1, "index", v, k) \/ (Lines(disk[k], v) /\ Leaves(W, 1, "index", v, k))
            <=> Lines(text, v)
      BY <1>1, <1>2, <1>4, <2>1, <2>3
    <3>2. Gains(W, 1, "disk", v, k) \/ (Lines(disk[k], v) /\ Leaves(W, 1, "disk", v, k))
            <=> Lines(text, v)
      BY <1>1, <1>2, <1>4, <2>1, <2>3
    <3>3. Leaves(W, 1, "index", v, k) => ~Gains(W, 1, "index", v, k)
      BY NotBoth
    <3>4. Leaves(W, 1, "index", v, k) => (Lines(text, v) <=> Lines(disk[k], v))
      BY <3>1, <3>3
    <3>5. \/ ~Leaves(W, 1, "index", v, k)
          \/ \A t : Puts(W, k, t) => (Lines(t, v) <=> Lines(disk[k], v))
      BY <1>6, <3>4
    <3> QED  BY <3>1, <3>2, <3>5
  <2>4. CASE k # j
    <3>1. Leaves(W, 1, "index", v, k) /\ Leaves(W, 1, "disk", v, k)
      BY <1>1, <1>2, <1>4, <2>4
    <3>2. ~Gains(W, 1, "index", v, k) /\ ~Gains(W, 1, "disk", v, k)
      BY <3>1, NotBoth
    <3>3. \A t : ~Puts(W, k, t)
      BY <1>6, <2>4
    <3> QED  BY <3>1, <3>2, <3>3
  <2> QED  BY <2>3, <2>4
<1>8. Faithful(W, {}) /\ Untouched(W, {})
  BY <1>7 DEF Faithful, Untouched
<1> QED  BY <1>5, <1>6, <1>8 DEF Planned, W

LEMMA DropAllDoes ==
    ASSUME NEW j \in Key, disk[j] \in TextsOf(j)
    PROVE  /\ DropAll(j) \in Seq(Write)
           /\ \A v, k : /\ Leaves(DropAll(j), 1, "index", v, k) <=> ~(k = j /\ Lines(disk[j], v))
                        /\ ~Gains(DropAll(j), 1, "index", v, k)
                        /\ Leaves(DropAll(j), 1, "disk", v, k) <=> k # j
                        /\ ~Gains(DropAll(j), 1, "disk", v, k)
                        /\ \A t : Puts(DropAll(j), k, t) <=> k = j /\ t = Gone
<1> DEFINE text == disk[j]
           A == Drop(text.NAME, j)  B == Drop(text.REFN, j)  C == Store(j, Gone)
           W == DropAll(j)
<1>1. /\ text.NAME \in Seq(NamesOf(j)) /\ text.REFN \in Seq(Refn) /\ text # Gone
      /\ NamesOf(j) \in SUBSET Value /\ Refn \in SUBSET Value
      /\ NamesOf(j) \X {j} \subseteq Good /\ Refn \X {j} \subseteq Good
  BY TextIs
<1>2. W = (A \o B) \o C
  BY DEF DropAll, Delete
<1> HIDE DEF text, W
<1>3. /\ A \in Seq(Write)
      /\ \A v, k : /\ Leaves(A, 1, "disk", v, k) /\ \A t : ~Puts(A, k, t)
                   /\ Leaves(A, 1, "index", v, k) <=> ~(k = j /\ v \in In(text.NAME))
                   /\ ~Gains(A, 1, "index", v, k)
  BY <1>1, DropDoes
<1>4. /\ B \in Seq(Write)
      /\ \A v, k : /\ Leaves(B, 1, "disk", v, k) /\ \A t : ~Puts(B, k, t)
                   /\ Leaves(B, 1, "index", v, k) <=> ~(k = j /\ v \in In(text.REFN))
                   /\ ~Gains(B, 1, "index", v, k)
  BY <1>1, DropDoes
<1>5. /\ C \in Seq(Write)
      /\ \A v, k : /\ Leaves(C, 1, "index", v, k)
                   /\ Leaves(C, 1, "disk", v, k) <=> k # j
                   /\ Gains(C, 1, "disk", v, k) <=> k = j /\ Lines(Gone, v)
                   /\ \A t : Puts(C, k, t) <=> k = j /\ t = Gone
  BY StoreDoes
<1>6. \A v : Lines(text, v) <=> v \in In(text.NAME) \/ v \in In(text.REFN)
  BY <1>1 DEF Lines
<1> HIDE DEF A, B, C
<1>7. A \o B \in Seq(Write) /\ W \in Seq(Write)
  BY <1>2, <1>3, <1>4, <1>5, Places
<1>8. \A side, v, k :
         /\ Leaves(A \o B, 1, side, v, k) <=> Leaves(A, 1, side, v, k) /\ Leaves(B, 1, side, v, k)
         /\ Gains(A \o B, 1, side, v, k)
              <=> Gains(B, 1, side, v, k) \/ (Gains(A, 1, side, v, k) /\ Leaves(B, 1, side, v, k))
         /\ \A t : Puts(A \o B, k, t) <=> Puts(A, k, t) \/ Puts(B, k, t)
  BY <1>3, <1>4, Joined, PutsJoined
<1>9. \A side, v, k :
         /\ Leaves(W, 1, side, v, k) <=> Leaves(A \o B, 1, side, v, k) /\ Leaves(C, 1, side, v, k)
         /\ Gains(W, 1, side, v, k)
              <=> Gains(C, 1, side, v, k) \/ (Gains(A \o B, 1, side, v, k) /\ Leaves(C, 1, side, v, k))
         /\ \A t : Puts(W, k, t) <=> Puts(A \o B, k, t) \/ Puts(C, k, t)
  BY <1>2, <1>5, <1>7, Joined, PutsJoined
<1>10. \A v, k : /\ Leaves(W, 1, "index", v, k) <=> ~(k = j /\ Lines(text, v))
                 /\ ~Gains(W, 1, "index", v, k)
                 /\ Leaves(W, 1, "disk", v, k) <=> k # j
                 /\ ~Gains(W, 1, "disk", v, k)
                 /\ \A t : Puts(W, k, t) <=> k = j /\ t = Gone
  <2> TAKE v, k
  <2>1. /\ ~Gains(A, 1, "disk", v, k) /\ ~Gains(B, 1, "disk", v, k)
        /\ ~Gains(C, 1, "index", v, k) /\ ~Gains(C, 1, "disk", v, k)
    BY <1>3, <1>4, <1>5, NotBoth, GoneHasNone
  <2>2. \A t : Puts(W, k, t) <=> k = j /\ t = Gone
    BY <1>3, <1>4, <1>5, <1>8, <1>9
  <2> QED  BY <1>3, <1>4, <1>5, <1>6, <1>8, <1>9, <2>1, <2>2
<1> QED  BY <1>7, <1>10 DEF text, W

LEMMA DropAllPlanned ==
    ASSUME NEW j \in Key, disk[j] \in TextsOf(j)
    PROVE  Planned(DropAll(j), {})
<1> DEFINE W == DropAll(j)
<1>1. W \in Seq(Write)
  BY DropAllDoes
<1>2. \A v, k : /\ Leaves(W, 1, "index", v, k) <=> ~(k = j /\ Lines(disk[j], v))
                /\ ~Gains(W, 1, "index", v, k)
                /\ Leaves(W, 1, "disk", v, k) <=> k # j
                /\ ~Gains(W, 1, "disk", v, k)
                /\ \A t : Puts(W, k, t) <=> k = j /\ t = Gone
  BY DropAllDoes
<1> HIDE DEF W
<1>3. Faithful(W, {}) /\ Untouched(W, {})
  BY <1>2, GoneHasNone DEF Faithful, Untouched
<1> QED  BY <1>1, <1>3 DEF Planned, W

(* Of a record that is no person's, some of the lines are dropped: all, or what  *)
(* is left of them is careless.                                                  *)
LEMMA RemovePlanned ==
    ASSUME NEW j \in Key, j \notin Person, disk[j] \in TextsOf(j), NEW s \in Seq(Refn), NEW careless,
           \A v \in In(disk[j].REFN) : v \in In(s) \/ <<v, j>> \in careless,
           \A v \in In(s) : v \in In(disk[j].REFN) \/ <<v, j>> \in careless
    PROVE  /\ Planned(Drop(s, j) \o Delete(j), careless)
           /\ \A k, t : Puts(Drop(s, j) \o Delete(j), k, t) <=> k = j /\ t = Gone
<1> DEFINE text == disk[j]
           B == Drop(s, j)  C == Store(j, Gone)
           W == B \o C
<1>1. /\ text.REFN \in Seq(Refn) /\ text # Gone /\ In(text.NAME) = {}
      /\ Refn \in SUBSET Value /\ Refn \X {j} \subseteq Good
  <2>1. NamesOf(j) = {}
    BY DEF NamesOf
  <2> QED  BY <2>1, TextIs
<1> HIDE DEF text
<1>2. /\ B \in Seq(Write)
      /\ \A v, k : /\ Leaves(B, 1, "disk", v, k) /\ \A t : ~Puts(B, k, t)
                   /\ Leaves(B, 1, "index", v, k) <=> ~(k = j /\ v \in In(s))
                   /\ ~Gains(B, 1, "index", v, k)
  BY <1>1, DropDoes
<1>3. /\ C \in Seq(Write)
      /\ \A v, k : /\ Leaves(C, 1, "index", v, k)
                   /\ Leaves(C, 1, "disk", v, k) <=> k # j
                   /\ Gains(C, 1, "disk", v, k) <=> k = j /\ Lines(Gone, v)
                   /\ \A t : Puts(C, k, t) <=> k = j /\ t = Gone
  BY StoreDoes
<1>4. \A v : Lines(text, v) <=> v \in In(text.REFN)
  BY <1>1 DEF Lines
<1> HIDE DEF B, C
<1>5. \A side, v, k :
         /\ Leaves(W, 1, side, v, k) <=> Leaves(B, 1, side, v, k) /\ Leaves(C, 1, side, v, k)
         /\ Gains(W, 1, side, v, k)
              <=> Gains(C, 1, side, v, k) \/ (Gains(B, 1, side, v, k) /\ Leaves(C, 1, side, v, k))
         /\ \A t : Puts(W, k, t) <=> Puts(B, k, t) \/ Puts(C, k, t)
  BY <1>2, <1>3, Joined, PutsJoined
<1>6. W \in Seq(Write)
  BY <1>2, <1>3, Places
<1> HIDE DEF W
<1>7. \A v, k : /\ Leaves(W, 1, "index", v, k) <=> ~(k = j /\ v \in In(s))
                /\ ~Gains(W, 1, "index", v, k)
                /\ Leaves(W, 1, "disk", v, k) <=> k # j
                /\ ~Gains(W, 1, "disk", v, k)
                /\ \A t : Puts(W, k, t) <=> k = j /\ t = Gone
  <2> TAKE v, k
  <2>1. /\ ~Gains(B, 1, "disk", v, k)
        /\ ~Gains(C, 1, "index", v, k) /\ ~Gains(C, 1, "disk", v, k)
    BY <1>2, <1>3, NotBoth, GoneHasNone
  <2>2. \A t : Puts(W, k, t) <=> k = j /\ t = Gone
    BY <1>2, <1>3, <1>5
  <2> QED  BY <1>2, <1>3, <1>5, <2>1, <2>2
<1>8. ASSUME NEW v \in Value, NEW k \in Key, <<v, k>> \notin careless
      PROVE  /\ Gains(W, 1, "index", v, k) \/ (Lines(disk[k], v) /\ Leaves(W, 1, "index", v, k))
                  <=> Gains(W, 1, "disk", v, k) \/ (Lines(disk[k], v) /\ Leaves(W, 1, "disk", v, k))
             /\ \/ ~Leaves(W, 1, "index", v, k)
                \/ \A t : Puts(W, k, t) => (Lines(t, v) <=> Lines(disk[k], v))
  <2>1. CASE k = j
    <3>1. Lines(disk[k], v) <=> v \in In(s)
      BY <1>4, <1>8, <2>1 DEF text
    <3> QED  BY <1>7, <2>1, <3>1, GoneHasNone
  <2>2. CASE k # j
    BY <1>7, <2>2
  <2> QED  BY <2>1, <2>2
<1>9. Faithful(W, careless) /\ Untouched(W, careless)
  BY <1>8 DEF Faithful, Untouched
<1> QED  BY <1>6, <1>7, <1>9 DEF Planned, W, B, C, Delete

LEMMA MergePlanned ==
    ASSUME NEW i1 \in Key, disk[i1] \in TextsOf(i1), NEW i2 \in Key, disk[i2] \in TextsOf(i2),
           i1 # i2, NEW text \in TextsOf(i2)
    PROVE  LET W == Reindex(disk[i2], text, i2) \o Store(i2, text) \o DropAll(i1)
           IN /\ Planned(W, {})
              /\ \A k, t : Puts(W, k, t) <=> (k = i2 /\ t = text) \/ (k = i1 /\ t = Gone)
<1> DEFINE B == Reindex(disk[i2], text, i2)  C == Store(i2, text)  D == DropAll(i1)
           P == B \o C
           W == P \o D
<1>1. /\ B \in Seq(Write)
      /\ \A v, k : /\ Leaves(B, 1, "disk", v, k) /\ \A t : ~Puts(B, k, t)
                   /\ k # i2 => Leaves(B, 1, "index", v, k)
      /\ \A v \in Value :
           Gains(B, 1, "index", v, i2) \/ (Lines(disk[i2], v) /\ Leaves(B, 1, "index", v, i2))
             <=> Lines(text, v)
  BY ReindexDoes
<1>2. /\ C \in Seq(Write)
      /\ \A v, k : /\ Leaves(C, 1, "index", v, k)
                   /\ Leaves(C, 1, "disk", v, k) <=> k # i2
                   /\ Gains(C, 1, "disk", v, k) <=> k = i2 /\ Lines(text, v)
                   /\ \A t : Puts(C, k, t) <=> k = i2 /\ t = text
  BY StoreDoes
<1>3. /\ D \in Seq(Write)
      /\ \A v, k : /\ Leaves(D, 1, "index", v, k) <=> ~(k = i1 /\ Lines(disk[i1], v))
                   /\ ~Gains(D, 1, "index", v, k)
                   /\ Leaves(D, 1, "disk", v, k) <=> k # i1
                   /\ ~Gains(D, 1, "disk", v, k)
                   /\ \A t : Puts(D, k, t) <=> k = i1 /\ t = Gone
  BY DropAllDoes
<1> HIDE DEF B, C, D
<1>4. \A side, v, k :
         /\ Leaves(P, 1, side, v, k) <=> Leaves(B, 1, side, v, k) /\ Leaves(C, 1, side, v, k)
         /\ Gains(P, 1, side, v, k)
              <=> Gains(C, 1, side, v, k) \/ (Gains(B, 1, side, v, k) /\ Leaves(C, 1, side, v, k))
         /\ \A t : Puts(P, k, t) <=> Puts(B, k, t) \/ Puts(C, k, t)
  BY <1>1, <1>2, Joined, PutsJoined
<1>5. P \in Seq(Write)
  BY <1>1, <1>2, Places
<1> HIDE DEF P
<1>6. \A side, v, k :
         /\ Leaves(W, 1, side, v, k) <=> Leaves(P, 1, side, v, k) /\ Leaves(D, 1, side, v, k)
         /\ Gains(W, 1, side, v, k)
              <=> Gains(D, 1, side, v, k) \/ (Gains(P, 1, side, v, k) /\ Leaves(D, 1, side, v, k))
         /\ \A t : Puts(W, k, t) <=> Puts(P, k, t) \/ Puts(D, k, t)
  BY <1>3, <1>5, Joined, PutsJoined
<1>7. W \in Seq(Write)
  BY <1>3, <1>5, Places
<1> HIDE DEF W
<1>8. \A k, t : Puts(W, k, t) <=> (k = i2 /\ t = text) \/ (k = i1 /\ t = Gone)
  BY <1>1, <1>2, <1>3, <1>4, <1>6
<1>9. ASSUME NEW v \in Value, NEW k \in Key
      PROVE  /\ Gains(W, 1, "index", v, k) \/ (Lines(disk[k], v) /\ Leaves(W, 1, "index", v, k))
                  <=> Gains(W, 1, "disk", v, k) \/ (Lines(disk[k], v) /\ Leaves(W, 1, "disk", v, k))
             /\ \/ ~Leaves(W, 1, "index", v, k)
                \/ \A t : Puts(W, k, t) => (Lines(t, v) <=> Lines(disk[k], v))
  <2>1. ~Gains(B, 1, "disk", v, k) /\ ~Gains(C, 1, "index", v, k)
    BY <1>1, <1>2, NotBoth
  <2>2. Leaves(W, 1, "index", v, k) => ~Gains(W, 1, "index", v, k)
    BY NotBoth
  <2>3. CASE k = i2
    <3>1. Gains(W, 1, "index", v, k) \/ (Lines(disk[k], v) /\ Leaves(W, 1, "index", v, k))
            <=> Lines(text, v)
      BY <1>1, <1>2, <1>3, <1>4, <1>6, <2>1, <2>3
    <3>2. Gains(W, 1, "disk", v, k) \/ (Lines(disk[k], v) /\ Leaves(W, 1, "disk", v, k))
            <=> Lines(text, v)
      BY <1>1, <1>2, <1>3, <1>4, <1>6, <2>1, <2>3
    <3>3. Leaves(W, 1, "index", v, k) => (Lines(text, v) <=> Lines(disk[k], v))
      BY <2>2, <3>1
    <3>4. \/ ~Leaves(W, 1, "index", v, k)
          \/ \A t : Puts(W, k, t) => (Lines(t, v) <=> Lines(disk[k], v))
      BY <1>8, <2>3, <3>3
    <3> QED  BY <3>1, <3>2, <3>4
  <2>4. CASE k = i1
    <3>1. /\ Leaves(P, 1, "index", v, k) /\ ~Gains(P, 1, "index", v, k)
          /\ Leaves(P, 1, "disk", v, k) /\ ~Gains(P, 1, "disk", v, k)
      BY <1>1, <1>2, <1>4, <2>1, <2>4, NotBoth
    <3>2. /\ Leaves(W, 1, "index", v, k) <=> ~Lines(disk[k], v)
          /\ ~Gains(W, 1, "index", v, k)
          /\ ~Leaves(W, 1, "disk", v, k) /\ ~Gains(W, 1, "disk", v, k)
      BY <1>3, <1>6, <2>4, <3>1
    <3>3. \A t : Puts(W, k, t) => t = Gone
      BY <1>8, <2>4
    <3> QED  BY <3>2, <3>3, GoneHasNone
  <2>5. CASE k # i1 /\ k # i2
    <3>1. Leaves(W, 1, "index", v, k) /\ Leaves(W, 1, "disk", v, k)
      BY <1>1, <1>2, <1>3, <1>4, <1>6, <2>5
    <3>2. ~Gains(W, 1, "index", v, k) /\ ~Gains(W, 1, "disk", v, k)
      BY <3>1, NotBoth
    <3>3. \A t : ~Puts(W, k, t)
      BY <1>8, <2>5
    <3> QED  BY <3>1, <3>2, <3>3
  <2> QED  BY <2>3, <2>4, <2>5
<1>10. Faithful(W, {}) /\ Untouched(W, {})
  BY <1>9 DEF Faithful, Untouched
<1>11. Planned(W, {}) /\ \A k, t : Puts(W, k, t) <=> (k = i2 /\ t = text) \/ (k = i1 /\ t = Gone)
  BY <1>7, <1>8, <1>10 DEF Planned
<1> QED  BY <1>11 DEF W, P, B, C, D

LEMMA MergeFamsPlanned ==
    ASSUME NEW f1 \in Key, disk[f1] \in TextsOf(f1), NEW f2 \in Key, disk[f2] \in TextsOf(f2),
           f1 \notin Person, f2 \notin Person, f1 # f2, NEW text \in TextsOf(f2),
           NEW careless, Refn \X {f1, f2} \subseteq careless
    PROVE  /\ Planned(Delete(f1) \o Store(f2, text), careless)
           /\ \A k, t : Puts(Delete(f1) \o Store(f2, text), k, t) => k \notin Person
<1> DEFINE B == Store(f1, Gone)  C == Store(f2, text)
           W == B \o C
<1>1. /\ B \in Seq(Write)
      /\ \A v, k : /\ Leaves(B, 1, "index", v, k)
                   /\ Leaves(B, 1, "disk", v, k) <=> k # f1
                   /\ \A t : Puts(B, k, t) <=> k = f1 /\ t = Gone
  BY StoreDoes
<1>2. /\ C \in Seq(Write)
      /\ \A v, k : /\ Leaves(C, 1, "index", v, k)
                   /\ Leaves(C, 1, "disk", v, k) <=> k # f2
                   /\ Gains(C, 1, "disk", v, k) <=> k = f2 /\ Lines(text, v)
                   /\ \A t : Puts(C, k, t) <=> k = f2 /\ t = text
  BY StoreDoes
<1>3. \A v, k : ~Gains(B, 1, "disk", v, k)
  BY StoreDoes, GoneHasNone
<1> HIDE DEF B, C
<1>4. \A side, v, k :
         /\ Leaves(W, 1, side, v, k) <=> Leaves(B, 1, side, v, k) /\ Leaves(C, 1, side, v, k)
         /\ Gains(W, 1, side, v, k)
              <=> Gains(C, 1, side, v, k) \/ (Gains(B, 1, side, v, k) /\ Leaves(C, 1, side, v, k))
         /\ \A t : Puts(W, k, t) <=> Puts(B, k, t) \/ Puts(C, k, t)
  BY <1>1, <1>2, Joined, PutsJoined
<1>5. W \in Seq(Write)
  BY <1>1, <1>2, Places
<1> HIDE DEF W
<1>6. \A k, t : Puts(W, k, t) <=> (k = f1 /\ t = Gone) \/ (k = f2 /\ t = text)
  BY <1>1, <1>2, <1>4
<1>7. \A v : v \notin Refn => ~Lines(disk[f1], v) /\ ~Lines(disk[f2], v) /\ ~Lines(text, v)
  <2>1. NamesOf(f1) = {} /\ NamesOf(f2) = {}
    BY DEF NamesOf
  <2>2. /\ In(disk[f1].NAME) = {} /\ In(disk[f1].REFN) \subseteq Refn
        /\ In(disk[f2].NAME) = {} /\ In(disk[f2].REFN) \subseteq Refn
        /\ In(text.NAME) = {} /\ In(text.REFN) \subseteq Refn
    BY <2>1, TextIs
  <2> QED  BY <2>2 DEF Lines
<1>8. ASSUME NEW v \in Value, NEW k \in Key, <<v, k>> \notin careless
      PROVE  /\ Gains(W, 1, "index", v, k) \/ (Lines(disk[k], v) /\ Leaves(W, 1, "index", v, k))
                  <=> Gains(W, 1, "disk", v, k) \/ (Lines(disk[k], v) /\ Leaves(W, 1, "disk", v, k))
             /\ \/ ~Leaves(W, 1, "index", v, k)
                \/ \A t : Puts(W, k, t) => (Lines(t, v) <=> Lines(disk[k], v))
  <2>1. CASE k \in {f1, f2}
    <3>1. v \notin Refn
      BY <1>8, <2>1
    <3>2. ~Lines(disk[k], v) /\ ~Lines(text, v) /\ ~Lines(Gone, v)
      BY <1>7, <2>1, <3>1, GoneHasNone
    <3>3. ~Gains(W, 1, "index", v, k)
      BY <1>1, <1>2, <1>4, NotBoth
    <3>4. ~Gains(W, 1, "disk", v, k)
      BY <1>2, <1>3, <1>4, <3>2
    <3> QED  BY <1>6, <3>2, <3>3, <3>4
  <2>2. CASE k \notin {f1, f2}
    <3>1. Leaves(W, 1, "index", v, k) /\ Leaves(W, 1, "disk", v, k)
      BY <1>1, <1>2, <1>4, <2>2
    <3>2. ~Gains(W, 1, "index", v, k) /\ ~Gains(W, 1, "disk", v, k)
      BY <3>1, NotBoth
    <3>3. \A t : ~Puts(W, k, t)
      BY <1>6, <2>2
    <3> QED  BY <3>1, <3>2, <3>3
  <2> QED  BY <2>1, <2>2
<1>9. Faithful(W, careless) /\ Untouched(W, careless)
  BY <1>8 DEF Faithful, Untouched
<1>10. Planned(W, careless) /\ \A k, t : Puts(W, k, t) => k \notin Person
  BY <1>5, <1>6, <1>9 DEF Planned
<1> QED  BY <1>10 DEF W, B, C, Delete

LEMMA GhostsPlanned ==
    ASSUME NEW n \in Nat
    PROVE  LET W == [m \in 1..n |-> [what |-> "ghost"]]
           IN /\ W \in Seq(GhostWrite) /\ Len(W) = n /\ \A k, t : ~Puts(W, k, t)
              /\ Faithful(W, {}) /\ Untouched(W, {})
<1> DEFINE g == [what |-> "ghost"]
           W == [m \in 1..n |-> g]
<1>1. g \in GhostWrite /\ g.what = "ghost"
  BY DEF GhostWrite
<1> HIDE DEF g
<1>2. W \in Seq(GhostWrite) /\ Len(W) = n /\ \A m \in 1..n : W[m] = g
  BY <1>1
<1> HIDE DEF W
<1>3. \A m \in 1..Len(W) : W[m].what = "ghost"
  BY <1>1, <1>2
<1>4. \A side, v, k : \A m \in 1..Len(W) : ~Decides(W[m], side, v, k)
  BY <1>3 DEF Decides
<1>5. \A side, v, k : Leaves(W, 1, side, v, k) /\ ~Gains(W, 1, side, v, k)
  BY <1>4 DEF Leaves, Gains, Grants
<1>6. \A k, t : ~Puts(W, k, t)
  BY <1>3 DEF Puts
<1>7. Faithful(W, {}) /\ Untouched(W, {})
  BY <1>5, <1>6 DEF Faithful, Untouched
<1> QED  BY <1>2, <1>6, <1>7 DEF W, g

(***************************************************************************)
(* The inductive invariant: what IndexExact and PersonRefnsUnique say is   *)
(* said of how things will be when the writes that are left are done; an   *)
(* entry that the whole command leaves alone is right at every moment, for *)
(* it may be cut short at any; and while persons are checked for REFNs, a  *)
(* command stores no more than one new text of a person, with REFNs that   *)
(* no other person has.                                                    *)
(***************************************************************************)
CarelessOf(kind, W) ==
    IF kind \in {"mergeFams", "remove"}
    THEN Refn \X (Family \cap {w.key : w \in ToSet(W)}) ELSE {}

Typed ==
    /\ disk \in [Key -> Text] /\ Stored
    /\ index \subseteq Good /\ IsFiniteSet(index) /\ loose \subseteq Entry
    /\ clean \in BOOLEAN /\ later \in 0..(MaxLater + 1)
    /\ op = [kind |-> op.kind, writes |-> op.writes, done |-> op.done]
    /\ IF op.kind = "verify" THEN op.writes \in Seq(GhostWrite) ELSE op.writes \in Seq(Write)
    /\ op.done \in Nat /\ (AtRest \/ op.done < Len(op.writes))

\* the entry agrees with the record when the writes from the n-th on are done
WillAgree(W, n, v, k) ==
    Gains(W, n, "index", v, k) \/ (<<v, k>> \in index /\ Leaves(W, n, "index", v, k))
      <=> Gains(W, n, "disk", v, k) \/ (Lines(disk[k], v) /\ Leaves(W, n, "disk", v, k))

StillFaithful ==
    \A v \in Value, k \in Key :
       <<v, k>> \in loose \cup Careless \/ WillAgree(op.writes, op.done + 1, v, k)

StillUntouched == Untouched(op.writes, Careless)

GhostsLeft == op.kind = "verify" => Cardinality(Ghosts) = Len(op.writes) - op.done

RefnsApart ==
    \A i, j \in Person, r \in Refn : Lines(disk[i], r) /\ Lines(disk[j], r) => i = j

FreshPuts(W) ==
    \A i \in Person : \A t : Puts(W, i, t) /\ t # Gone =>
       /\ \A j \in Person \ {i}, r \in Refn : Lines(t, r) => ~Lines(disk[j], r)
       /\ \A j \in Person : \A u : Puts(W, j, u) /\ u # Gone => j = i /\ u = t

RefnsStay == clean => loose \subseteq Refn \X Family /\ RefnsApart /\ FreshPuts(op.writes)

Inv == Typed /\ StillFaithful /\ StillUntouched /\ GhostsLeft /\ RefnsStay

LEMMA CarelessIs == Careless = CarelessOf(op.kind, op.writes)
BY DEF Careless, CarelessOf

LEMMA CarriesIsLines == \A k \in Key : \A v : Carries(k, v) <=> Lines(disk[k], v)
BY ContainsIsIn DEF Carries, Used, Lines

(* Between commands, entries are in step or loose. *)
LEMMA RestIsInStep ==
    ASSUME Inv, AtRest
    PROVE  \A v \in Value, k \in Key : <<v, k>> \in loose \/ (<<v, k>> \in index <=> Lines(disk[k], v))
<1>1. op.writes = << >> /\ op.done = 0 /\ op.kind = "idle"
  BY DEF AtRest, Idle
<1>2. Careless = {}
  BY <1>1 DEF Careless
<1>3. \A m \in (op.done + 1)..Len(op.writes) : FALSE
  BY <1>1
<1>4. \A side, v, k : /\ Leaves(op.writes, op.done + 1, side, v, k)
                      /\ ~Gains(op.writes, op.done + 1, side, v, k)
  BY <1>3 DEF Leaves, Gains
<1>5. \A v \in Value, k \in Key :
         <<v, k>> \in loose \cup Careless \/ WillAgree(op.writes, op.done + 1, v, k)
  BY DEF Inv, StillFaithful
<1> QED  BY <1>2, <1>4, <1>5 DEF WillAgree

(***************************************************************************)
(* A command begins.                                                       *)
(***************************************************************************)
LEMMA BeginKeeps ==
    ASSUME Inv, NEW kind, NEW W, Begin(kind, W), kind # "idle",
           IF kind = "verify" THEN W \in Seq(GhostWrite) ELSE W \in Seq(Write),
           Faithful(W, CarelessOf(kind, W)), Untouched(W, CarelessOf(kind, W)),
           kind = "verify" => Cardinality(Ghosts) = Len(W),
           clean' \in BOOLEAN, clean' => clean /\ FreshPuts(W)
    PROVE  Inv'
<1>1. /\ AtRest /\ W # << >>
      /\ op' = [kind |-> kind, writes |-> W, done |-> 0]
      /\ UNCHANGED <<disk, index, loose>>
      /\ later # 0 /\ later' = IF later > MaxLater THEN later ELSE later - 1
  BY DEF Begin
<1>2. op'.kind = kind /\ op'.writes = W /\ op'.done = 0
  BY <1>1
<1>3. Careless' = CarelessOf(kind, W)
  BY <1>2 DEF Careless, CarelessOf
<1>4. Len(W) \in Nat /\ Len(W) > 0
  <2>1. \E S : W \in Seq(S)
    OBVIOUS
  <2> QED  BY <1>1, <2>1
<1>5. Typed'
  <2>1. later' \in 0..(MaxLater + 1)
    <3>1. MaxLater \in Nat
      BY RecordIndexAssumption
    <3>2. later \in 0..(MaxLater + 1)
      BY DEF Inv, Typed
    <3> QED  BY <1>1, <3>1, <3>2
  <2>2. /\ disk' = disk /\ index' = index /\ loose' = loose
        /\ disk \in [Key -> Text] /\ Stored /\ index \subseteq Good /\ IsFiniteSet(index) /\ loose \subseteq Entry
    BY <1>1 DEF Inv, Typed
  <2>3. Stored'
    BY <2>2 DEF Stored
  <2>4. op'.done < Len(op'.writes)
    BY <1>2, <1>4
  <2>5. op' = [kind |-> op'.kind, writes |-> op'.writes, done |-> op'.done]
    BY <1>1, <1>2
  <2> QED  BY <1>2, <2>1, <2>2, <2>3, <2>4, <2>5 DEF Typed
<1>6. StillFaithful'
  <2>1. SUFFICES ASSUME NEW v \in Value, NEW k \in Key, <<v, k>> \notin loose \cup CarelessOf(kind, W)
                 PROVE  WillAgree(W, 1, v, k)
    <3>1. StillFaithful' <=> \A v \in Value, k \in Key :
             <<v, k>> \in loose \cup CarelessOf(kind, W) \/ WillAgree(W, 0 + 1, v, k)
      BY <1>1, <1>2, <1>3 DEF StillFaithful, WillAgree
    <3> QED  BY <3>1
  <2>2. <<v, k>> \in index <=> Lines(disk[k], v)
    BY <1>1, <2>1, RestIsInStep
  <2> QED  BY <2>1, <2>2 DEF Faithful, WillAgree
<1>7. StillUntouched'
  BY <1>1, <1>2, <1>3 DEF StillUntouched, Untouched
<1>8. GhostsLeft'
  <2>1. Ghosts' = Ghosts
    BY <1>1 DEF Ghosts, GhostName, GhostRefn, Carries, Used
  <2> QED  BY <1>2, <1>4, <2>1 DEF GhostsLeft
<1>9. RefnsStay'
  <2>1. SUFFICES ASSUME clean' PROVE (loose \subseteq Refn \X Family)' /\ RefnsApart' /\ FreshPuts(op.writes)'
    BY DEF RefnsStay
  <2>2. clean /\ FreshPuts(W) /\ loose \subseteq Refn \X Family /\ RefnsApart
    BY <2>1 DEF Inv, RefnsStay
  <2>3. (loose \subseteq Refn \X Family)' /\ RefnsApart'
    BY <1>1, <2>2 DEF RefnsApart
  <2>4. FreshPuts(op.writes)'
    BY <1>1, <1>2, <2>2 DEF FreshPuts
  <2> QED  BY <2>3, <2>4
<1> QED  BY <1>5, <1>6, <1>7, <1>8, <1>9 DEF Inv

(***************************************************************************)
(* The commands.                                                           *)
(***************************************************************************)
LEMMA RefnFreeIsFresh ==
    ASSUME Inv, AtRest, clean, NEW i \in Person, NEW text \in TextsOf(i), NEW known \in SUBSET {i},
           RefnFree(text, known)
    PROVE  \A j \in Person \ {i}, r \in Refn : Lines(text, r) => ~Lines(disk[j], r)
<1> SUFFICES ASSUME NEW j \in Person \ {i}, NEW r \in Refn, Lines(text, r), Lines(disk[j], r)
             PROVE  FALSE
  OBVIOUS
<1>1. i \in Key /\ j \in Key /\ r \in Value /\ j \notin Family
  BY RecordIndexAssumption DEF Key, Value
<1>2. r \in In(text.REFN)
  <2>1. In(text.NAME) \subseteq NamesOf(i) /\ NamesOf(i) \cap Refn = {}
    BY <1>1, TextIs
  <2> QED  BY <2>1 DEF Lines
<1>3. <<r, j>> \in index
  <2>1. <<r, j>> \notin loose
    BY <1>1 DEF Inv, RefnsStay
  <2> QED  BY <1>1, <2>1, RestIsInStep
<1>4. PICK n \in 1..Len(text.REFN) : text.REFN[n] = r
  BY <1>2 DEF In
<1>5. { p \in Person : <<text.REFN[n], p>> \in index } \subseteq known
  BY <1>4 DEF RefnFree
<1>6. j \in known
  BY <1>3, <1>4, <1>5
<1> QED  BY <1>6

(* The commands that store a person, or none. *)
LEMMA OnePutIsFresh ==
    ASSUME NEW W, NEW i \in Person, NEW text,
           \A j \in Person : \A u : Puts(W, j, u) /\ u # Gone => j = i /\ u = text,
           \A j \in Person \ {i}, r \in Refn : Lines(text, r) => ~Lines(disk[j], r)
    PROVE  FreshPuts(W)
BY DEF FreshPuts

LEMMA NoPutIsFresh ==
    ASSUME NEW W, \A j \in Person : \A u : Puts(W, j, u) => u = Gone
    PROVE  FreshPuts(W)
BY DEF FreshPuts

LEMMA KeysOf ==
    ASSUME NEW W \in Seq(Write), NEW k, NEW t, Puts(W, k, t)
    PROVE  k \in { w.key : w \in ToSet(W) }
<1>1. PICK m \in 1..Len(W) : W[m].key = k
  BY DEF Puts
<1>2. W[m] \in ToSet(W)
  BY DEF ToSet
<1> QED  BY <1>1, <1>2

LEMMA KeyKinds ==
    /\ \A k \in Person : k \in Key /\ k \notin Family /\ k \notin Other
    /\ \A k \in Family : k \in Key /\ k \notin Person
    /\ \A k \in Other : k \in Key /\ k \notin Person /\ k \notin Family
BY RecordIndexAssumption DEF Key

LEMMA NewKeeps ==
    ASSUME Inv, NEW k \in Unused, NEW text \in TextsOf(k),
           \/ k \in Person /\ AddIndi(k, text)
           \/ k \notin Person /\ AddRecord(k, text)
    PROVE  Inv'
<1> DEFINE W == NewRecord(k, text)
<1>1. k \in Key /\ disk[k] = Gone
  BY DEF Unused, Used
<1>2. Planned(W, {}) /\ \A j, t : Puts(W, j, t) <=> j = k /\ t = text
  BY <1>1, NewPlanned
<1>3. Begin("add", W) /\ clean' = clean
  BY DEF AddIndi, AddRecord, Keep
<1>4. CarelessOf("add", W) = {}
  BY DEF CarelessOf
<1>5. clean => FreshPuts(W)
  <2>1. CASE k \in Person
    <3>1. RefnFree(text, {})
      BY <2>1 DEF AddIndi
    <3>2. AtRest
      BY <1>3 DEF Begin
    <3>3. clean => \A j \in Person \ {k}, r \in Refn : Lines(text, r) => ~Lines(disk[j], r)
      BY <2>1, <3>1, <3>2, RefnFreeIsFresh
    <3> HIDE DEF W
    <3> QED  BY <1>2, <2>1, <3>3, OnePutIsFresh
  <2>2. CASE k \notin Person
    <3> HIDE DEF W
    <3> QED  BY <1>2, <2>2, NoPutIsFresh
  <2> QED  BY <2>1, <2>2
<1>6. clean \in BOOLEAN
  BY DEF Inv, Typed
<1> HIDE DEF W
<1> QED  BY <1>2, <1>3, <1>4, <1>5, <1>6, BeginKeeps DEF Planned

LEMMA RestoreKeeps ==
    ASSUME Inv, NEW k \in Unused, NEW text \in TextsOf(k), RestoreRecord(k, text)
    PROVE  Inv'
<1> DEFINE W == IF k \in Person THEN NewRecord(k, text) ELSE Store(k, text) \o Add(text.REFN, k)
<1>1. k \in Key /\ disk[k] = Gone
  BY DEF Unused, Used
<1>2. Planned(W, {})
  BY <1>1, NewPlanned, RestorePlanned
<1>3. Begin("import", W) /\ clean' = FALSE
  BY DEF RestoreRecord
<1>4. CarelessOf("import", W) = {}
  BY DEF CarelessOf
<1> HIDE DEF W
<1> QED  BY <1>2, <1>3, <1>4, BeginKeeps DEF Planned

LEMMA UsedIs == Inv => \A k \in Used : k \in Key /\ disk[k] \in TextsOf(k)
BY DEF Inv, Typed, Stored, Used

LEMMA ReplaceKeeps ==
    ASSUME Inv, NEW k \in Used, NEW text \in TextsOf(k),
           \/ k \in Person /\ ReplaceIndi(k, text)
           \/ k \notin Person /\ ReplaceRecord(k, text)
    PROVE  Inv'
<1> DEFINE W == Replace(k, text)
<1>1. k \in Key /\ disk[k] \in TextsOf(k)
  BY UsedIs
<1>2. Planned(W, {}) /\ \A j, t : Puts(W, j, t) <=> j = k /\ t = text
  BY <1>1, ReplacePlanned
<1>3. Begin("edit", W) /\ clean' = clean
  BY DEF ReplaceIndi, ReplaceRecord, Keep
<1>4. CarelessOf("edit", W) = {}
  BY DEF CarelessOf
<1>5. clean => FreshPuts(W)
  <2>1. CASE k \in Person
    <3>1. RefnFree(text, {k})
      BY <2>1 DEF ReplaceIndi
    <3>2. AtRest
      BY <1>3 DEF Begin
    <3>3. clean => \A j \in Person \ {k}, r \in Refn : Lines(text, r) => ~Lines(disk[j], r)
      BY <2>1, <3>1, <3>2, RefnFreeIsFresh
    <3> HIDE DEF W
    <3> QED  BY <1>2, <2>1, <3>3, OnePutIsFresh
  <2>2. CASE k \notin Person
    <3> HIDE DEF W
    <3> QED  BY <1>2, <2>2, NoPutIsFresh
  <2> QED  BY <2>1, <2>2
<1>6. clean \in BOOLEAN
  BY DEF Inv, Typed
<1> HIDE DEF W
<1> QED  BY <1>2, <1>3, <1>4, <1>5, <1>6, BeginKeeps DEF Planned

LEMMA RemoveIndiKeeps ==
    ASSUME Inv, NEW i \in Used, RemoveIndi(i)
    PROVE  Inv'
<1> DEFINE W == DropAll(i)
<1>1. i \in Key /\ disk[i] \in TextsOf(i)
  BY UsedIs
<1>2. Planned(W, {}) /\ \A j, t : Puts(W, j, t) <=> j = i /\ t = Gone
  <2>1. Planned(W, {})
    BY <1>1, DropAllPlanned
  <2>2. \A j, t : Puts(W, j, t) <=> j = i /\ t = Gone
    BY <1>1, DropAllDoes
  <2> QED  BY <2>1, <2>2
<1>3. Begin("remove", W) /\ clean' = clean
  BY DEF RemoveIndi, Keep
<1> HIDE DEF W
<1>4. Planned(W, CarelessOf("remove", W))
  BY <1>2, PlannedMore
<1>5. FreshPuts(W)
  BY <1>2, NoPutIsFresh
<1>6. clean \in BOOLEAN
  BY DEF Inv, Typed
<1> QED  BY <1>3, <1>4, <1>5, <1>6, BeginKeeps DEF Planned

LEMMA RemoveRecordKeeps ==
    ASSUME Inv, NEW k \in Used \cap Other, RemoveRecord(k)
    PROVE  Inv'
<1> DEFINE s == disk[k].REFN
           W == Drop(s, k) \o Delete(k)
<1>1. k \in Key /\ disk[k] \in TextsOf(k) /\ k \notin Person
  BY UsedIs, KeyKinds
<1>2. s \in Seq(Refn)
  BY <1>1, TextIs
<1>3. Planned(W, {}) /\ \A j, t : Puts(W, j, t) <=> j = k /\ t = Gone
  BY <1>1, <1>2, RemovePlanned
<1>4. Begin("remove", W) /\ clean' = clean
  BY DEF RemoveRecord, Keep
<1> HIDE DEF W
<1>5. Planned(W, CarelessOf("remove", W))
  BY <1>3, PlannedMore
<1>6. FreshPuts(W)
  BY <1>3, NoPutIsFresh
<1>7. clean \in BOOLEAN
  BY DEF Inv, Typed
<1> QED  BY <1>4, <1>5, <1>6, <1>7, BeginKeeps DEF Planned

LEMMA RemoveEmptyFamKeeps ==
    ASSUME Inv, NEW f \in Used \cap Family, RemoveEmptyFam(f)
    PROVE  Inv'
<1> DEFINE refns == disk[f].REFN
<1>1. f \in Key /\ disk[f] \in TextsOf(f) /\ f \notin Person
  BY UsedIs, KeyKinds
<1>2. refns \in Seq(Refn) /\ In(refns) \subseteq Refn
  BY <1>1, TextIs
<1>3. PICK found \in Picked(Len(refns)) :
         /\ Begin("remove", Drop([n \in DOMAIN found |-> refns[found[n]]], f) \o Delete(f))
         /\ clean' = clean
  BY DEF RemoveEmptyFam, Keep
<1> DEFINE s == [n \in DOMAIN found |-> refns[found[n]]]
           W == Drop(s, f) \o Delete(f)
           careless == Refn \X {f}
<1>4. s \in Seq(Refn)
  <2>1. PICK m \in 0..Len(refns) : found \in [1..m -> 1..Len(refns)]
    BY DEF Picked, Lists
  <2>2. m \in Nat
    BY <1>2, <2>1
  <2>3. \A n \in 1..m : refns[found[n]] \in Refn
    BY <1>2, <2>1
  <2>4. s \in [1..m -> Refn]
    BY <2>1, <2>3
  <2> HIDE DEF s
  <2> QED  BY <2>2, <2>4
<1>5. In(s) \subseteq Refn
  BY <1>4 DEF In
<1> HIDE DEF s
<1>6. Planned(W, careless) /\ \A j, t : Puts(W, j, t) <=> j = f /\ t = Gone
  <2>1. \A v \in In(disk[f].REFN) : <<v, f>> \in careless
    BY <1>2
  <2>2. \A v \in In(s) : <<v, f>> \in careless
    BY <1>5
  <2> HIDE DEF careless
  <2> QED  BY <1>1, <1>4, <2>1, <2>2, RemovePlanned
<1>7. Begin("remove", W)
  BY <1>3 DEF s
<1> HIDE DEF W
<1>8. careless \subseteq CarelessOf("remove", W)
  <2>1. f \in { w.key : w \in ToSet(W) }
    BY <1>6, KeysOf DEF Planned
  <2> QED  BY <2>1 DEF CarelessOf
<1> HIDE DEF careless
<1>9. Planned(W, CarelessOf("remove", W))
  BY <1>6, <1>8, PlannedMore
<1>10. FreshPuts(W)
  BY <1>6, NoPutIsFresh
<1>11. clean \in BOOLEAN
  BY DEF Inv, Typed
<1> QED  BY <1>3, <1>7, <1>9, <1>10, <1>11, BeginKeeps DEF Planned

LEMMA MergeIndisKeeps ==
    ASSUME Inv, NEW i1 \in Used \cap Person, NEW i2 \in Used \cap Person, i1 # i2,
           NEW text \in TextsOf(i2), MergeIndis(i1, i2, text)
    PROVE  Inv'
<1> DEFINE W == Reindex(disk[i2], text, i2) \o Store(i2, text) \o DropAll(i1)
<1>1. /\ i1 \in Key /\ disk[i1] \in TextsOf(i1)
      /\ i2 \in Key /\ disk[i2] \in TextsOf(i2)
  BY UsedIs
<1>2. /\ Planned(W, {})
      /\ \A k, t : Puts(W, k, t) <=> (k = i2 /\ t = text) \/ (k = i1 /\ t = Gone)
  BY <1>1, MergePlanned
<1>3. Begin("merge", W) /\ clean' = clean /\ RefnFree(text, {i2})
  BY DEF MergeIndis, Keep
<1>4. CarelessOf("merge", W) = {}
  BY DEF CarelessOf
<1> HIDE DEF W
<1>5. clean => FreshPuts(W)
  <2>1. AtRest
    BY <1>3 DEF Begin
  <2>2. clean => \A j \in Person \ {i2}, r \in Refn : Lines(text, r) => ~Lines(disk[j], r)
    BY <1>3, <2>1, RefnFreeIsFresh
  <2>3. \A j \in Person : \A u : Puts(W, j, u) /\ u # Gone => j = i2 /\ u = text
    BY <1>2
  <2> QED  BY <2>2, <2>3, OnePutIsFresh
<1>6. clean \in BOOLEAN
  BY DEF Inv, Typed
<1> QED  BY <1>2, <1>3, <1>4, <1>5, <1>6, BeginKeeps DEF Planned

LEMMA MergeFamsKeeps ==
    ASSUME Inv, NEW f1 \in Used \cap Family, NEW f2 \in Used \cap Family, f1 # f2,
           NEW text \in TextsOf(f2), MergeFams(f1, f2, text)
    PROVE  Inv'
<1> DEFINE W == Delete(f1) \o Store(f2, text)
           careless == CarelessOf("mergeFams", W)
<1>1. /\ f1 \in Key /\ disk[f1] \in TextsOf(f1) /\ f1 \notin Person
      /\ f2 \in Key /\ disk[f2] \in TextsOf(f2) /\ f2 \notin Person
  BY UsedIs, KeyKinds
<1>2. /\ Delete(f1) \in Seq(Write) /\ Store(f2, text) \in Seq(Write)
      /\ Puts(Delete(f1), f1, Gone) /\ Puts(Store(f2, text), f2, text)
  BY <1>1, StoreDoes DEF Delete
<1>3. Refn \X {f1, f2} \subseteq careless
  <2>1. W \in Seq(Write)
    BY <1>2, Places
  <2>2. Puts(W, f1, Gone) /\ Puts(W, f2, text)
    BY <1>2, PutsJoined
  <2> HIDE DEF W
  <2>3. {f1, f2} \subseteq { w.key : w \in ToSet(W) }
    BY <2>1, <2>2, KeysOf
  <2>4. careless = Refn \X (Family \cap { w.key : w \in ToSet(W) })
    BY DEF CarelessOf
  <2> QED  BY <2>3, <2>4
<1> HIDE DEF careless
<1>4. Planned(W, careless) /\ \A k, t : Puts(W, k, t) => k \notin Person
  BY <1>1, <1>3, MergeFamsPlanned
<1>5. Begin("mergeFams", W) /\ clean' = clean
  BY DEF MergeFams, Keep
<1> HIDE DEF W
<1>6. FreshPuts(W)
  BY <1>4, NoPutIsFresh
<1>7. clean \in BOOLEAN
  BY DEF Inv, Typed
<1> QED  BY <1>4, <1>5, <1>6, <1>7, BeginKeeps DEF Planned, careless

LEMMA GhostsFinite == Inv => IsFiniteSet(Ghosts) /\ Cardinality(Ghosts) \in Nat
<1> SUFFICES ASSUME Inv PROVE IsFiniteSet(Ghosts)
  BY FS_CardinalityType
<1>1. Ghosts \subseteq index
  BY DEF Ghosts
<1> QED  BY <1>1, FS_Subset DEF Inv, Typed

LEMMA CheckGhostsKeeps ==
    ASSUME Inv, CheckGhosts
    PROVE  Inv'
<1> DEFINE n == Cardinality(Ghosts)
           W == [m \in 1..n |-> [what |-> "ghost"]]
<1>1. n \in Nat
  BY GhostsFinite
<1>2. Begin("verify", W) /\ clean' = clean
  BY DEF CheckGhosts, Keep
<1> HIDE DEF n
<1>3. /\ W \in Seq(GhostWrite) /\ Len(W) = n /\ \A k, t : ~Puts(W, k, t)
      /\ Faithful(W, {}) /\ Untouched(W, {})
  BY <1>1, GhostsPlanned
<1> HIDE DEF W
<1>4. CarelessOf("verify", W) = {}
  BY DEF CarelessOf
<1>5. FreshPuts(W)
  BY <1>3, NoPutIsFresh
<1>6. clean \in BOOLEAN
  BY DEF Inv, Typed
<1> QED  BY <1>2, <1>3, <1>4, <1>5, <1>6, BeginKeeps DEF n

LEMMA CommandKeeps ==
    ASSUME Inv, Command
    PROVE  Inv'
<1>0. \A k : Texts(k) \subseteq TextsOf(k)
  BY DEF Texts
<1>1. CASE \E k \in Unused : \E text \in Texts(k) :
              \/ k \in Person /\ AddIndi(k, text)
              \/ k \notin Person /\ AddRecord(k, text)
              \/ RestoreRecord(k, text)
  <2>0. PICK k \in Unused : \E text \in Texts(k) :
              \/ k \in Person /\ AddIndi(k, text)
              \/ k \notin Person /\ AddRecord(k, text)
              \/ RestoreRecord(k, text)
    BY <1>1
  <2>1. PICK text \in Texts(k) :
              \/ k \in Person /\ AddIndi(k, text)
              \/ k \notin Person /\ AddRecord(k, text)
              \/ RestoreRecord(k, text)
    BY <2>0
  <2>2. text \in TextsOf(k)
    BY <1>0
  <2>3. CASE k \in Person /\ AddIndi(k, text)
    BY <2>2, <2>3, NewKeeps
  <2>4. CASE k \notin Person /\ AddRecord(k, text)
    BY <2>2, <2>4, NewKeeps
  <2>5. CASE RestoreRecord(k, text)
    BY <2>2, <2>5, RestoreKeeps
  <2> QED  BY <2>1, <2>3, <2>4, <2>5
<1>2. CASE \E k \in Used : \E text \in Texts(k) :
              \/ k \in Person /\ ReplaceIndi(k, text)
              \/ k \notin Person /\ ReplaceRecord(k, text)
  BY <1>0, <1>2, ReplaceKeeps
<1>3. CASE \E i \in Used \cap Person : RemoveIndi(i)
  BY <1>3, RemoveIndiKeeps
<1>4. CASE \E k \in Used \cap Other : RemoveRecord(k)
  BY <1>4, RemoveRecordKeeps
<1>5. CASE \E f \in Used \cap Family : RemoveEmptyFam(f)
  BY <1>5, RemoveEmptyFamKeeps
<1>6. CASE \E i1, i2 \in Used \cap Person :
              i1 # i2 /\ \E text \in Texts(i2) : MergeIndis(i1, i2, text)
  BY <1>0, <1>6, MergeIndisKeeps
<1>7. CASE \E f1, f2 \in Used \cap Family :
              f1 # f2 /\ \E text \in Texts(f2) : MergeFams(f1, f2, text)
  BY <1>0, <1>7, MergeFamsKeeps
<1>8. CASE CheckGhosts
  BY <1>8, CheckGhostsKeeps
<1> QED  BY <1>1, <1>2, <1>3, <1>4, <1>5, <1>6, <1>7, <1>8 DEF Command

(***************************************************************************)
(* The next write.                                                         *)
(***************************************************************************)

(* What WillAgree, Untouched, RefnsApart and FreshPuts say of other records and   *)
(* entries than those there are.                                                 *)
AgreeIn(d, x, W, n, v, k) ==
    Gains(W, n, "index", v, k) \/ (<<v, k>> \in x /\ Leaves(W, n, "index", v, k))
      <=> Gains(W, n, "disk", v, k) \/ (Lines(d[k], v) /\ Leaves(W, n, "disk", v, k))

UntouchedIn(d, W, careless) ==
    \A v \in Value, k \in Key :
       \/ <<v, k>> \in careless
       \/ ~Leaves(W, 1, "index", v, k)
       \/ \A t : Puts(W, k, t) => (Lines(t, v) <=> Lines(d[k], v))

ApartIn(d) == \A i, j \in Person, r \in Refn : Lines(d[i], r) /\ Lines(d[j], r) => i = j

FreshIn(d, W) ==
    \A i \in Person : \A t : Puts(W, i, t) /\ t # Gone =>
       /\ \A j \in Person \ {i}, r \in Refn : Lines(t, r) => ~Lines(d[j], r)
       /\ \A j \in Person : \A u : Puts(W, j, u) /\ u # Gone => j = i /\ u = t

TypedIn(d, x) ==
    /\ d \in [Key -> Text] /\ \A k \in Key : d[k] \in TextsOf(k) \cup {Gone}
    /\ x \subseteq Good /\ IsFiniteSet(x)

(* What holds after the n-th write. *)
HoldsIn(d, x, n) ==
    /\ TypedIn(d, x)
    /\ \A v \in Value, k \in Key :
          <<v, k>> \in loose \cup Careless \/ AgreeIn(d, x, op.writes, n + 1, v, k)
    /\ UntouchedIn(d, op.writes, Careless)
    /\ clean => ApartIn(d) /\ FreshIn(d, op.writes)

LEMMA InvHolds == Inv => HoldsIn(disk, index, op.done)
BY DEF Inv, Typed, Stored, StillFaithful, WillAgree, StillUntouched, Untouched, RefnsStay,
       RefnsApart, FreshPuts, HoldsIn, TypedIn, AgreeIn, UntouchedIn, ApartIn, FreshIn

LEMMA NextWriteIs ==
    ASSUME Inv, op.done < Len(op.writes)
    PROVE  /\ op.done + 1 \in 1..Len(op.writes) /\ Len(op.writes) \in Nat
           /\ op.kind = "verify" => op.writes[op.done + 1] \in GhostWrite
           /\ op.kind # "verify" => op.writes[op.done + 1] \in Write
<1>1. IF op.kind = "verify" THEN op.writes \in Seq(GhostWrite) ELSE op.writes \in Seq(Write)
  BY DEF Inv, Typed
<1>2. op.done \in Nat
  BY DEF Inv, Typed
<1>3. Len(op.writes) \in Nat
  BY <1>1
<1>4. op.done + 1 \in 1..Len(op.writes)
  BY <1>2, <1>3
<1> QED  BY <1>1, <1>3, <1>4

LEMMA GhostIs ==
    ASSUME NEW v, NEW k \in Key, <<v, k>> \in Ghosts
    PROVE  ~Lines(disk[k], v)
<1>1. \/ v \in Name /\ ~Carries(k, v)
      \/ v \in Refn /\ k \notin Used
  BY DEF Ghosts, GhostName, GhostRefn
<1>2. k \notin Used => ~Carries(k, v)
  BY DEF Carries
<1> QED  BY <1>1, <1>2, CarriesIsLines

LEMMA GhostKeeps ==
    ASSUME Inv, op.done < Len(op.writes), op.kind = "verify",
           Perform(op.writes[op.done + 1])
    PROVE  /\ HoldsIn(disk', index', op.done + 1)
           /\ Cardinality(Ghosts') = Cardinality(Ghosts) - 1
<1> DEFINE W == op.writes  n == op.done + 1
<1>1. n \in 1..Len(W) /\ W[n] \in GhostWrite /\ W \in Seq(GhostWrite)
  BY NextWriteIs DEF Inv, Typed
<1>2. W[n].what = "ghost"
  BY <1>1 DEF GhostWrite
<1>3. PICK e \in Ghosts : index' = index \ {e} /\ disk' = disk
  BY <1>2 DEF Perform
<1>4. HoldsIn(disk, index, op.done)
  BY InvHolds
<1>5. \A m \in 1..Len(W) : W[m].what = "ghost"
  <2>1. \A g \in GhostWrite : g.what = "ghost"
    BY DEF GhostWrite
  <2> HIDE DEF W
  <2> QED  BY <1>1, <2>1
<1>6. \A side, v, k : \A m \in 1..Len(W) : ~Decides(W[m], side, v, k)
  BY <1>5 DEF Decides
<1>7. op.done \in Nat /\ Len(W) \in Nat
  BY <1>1 DEF Inv, Typed
<1>8. \A m \in n..Len(W) : m \in 1..Len(W)
  BY <1>7
<1>9. \A m \in (n + 1)..Len(W) : m \in 1..Len(W)
  BY <1>7
<1>10. \A side, v, k : /\ Leaves(W, n, side, v, k) /\ ~Gains(W, n, side, v, k)
                       /\ Leaves(W, n + 1, side, v, k) /\ ~Gains(W, n + 1, side, v, k)
  BY <1>6, <1>8, <1>9 DEF Leaves, Gains, Grants
<1>11. ASSUME NEW v \in Value, NEW k \in Key, <<v, k>> \notin loose \cup Careless
       PROVE  AgreeIn(disk, index \ {e}, W, n + 1, v, k)
  <2>1. AgreeIn(disk, index, W, n, v, k)
    BY <1>4, <1>11 DEF HoldsIn
  <2>2. <<v, k>> \in index <=> Lines(disk[k], v)
    BY <1>10, <2>1 DEF AgreeIn
  <2>3. <<v, k>> = e => ~Lines(disk[k], v)
    BY GhostIs
  <2>4. <<v, k>> \in index \ {e} <=> Lines(disk[k], v)
    BY <2>2, <2>3
  <2> HIDE DEF W, n
  <2> QED  BY <1>10, <2>4 DEF AgreeIn
<1>12. TypedIn(disk, index \ {e})
  <2>1. IsFiniteSet(index) => IsFiniteSet(index \ {e})
    BY FS_Subset
  <2> QED  BY <1>4, <2>1 DEF HoldsIn, TypedIn
<1>13. HoldsIn(disk', index', op.done + 1)
  BY <1>3, <1>4, <1>11, <1>12 DEF HoldsIn
<1>14. Ghosts' = Ghosts \ {e}
  <2>1. \A k, v : Carries(k, v)' <=> Carries(k, v)
    BY <1>3 DEF Carries, Used
  <2>2. Used' = Used
    BY <1>3 DEF Used
  <2> QED  BY <1>3, <2>1, <2>2 DEF Ghosts, GhostName, GhostRefn
<1>15. Cardinality(Ghosts \ {e}) = Cardinality(Ghosts) - 1
  BY GhostsFinite, FS_RemoveElement
<1> QED  BY <1>13, <1>14, <1>15

LEMMA StoreKeeps ==
    ASSUME Inv, op.done < Len(op.writes), op.kind # "verify",
           op.writes[op.done + 1].what = "store", Perform(op.writes[op.done + 1])
    PROVE  HoldsIn(disk', index', op.done + 1)
<1> DEFINE W == op.writes  n == op.done + 1  w == W[n]
           d == [disk EXCEPT ![w.key] = w.value]
<1>1. n \in 1..Len(W) /\ w \in Write /\ W \in Seq(Write)
  BY NextWriteIs DEF Inv, Typed
<1>2. disk' = d /\ index' = index
  BY DEF Perform
<1>3. w \in StoreWrite
  BY <1>1 DEF Write, IndexWrite
<1>4. w.key \in Key /\ w.value \in Text /\ w.value \in TextsOf(w.key) \cup {Gone} /\ w.what = "store"
  BY <1>3 DEF StoreWrite
<1>5. Puts(W, w.key, w.value)
  BY <1>1, <1>4 DEF Puts
<1>6. HoldsIn(disk, index, op.done)
  BY InvHolds
<1>7. \A k \in Key : d[k] = IF k = w.key THEN w.value ELSE disk[k]
  BY <1>4, <1>6 DEF HoldsIn, TypedIn
<1>8. d \in [Key -> Text]
  BY <1>4, <1>6 DEF HoldsIn, TypedIn
<1>9. \A side, v, k : /\ Leaves(W, n, side, v, k)
                           <=> Leaves(W, n + 1, side, v, k) /\ ~Decides(w, side, v, k)
                      /\ Gains(W, n, side, v, k)
                           <=> \/ Gains(W, n + 1, side, v, k)
                               \/ Leaves(W, n + 1, side, v, k) /\ Grants(w, side, v, k)
  BY <1>1, DecidesNext
<1>10. \A v, k : /\ ~Decides(w, "index", v, k) /\ ~Grants(w, "index", v, k)
                 /\ Decides(w, "disk", v, k) <=> k = w.key
                 /\ Grants(w, "disk", v, k) <=> k = w.key /\ Lines(w.value, v)
  BY <1>4 DEF Decides, Grants
<1> HIDE DEF W, n, w, d
<1>11. ASSUME NEW v \in Value, NEW k \in Key, AgreeIn(disk, index, W, n, v, k)
       PROVE  AgreeIn(d, index, W, n + 1, v, k)
  <2>1. CASE k = w.key
    <3>1. Lines(d[k], v) <=> Lines(w.value, v)
      BY <1>7, <2>1
    <3> QED  BY <1>9, <1>10, <1>11, <2>1, <3>1 DEF AgreeIn
  <2>2. CASE k # w.key
    <3>1. d[k] = disk[k]
      BY <1>7, <2>2
    <3> QED  BY <1>9, <1>10, <1>11, <2>2, <3>1 DEF AgreeIn
  <2> QED  BY <2>1, <2>2
<1>12. TypedIn(d, index)
  <2>1. \A k \in Key : d[k] \in TextsOf(k) \cup {Gone}
    BY <1>4, <1>6, <1>7 DEF HoldsIn, TypedIn
  <2> QED  BY <1>6, <1>8, <2>1 DEF HoldsIn, TypedIn
<1>13. UntouchedIn(d, W, Careless)
  <2> SUFFICES ASSUME NEW v \in Value, NEW k \in Key, <<v, k>> \notin Careless,
                      Leaves(W, 1, "index", v, k), NEW t, Puts(W, k, t)
               PROVE  Lines(t, v) <=> Lines(d[k], v)
    BY DEF UntouchedIn
  <2>1. \A u : Puts(W, k, u) => (Lines(u, v) <=> Lines(disk[k], v))
    BY <1>6 DEF HoldsIn, UntouchedIn, W
  <2>2. CASE k = w.key
    BY <1>5, <1>7, <2>1, <2>2
  <2>3. CASE k # w.key
    BY <1>7, <2>1, <2>3
  <2> QED  BY <2>2, <2>3
<1>14. ASSUME clean PROVE ApartIn(d) /\ FreshIn(d, W)
  <2>1. ApartIn(disk) /\ FreshIn(disk, W)
    BY <1>6, <1>14 DEF HoldsIn, W
  <2>2. \A i \in Person : i \in Key
    BY DEF Key
  <2>3. ASSUME NEW i \in Person, NEW t, Puts(W, i, t), t # Gone, NEW j \in Person \ {i},
               NEW r \in Refn, Lines(t, r)
        PROVE  ~Lines(d[j], r)
    <3>1. ~Lines(disk[j], r)
      BY <2>1, <2>3 DEF FreshIn
    <3>2. CASE j = w.key
      <4>1. w.value = Gone
        BY <1>5, <2>1, <2>3, <3>2 DEF FreshIn
      <4> QED  BY <1>7, <2>2, <3>2, <4>1, GoneHasNone
    <3>3. CASE j # w.key
      BY <1>7, <2>2, <3>1, <3>3
    <3> QED  BY <3>2, <3>3
  <2>4. FreshIn(d, W)
    BY <2>1, <2>3 DEF FreshIn
  <2>5. ASSUME NEW i \in Person, NEW j \in Person, NEW r \in Refn, i # j, i = w.key
        PROVE  ~(Lines(d[i], r) /\ Lines(d[j], r))
    <3>1. d[i] = w.value /\ d[j] = disk[j]
      BY <1>7, <2>2, <2>5
    <3>2. Lines(w.value, r) => w.value # Gone
      BY DEF Lines
    <3> QED  BY <1>5, <2>1, <2>5, <3>1, <3>2 DEF FreshIn
  <2>6. ASSUME NEW i \in Person, NEW j \in Person, NEW r \in Refn, i # j,
               Lines(d[i], r), Lines(d[j], r)
        PROVE  FALSE
    <3>1. CASE i = w.key \/ j = w.key
      BY <2>5, <2>6, <3>1
    <3>2. CASE i # w.key /\ j # w.key
      <4>1. d[i] = disk[i] /\ d[j] = disk[j]
        BY <1>7, <2>2, <3>2
      <4> QED  BY <2>1, <2>6, <4>1 DEF ApartIn
    <3> QED  BY <3>1, <3>2
  <2>7. ApartIn(d)
    BY <2>6 DEF ApartIn
  <2> QED  BY <2>4, <2>7
<1>15. HoldsIn(d, index, n)
  <2>1. ASSUME NEW v \in Value, NEW k \in Key, <<v, k>> \notin loose \cup Careless
        PROVE  AgreeIn(d, index, W, n + 1, v, k)
    <3>1. AgreeIn(disk, index, W, n, v, k)
      BY <1>6, <2>1 DEF HoldsIn, W, n
    <3> QED  BY <1>11, <3>1
  <2> QED  BY <1>12, <1>13, <1>14, <2>1 DEF HoldsIn, W
<1> QED  BY <1>2, <1>15 DEF n

LEMMA IndexKeeps ==
    ASSUME Inv, op.done < Len(op.writes), op.kind # "verify",
           op.writes[op.done + 1].what \in {"add", "drop"}, Perform(op.writes[op.done + 1])
    PROVE  HoldsIn(disk', index', op.done + 1)
<1> DEFINE W == op.writes  n == op.done + 1  w == W[n]
           x == IF w.what = "add" THEN index \cup {<<w.value, w.key>>}
                ELSE index \ {<<w.value, w.key>>}
<1>1. n \in 1..Len(W) /\ w \in Write /\ W \in Seq(Write)
  BY NextWriteIs DEF Inv, Typed
<1>2. disk' = disk /\ index' = x
  BY DEF Perform
<1>3. w \in IndexWrite
  BY <1>1 DEF Write, StoreWrite
<1>4. <<w.value, w.key>> \in Good /\ w.what \in {"add", "drop"}
  BY <1>3 DEF IndexWrite
<1>5. HoldsIn(disk, index, op.done)
  BY InvHolds
<1>6. \A side, v, k : /\ Leaves(W, n, side, v, k)
                           <=> Leaves(W, n + 1, side, v, k) /\ ~Decides(w, side, v, k)
                      /\ Gains(W, n, side, v, k)
                           <=> \/ Gains(W, n + 1, side, v, k)
                               \/ Leaves(W, n + 1, side, v, k) /\ Grants(w, side, v, k)
  BY <1>1, DecidesNext
<1>7. \A v, k : /\ ~Decides(w, "disk", v, k) /\ ~Grants(w, "disk", v, k)
                /\ Decides(w, "index", v, k) <=> v = w.value /\ k = w.key
                /\ Grants(w, "index", v, k) <=> w.what = "add" /\ v = w.value /\ k = w.key
  BY <1>4 DEF Decides, Grants
<1>8. \A v, k : <<v, k>> \in x
         <=> IF v = w.value /\ k = w.key THEN w.what = "add" ELSE <<v, k>> \in index
  OBVIOUS
<1>9. TypedIn(disk, x)
  <2>1. IsFiniteSet(index) /\ index \subseteq Good
    BY <1>5 DEF HoldsIn, TypedIn
  <2>2. IsFiniteSet(x)
    <3>1. IsFiniteSet(index \cup {<<w.value, w.key>>})
      BY <2>1, FS_AddElement
    <3>2. IsFiniteSet(index \ {<<w.value, w.key>>})
      BY <2>1, FS_Subset
    <3> QED  BY <3>1, <3>2
  <2>3. x \subseteq Good
    BY <1>4, <2>1
  <2> HIDE DEF x
  <2> QED  BY <1>5, <2>2, <2>3 DEF HoldsIn, TypedIn
<1> HIDE DEF W, n, w, x
<1>10. ASSUME NEW v \in Value, NEW k \in Key, AgreeIn(disk, index, W, n, v, k)
       PROVE  AgreeIn(disk, x, W, n + 1, v, k)
  <2>1. CASE v = w.value /\ k = w.key
    <3>1. CASE w.what = "add"
      BY <1>6, <1>7, <1>8, <1>10, <2>1, <3>1 DEF AgreeIn
    <3>2. CASE w.what # "add"
      BY <1>6, <1>7, <1>8, <1>10, <2>1, <3>2 DEF AgreeIn
    <3> QED  BY <3>1, <3>2
  <2>2. CASE ~(v = w.value /\ k = w.key)
    BY <1>6, <1>7, <1>8, <1>10, <2>2 DEF AgreeIn
  <2> QED  BY <2>1, <2>2
<1>11. HoldsIn(disk, x, n)
  <2>1. ASSUME NEW v \in Value, NEW k \in Key, <<v, k>> \notin loose \cup Careless
        PROVE  AgreeIn(disk, x, W, n + 1, v, k)
    <3>1. AgreeIn(disk, index, W, n, v, k)
      BY <1>5, <2>1 DEF HoldsIn, W, n
    <3> QED  BY <1>10, <3>1
  <2> QED  BY <1>5, <1>9, <2>1 DEF HoldsIn, W
<1> QED  BY <1>2, <1>11 DEF n

LEMMA WriteHolds ==
    ASSUME Inv, WriteNext
    PROVE  /\ HoldsIn(disk', index', op.done + 1)
           /\ op.kind = "verify" => Cardinality(Ghosts') = Cardinality(Ghosts) - 1
<1> DEFINE w == op.writes[op.done + 1]
<1>1. op.done < Len(op.writes) /\ Perform(w)
  BY DEF WriteNext
<1>2. CASE op.kind = "verify"
  BY <1>1, <1>2, GhostKeeps
<1>3. CASE op.kind # "verify"
  <2>1. w \in Write
    BY <1>1, <1>3, NextWriteIs
  <2>2. w.what \in {"store", "add", "drop"}
    BY <2>1 DEF Write, IndexWrite, StoreWrite
  <2> QED  BY <1>1, <1>3, <2>2, StoreKeeps, IndexKeeps
<1> QED  BY <1>2, <1>3

(***************************************************************************)
(* A command ends.                                                         *)
(***************************************************************************)
InStepIn(d, x, v, k) == <<v, k>> \in x <=> Lines(d[k], v)

LEMMA SettleKeeps ==
    ASSUME Inv, NEW entries \in SUBSET Entry, Settle(entries), TypedIn(disk', index'),
           \A v \in Value, k \in Key :
              <<v, k>> \in loose \cup entries \/ InStepIn(disk', index', v, k),
           clean' \in BOOLEAN, later' \in 0..(MaxLater + 1),
           clean' => ApartIn(disk') /\ loose \cup entries \subseteq Refn \X Family
    PROVE  Inv'
<1>1. op' = Idle /\ loose' = {e \in loose \cup entries : ~InStep(e)'}
  BY DEF Settle
<1>2. op'.kind = "idle" /\ op'.writes = << >> /\ op'.done = 0
  BY <1>1 DEF Idle
<1>3. Len(op'.writes) = 0 /\ op'.writes \in Seq(Write)
  BY <1>2
<1>4. Careless' = {}
  BY <1>2 DEF Careless
<1>5. \A v \in Value, k \in Key : InStep(<<v, k>>)' <=> InStepIn(disk', index', v, k)
  BY ContainsIsIn DEF InStep, InStepIn, Carries, Used, Lines
<1>6. loose' \subseteq loose \cup entries
  BY <1>1
<1>7. Typed'
  <2>1. Stored'
    BY DEF TypedIn, Stored
  <2>2. loose' \subseteq Entry
    BY <1>6 DEF Inv, Typed
  <2>3. op' = [kind |-> op'.kind, writes |-> op'.writes, done |-> op'.done]
    BY <1>1, <1>2 DEF Idle
  <2>4. AtRest'
    BY <1>1 DEF AtRest, Idle
  <2> QED  BY <1>2, <1>3, <2>1, <2>2, <2>3, <2>4 DEF Typed, TypedIn
<1>8. \A m \in (op'.done + 1)..Len(op'.writes) : FALSE
  BY <1>2, <1>3
<1>9. \A side, v, k : /\ Leaves(op'.writes, op'.done + 1, side, v, k)
                      /\ ~Gains(op'.writes, op'.done + 1, side, v, k)
  BY <1>8 DEF Leaves, Gains
<1>10. StillFaithful'
  <2> SUFFICES ASSUME NEW v \in Value, NEW k \in Key, <<v, k>> \notin loose'
               PROVE  InStepIn(disk', index', v, k)
    BY <1>4, <1>9 DEF StillFaithful, WillAgree, InStepIn
  <2>1. CASE <<v, k>> \in loose \cup entries
    BY <1>1, <1>5, <2>1
  <2>2. CASE <<v, k>> \notin loose \cup entries
    BY <2>2
  <2> QED  BY <2>1, <2>2
<1>11. \A k, t : ~Puts(op'.writes, k, t)
  <2>1. \A m \in 1..Len(op'.writes) : FALSE
    BY <1>3
  <2> QED  BY <2>1 DEF Puts
<1>12. StillUntouched'
  BY <1>11 DEF StillUntouched, Untouched
<1>13. GhostsLeft'
  BY <1>2 DEF GhostsLeft
<1>14. RefnsStay'
  BY <1>6, <1>11 DEF RefnsStay, RefnsApart, ApartIn, FreshPuts
<1> QED  BY <1>7, <1>10, <1>12, <1>13, <1>14 DEF Inv

LEMMA CarelessFits == Careless \subseteq Entry /\ Careless \subseteq Refn \X Family
BY DEF Careless, Entry, Value, Key

LEMMA WriteNextKeeps ==
    ASSUME Inv, WriteNext
    PROVE  Inv'
<1>1. HoldsIn(disk', index', op.done + 1)
  BY WriteHolds
<1>2. op.done < Len(op.writes) /\ UNCHANGED <<clean, later>>
  BY DEF WriteNext
<1>3. Len(op.writes) \in Nat /\ op.done \in Nat /\ \E S : op.writes \in Seq(S)
  BY <1>2, NextWriteIs DEF Inv, Typed
<1>4. clean' \in BOOLEAN /\ later' \in 0..(MaxLater + 1)
  BY <1>2 DEF Inv, Typed
<1>5. clean => loose \subseteq Refn \X Family
  BY DEF Inv, RefnsStay
<1>6. CASE op.done + 1 = Len(op.writes)
  <2>1. Settle(Careless)
    BY <1>6 DEF WriteNext
  <2>2. \A side, v, k : /\ Leaves(op.writes, op.done + 1 + 1, side, v, k)
                        /\ ~Gains(op.writes, op.done + 1 + 1, side, v, k)
    BY <1>3, <1>6, NoneLeft
  <2>3. \A v \in Value, k \in Key :
           <<v, k>> \in loose \cup Careless \/ InStepIn(disk', index', v, k)
    BY <1>1, <2>2 DEF HoldsIn, AgreeIn, InStepIn
  <2>4. TypedIn(disk', index')
    BY <1>1 DEF HoldsIn
  <2>5. clean' => ApartIn(disk') /\ loose \cup Careless \subseteq Refn \X Family
    BY <1>1, <1>2, <1>5, CarelessFits DEF HoldsIn
  <2>6. Careless \in SUBSET Entry
    BY CarelessFits
  <2> QED  BY <1>4, <2>1, <2>3, <2>4, <2>5, <2>6, SettleKeeps
<1>7. CASE op.done + 1 # Len(op.writes)
  <2>1. op' = [op EXCEPT !.done = @ + 1] /\ loose' = loose
    BY <1>7 DEF WriteNext
  <2>2. op = [kind |-> op.kind, writes |-> op.writes, done |-> op.done]
    BY DEF Inv, Typed
  <2>3. op'.kind = op.kind /\ op'.writes = op.writes /\ op'.done = op.done + 1
        /\ op' = [kind |-> op'.kind, writes |-> op'.writes, done |-> op'.done]
    BY <2>1, <2>2
  <2>4. op'.done \in Nat /\ op'.done < Len(op'.writes)
    BY <1>2, <1>3, <1>7, <2>3
  <2>5. Careless' = Careless
    BY <2>3 DEF Careless
  <2>6. Typed'
    <3>1. TypedIn(disk', index')
      BY <1>1 DEF HoldsIn
    <3>2. Stored'
      BY <3>1 DEF TypedIn, Stored
    <3>3. IF op'.kind = "verify" THEN op'.writes \in Seq(GhostWrite) ELSE op'.writes \in Seq(Write)
      BY <2>3 DEF Inv, Typed
    <3>4. loose' \subseteq Entry
      BY <2>1 DEF Inv, Typed
    <3> QED  BY <1>4, <2>3, <2>4, <3>1, <3>2, <3>3, <3>4 DEF Typed, TypedIn
  <2>7. StillFaithful'
    BY <1>1, <2>1, <2>3, <2>5 DEF HoldsIn, StillFaithful, WillAgree, AgreeIn
  <2>8. StillUntouched'
    BY <1>1, <2>3, <2>5 DEF HoldsIn, StillUntouched, Untouched, UntouchedIn
  <2>9. GhostsLeft'
    <3>1. SUFFICES ASSUME op.kind = "verify" PROVE Cardinality(Ghosts') = Len(op.writes) - (op.done + 1)
      BY <2>3 DEF GhostsLeft
    <3>2. Cardinality(Ghosts) = Len(op.writes) - op.done
      BY <3>1 DEF Inv, GhostsLeft
    <3>3. Cardinality(Ghosts') = Cardinality(Ghosts) - 1
      BY <3>1, WriteHolds
    <3> QED  BY <1>3, <3>2, <3>3
  <2>10. RefnsStay'
    BY <1>1, <1>2, <1>5, <2>1, <2>3
       DEF HoldsIn, RefnsStay, RefnsApart, ApartIn, FreshPuts, FreshIn
  <2> QED  BY <2>6, <2>7, <2>8, <2>9, <2>10 DEF Inv
<1> QED  BY <1>6, <1>7

(* What the writes that are left would store of an untouched entry's value is     *)
(* what is stored.                                                               *)
LEMMA UntouchedIsInStep ==
    ASSUME Inv, NEW v \in Value, NEW k \in Key, <<v, k>> \notin loose \cup Careless,
           Leaves(op.writes, 1, "index", v, k)
    PROVE  InStepIn(disk, index, v, k)
<1> DEFINE W == op.writes  n == op.done + 1  L == Len(W)
           D(m) == Decides(W[m], "disk", v, k)
           G(m) == Grants(W[m], "disk", v, k)
<1>1. op.done \in Nat
  BY DEF Inv, Typed
<1>2. \A m \in n..L : m \in 1..L
  BY <1>1
<1>3. Leaves(W, n, "index", v, k) /\ ~Gains(W, n, "index", v, k)
  <2>1. \A m \in n..L : ~Decides(W[m], "index", v, k)
    BY <1>2 DEF Leaves
  <2> QED  BY <2>1 DEF Leaves, Gains, Grants
<1>4. \A t : Puts(W, k, t) => (Lines(t, v) <=> Lines(disk[k], v))
  BY DEF Inv, StillUntouched, Untouched
<1>5. \A m \in 1..L : D(m) => Puts(W, k, W[m].value)
  BY DEF Decides, Puts
<1>6. \A m \in 1..L : D(m) => (G(m) <=> Lines(disk[k], v))
  <2> SUFFICES ASSUME NEW m \in 1..L, D(m) PROVE G(m) <=> Lines(disk[k], v)
    OBVIOUS
  <2>1. G(m) <=> Lines(W[m].value, v)
    BY DEF Grants
  <2>2. Puts(W, k, W[m].value)
    BY <1>5
  <2> QED  BY <1>4, <2>1, <2>2
<1>7. \A m : G(m) => D(m)
  BY DEF Grants
<1>8. /\ Leaves(W, n, "disk", v, k) <=> \A m \in n..L : ~D(m)
      /\ Gains(W, n, "disk", v, k) <=> \E m \in n..L : G(m) /\ \A l \in (m + 1)..L : D(l) => G(l)
  BY DEF Leaves, Gains
<1>9. \A m \in n..L : \A l \in (m + 1)..L : l \in 1..L
  BY <1>1
<1> HIDE DEF D, G, W, n, L
<1>10. Gains(W, n, "disk", v, k) \/ (Lines(disk[k], v) /\ Leaves(W, n, "disk", v, k)) <=> Lines(disk[k], v)
  <2>1. ASSUME Gains(W, n, "disk", v, k) PROVE Lines(disk[k], v)
    BY <1>2, <1>6, <1>7, <1>8, <2>1
  <2>2. ASSUME Lines(disk[k], v), ~Leaves(W, n, "disk", v, k) PROVE Gains(W, n, "disk", v, k)
    BY <1>2, <1>6, <1>8, <1>9, <2>2
  <2> QED  BY <2>1, <2>2
<1>11. WillAgree(W, n, v, k)
  BY DEF Inv, StillFaithful, W, n
<1> QED  BY <1>3, <1>10, <1>11 DEF WillAgree, InStepIn

LEMMA CrashKeeps ==
    ASSUME Inv, Crash
    PROVE  Inv'
<1> DEFINE entries == Pending \cup Careless
           W == op.writes
<1>1. /\ UNCHANGED <<disk, index>> /\ Settle(entries)
      /\ clean' = FALSE /\ later' = MaxLater
  BY DEF Crash
<1>2. W \in Seq(GhostWrite) \/ W \in Seq(Write)
  BY DEF Inv, Typed
<1>3. \A m \in 1..Len(W) : W[m] \in GhostWrite \/ W[m] \in Write
  BY <1>2
<1>4. \A w \in ToSet(W) : w \in GhostWrite \/ w \in Write
  <2>1. DOMAIN W = 1..Len(W)
    BY <1>2
  <2> QED  BY <1>3, <2>1 DEF ToSet
<1>5. ASSUME NEW w \in ToSet(W), w.what \in {"add", "drop"} PROVE <<w.value, w.key>> \in Entry
  <2>1. w \in IndexWrite
    <3>1. \A g \in GhostWrite : g.what = "ghost"
      BY DEF GhostWrite
    <3>2. \A g \in StoreWrite : g.what = "store"
      BY DEF StoreWrite
    <3> QED  BY <1>4, <1>5, <3>1, <3>2 DEF Write
  <2> QED  BY <2>1 DEF IndexWrite, Entry
<1>6. entries \in SUBSET Entry
  BY <1>5, CarelessFits DEF Pending
<1>7. ASSUME NEW v \in Value, NEW k \in Key, <<v, k>> \notin loose \cup entries
      PROVE  InStepIn(disk, index, v, k)
  <2>1. Leaves(W, 1, "index", v, k)
    <3> SUFFICES ASSUME NEW m \in 1..Len(W), Decides(W[m], "index", v, k) PROVE FALSE
      BY DEF Leaves
    <3>1. W[m] \in ToSet(W) /\ W[m].what \in {"add", "drop"} /\ <<W[m].value, W[m].key>> = <<v, k>>
      BY <1>2 DEF Decides, ToSet
    <3>2. <<v, k>> \in Pending
      BY <3>1 DEF Pending
    <3> QED  BY <1>7, <3>2
  <2> HIDE DEF W
  <2> QED  BY <1>7, <2>1, UntouchedIsInStep DEF W
<1>8. TypedIn(disk, index) /\ MaxLater \in 0..(MaxLater + 1)
  BY InvHolds, RecordIndexAssumption DEF HoldsIn
<1> HIDE DEF entries, W
<1>9. \A v \in Value, k \in Key : <<v, k>> \in loose \cup entries \/ InStepIn(disk', index', v, k)
  BY <1>1, <1>7
<1> QED  BY <1>1, <1>6, <1>8, <1>9, SettleKeeps

(***************************************************************************)
(* The theorems.                                                           *)
(***************************************************************************)
LEMMA InitIsInv == Init => Inv
<1> SUFFICES ASSUME Init PROVE Inv
  OBVIOUS
<1>1. /\ disk = [k \in Key |-> Gone] /\ index = {} /\ op = Idle /\ loose = {}
      /\ clean = TRUE /\ later = MaxLater + 1
  BY DEF Init
<1>2. op.kind = "idle" /\ op.writes = << >> /\ op.done = 0
      /\ op = [kind |-> op.kind, writes |-> op.writes, done |-> op.done]
  BY <1>1 DEF Idle
<1>3. \A m \in 1..Len(op.writes) : FALSE
  BY <1>2
<1>4. \A m \in (op.done + 1)..Len(op.writes) : FALSE
  BY <1>2
<1>5. \A k \in Key : disk[k] = Gone
  BY <1>1
<1>6. \A k \in Key : \A v : ~Lines(disk[k], v)
  BY <1>5, GoneHasNone
<1>7. Typed
  <2>1. Stored
    BY <1>5 DEF Stored
  <2>2. disk \in [Key -> Text]
    BY <1>1 DEF Text
  <2>3. MaxLater \in Nat
    BY RecordIndexAssumption
  <2>4. IsFiniteSet(index)
    BY <1>1, FS_EmptySet
  <2>5. later \in 0..(MaxLater + 1)
    BY <1>1, <2>3
  <2>6. AtRest
    BY <1>1 DEF AtRest
  <2> QED  BY <1>1, <1>2, <2>1, <2>2, <2>4, <2>5, <2>6 DEF Typed
<1>8. StillFaithful
  <2>1. \A side, v, k : /\ Leaves(op.writes, op.done + 1, side, v, k)
                        /\ ~Gains(op.writes, op.done + 1, side, v, k)
    BY <1>4 DEF Leaves, Gains
  <2> QED  BY <1>1, <1>6, <2>1 DEF StillFaithful, WillAgree
<1>9. \A k, t : ~Puts(op.writes, k, t)
  BY <1>3 DEF Puts
<1>10. StillUntouched
  BY <1>9 DEF StillUntouched, Untouched
<1>11. GhostsLeft
  BY <1>2 DEF GhostsLeft
<1>12. RefnsStay
  <2>1. \A i \in Person : i \in Key
    BY DEF Key
  <2>2. RefnsApart
    BY <1>6, <2>1 DEF RefnsApart
  <2> QED  BY <1>1, <1>9, <2>2 DEF RefnsStay, FreshPuts
<1> QED  BY <1>7, <1>8, <1>10, <1>11, <1>12 DEF Inv

LEMMA StepKeeps == Inv /\ [Next]_vars => Inv'
<1> SUFFICES ASSUME Inv, [Next]_vars PROVE Inv'
  OBVIOUS
<1>1. CASE Command
  BY <1>1, CommandKeeps
<1>2. CASE WriteNext
  BY <1>2, WriteNextKeeps
<1>3. CASE Crash
  BY <1>3, CrashKeeps
<1>4. CASE UNCHANGED vars
  BY <1>4 DEF vars, Inv, Typed, Stored, StillFaithful, WillAgree, StillUntouched, Untouched, GhostsLeft,
     Ghosts, GhostName, GhostRefn, Carries, Used, RefnsStay, RefnsApart, FreshPuts, Careless, AtRest
<1> QED  BY <1>1, <1>2, <1>3, <1>4 DEF Next

LEMMA AlwaysInv == Spec => []Inv
BY InitIsInv, StepKeeps, PTL DEF Spec

LEMMA InvIsExact == Inv => IndexExact
<1> SUFFICES ASSUME Inv PROVE IndexExact
  OBVIOUS
<1>1. TypeOK
  <2>1. op.done \in 0..Len(op.writes)
    <3>1. op.writes \in Seq(GhostWrite) \/ op.writes \in Seq(Write)
      BY DEF Inv, Typed
    <3>2. Len(op.writes) \in Nat /\ op.done \in Nat
      BY <3>1 DEF Inv, Typed
    <3>3. AtRest => op.done = 0
      BY DEF AtRest, Idle
    <3>4. AtRest \/ op.done < Len(op.writes)
      BY DEF Inv, Typed
    <3> QED  BY <3>2, <3>3, <3>4
  <2> QED  BY <2>1 DEF Inv, Typed, Stored, TypeOK, Good
<1>2. ASSUME AtRest, NEW e \in Entry PROVE InStep(e) \/ e \in loose
  <2>1. PICK v \in Value, k \in Key : e = <<v, k>>
    BY DEF Entry
  <2>2. <<v, k>> \in loose \/ (<<v, k>> \in index <=> Lines(disk[k], v))
    BY <1>2, RestIsInStep
  <2>3. InStep(e) <=> (<<v, k>> \in index <=> Lines(disk[k], v))
    BY <2>1, CarriesIsLines DEF InStep
  <2> QED  BY <2>1, <2>2, <2>3
<1> QED  BY <1>1, <1>2 DEF IndexExact

(* Between commands each value of each record is in the index and nothing else,   *)
(* but for the entries of a command that was cut short and the REFNs of families  *)
(* that were removed or merged (names.c, refns.c and their callers).             *)
THEOREM IndexAgrees == Spec => []IndexExact
BY AlwaysInv, InvIsExact, PTL

LEMMA InvIsUnique == Inv => PersonRefnsUnique
<1> SUFFICES ASSUME Inv, clean, NEW i \in Person, NEW j \in Person, NEW r \in Refn,
                    Carries(i, r), Carries(j, r)
             PROVE  i = j
  BY DEF PersonRefnsUnique
<1>1. i \in Key /\ j \in Key
  BY DEF Key
<1>2. Lines(disk[i], r) /\ Lines(disk[j], r)
  BY <1>1, CarriesIsLines
<1> QED  BY <1>2 DEF Inv, RefnsStay, RefnsApart

(* Until something is imported or a command cut short, the check that valid_indi  *)
(* makes of a person's REFNs keeps them apart.                                   *)
THEOREM RefnsStayUnique == Spec => []PersonRefnsUnique
BY AlwaysInv, InvIsUnique, PTL

LEMMA VerifyEnds ==
    ASSUME Inv, [Next]_vars, op.kind = "verify", op' = Idle, index' # index
    PROVE  \A e \in index' : /\ e[1] \in Name => Carries(e[2], e[1])'
                             /\ (e[2] \in Used)'
<1>1. WriteNext
  <2>1. CASE Command
    <3>1. AtRest
      BY <2>1 DEF Command, AddIndi, AddRecord, RestoreRecord, ReplaceIndi, ReplaceRecord, RemoveIndi,
         RemoveRecord, RemoveEmptyFam, MergeIndis, MergeFams, CheckGhosts, Begin
    <3> QED  BY <3>1 DEF AtRest, Idle
  <2>2. CASE Crash
    BY <2>2 DEF Crash
  <2>3. CASE UNCHANGED vars
    BY <2>3 DEF vars
  <2> QED  BY <2>1, <2>2, <2>3 DEF Next
<1>2. /\ Cardinality(Ghosts') = Cardinality(Ghosts) - 1
      /\ HoldsIn(disk', index', op.done + 1)
  BY <1>1, WriteHolds
<1>3. op.done < Len(op.writes)
  BY <1>1 DEF WriteNext
<1>4. op.done + 1 = Len(op.writes)
  <2> SUFFICES ASSUME op.done + 1 # Len(op.writes) PROVE FALSE
    OBVIOUS
  <2>1. op' = [op EXCEPT !.done = @ + 1]
    BY <1>1 DEF WriteNext
  <2>2. op = [kind |-> op.kind, writes |-> op.writes, done |-> op.done]
    BY DEF Inv, Typed
  <2>3. op'.kind = "verify"
    BY <2>1, <2>2
  <2> QED  BY <2>3 DEF Idle
<1>5. Cardinality(Ghosts) = Len(op.writes) - op.done
  BY DEF Inv, GhostsLeft
<1>6. Cardinality(Ghosts') = 0
  <2>1. Len(op.writes) \in Nat /\ op.done \in Nat
    BY <1>3, NextWriteIs DEF Inv, Typed
  <2> QED  BY <1>2, <1>4, <1>5, <2>1
<1>7. Ghosts' = {}
  <2>1. Ghosts' \subseteq index'
    BY DEF Ghosts
  <2>2. IsFiniteSet(index')
    BY <1>2 DEF HoldsIn, TypedIn
  <2>3. IsFiniteSet(Ghosts')
    BY <2>1, <2>2, FS_Subset
  <2> QED  BY <1>6, <2>3, FS_EmptySet
<1> SUFFICES ASSUME NEW e \in index'
             PROVE  (e[1] \in Name => Carries(e[2], e[1])') /\ (e[2] \in Used)'
  OBVIOUS
<1>8. e \in Good
  BY <1>2 DEF HoldsIn, TypedIn
<1>9. e[1] \in Name \/ e[1] \in Refn
  BY <1>8 DEF Good
<1>10. ~GhostName(e)' /\ ~GhostRefn(e)'
  BY <1>7 DEF Ghosts
<1>11. e[1] \in Name => Carries(e[2], e[1])'
  BY <1>10 DEF GhostName
<1>12. Carries(e[2], e[1])' => (e[2] \in Used)'
  BY DEF Carries
<1>13. e[1] \in Refn => (e[2] \in Used)'
  BY <1>10 DEF GhostRefn
<1> QED  BY <1>9, <1>11, <1>12, <1>13

(* After dbverify -G every name leads to a person who has it, and every REFN to a *)
(* record.                                                                       *)
THEOREM GhostsAreGone == Spec => GhostsGone
<1>1. Inv /\ [Next]_vars =>
        [op.kind = "verify" /\ op' = Idle /\ index' # index =>
           \A e \in index' : /\ e[1] \in Name => Carries(e[2], e[1])'
                             /\ (e[2] \in Used)']_vars
  BY VerifyEnds
<1> QED  BY <1>1, AlwaysInv, PTL DEF Spec, GhostsGone

====
