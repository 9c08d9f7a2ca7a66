----------------------------- MODULE History_proof -----------------------------
(* Proofs about History: the circular buffer keeps its indices in range, its     *)
(* entries are keys, the screens of records find theirs among them, and it       *)
(* implements the tape of Trail, for buffers of any size.                        *)
EXTENDS History, SequenceTheorems, WellFoundedInduction, TLAPS

(* A buffer as a tape.                                                           *)
PastOf(h) == Cells(h, h.start, get_hist_count(h))
RestOf(h) == Cells(h, h.past_end, h.size - get_hist_count(h))

(* One place further on than x around the end of n cells, at most once around.   *)
Around(n, x) == IF x < n THEN x ELSE x - n

Cell == Key \cup {NoKey}

(* A sequence is what so many cells of a list hold, from one on.                 *)
Laid(n, seq, list, from, count) ==
    /\ seq \in Seq(Cell) /\ Len(seq) = count
    /\ \A i \in 1..count : /\ Around(n, from + i - 1) \in 0..n - 1
                           /\ seq[i] = list[Around(n, from + i - 1)]

(***************************************************************************)
(* Arithmetic around the end of the buffer.                                *)
(***************************************************************************)
LEMMA AroundOnce ==
    ASSUME NEW n \in Nat \ {0}, NEW x \in 0..n + n - 1
    PROVE  x % n = Around(n, x) /\ Around(n, x) \in 0..n - 1
<1>1. CASE x < n
  <2>1. x % n = x
    BY <1>1
  <2> QED  BY <1>1, <2>1 DEF Around
<1>2. CASE x >= n
  <2>1. x % n = x - n
    BY <1>2
  <2> QED  BY <1>2, <2>1 DEF Around
<1> QED  BY <1>1, <1>2

(* get_hist_count: past_end is that many cells beyond start.                     *)
LEMMA CountFits ==
    ASSUME NEW n \in Nat, NEW h \in Hists(n)
    PROVE  /\ get_hist_count(h) \in 0..n
           /\ h.start = -1 <=> get_hist_count(h) = 0
           /\ h.start # -1 => /\ n # 0
                              /\ h.past_end = Around(n, h.start + get_hist_count(h))
  BY DEF Hists, get_hist_count, Around

LEMMA FunctionIsSeq ==
    ASSUME NEW S, NEW m \in Nat, NEW f \in [1..m -> S]
    PROVE  f \in Seq(S) /\ Len(f) = m
  OBVIOUS

(* Cells: so many of them, in the order of the buffer.                           *)
LEMMA CellsAre ==
    ASSUME NEW n \in Nat \ {0}, NEW h \in Hists(n), NEW from \in 0..n - 1, NEW count \in 0..n
    PROVE  Laid(n, Cells(h, from, count), h.list, from, count)
<1>1. \A i \in 1..count : /\ (from + i - 1) % n = Around(n, from + i - 1)
                          /\ Around(n, from + i - 1) \in 0..n - 1
  BY AroundOnce
<1>2. h.size = n /\ h.list \in [0..n - 1 -> Cell]
  BY DEF Hists, Cell
<1>3. Cells(h, from, count) = [i \in 1..count |-> h.list[Around(n, from + i - 1)]]
  BY <1>1, <1>2 DEF Cells
<1>4. Cells(h, from, count) \in [1..count -> Cell]
  BY <1>1, <1>2, <1>3
<1>5. \A i \in 1..count : Cells(h, from, count)[i] = h.list[Around(n, from + i - 1)]
  BY <1>3
<1>6. Cells(h, from, count) \in Seq(Cell) /\ Len(Cells(h, from, count)) = count
  BY <1>4, FunctionIsSeq
<1> QED  BY <1>1, <1>5, <1>6 DEF Laid

LEMMA NoCells == ASSUME NEW h, NEW from PROVE Cells(h, from, 0) = << >>
<1>1. 1..0 = {}
  OBVIOUS
<1>2. Cells(h, from, 0) \in [1..0 -> {}]
  BY <1>1 DEF Cells
<1> QED  BY <1>2

(* The tape of a buffer: where its cells are.                                    *)
LEMMA TapeOf ==
    ASSUME NEW n \in Nat, NEW h \in Hists(n)
    PROVE  /\ Laid(n, PastOf(h), h.list, h.start, get_hist_count(h))
           /\ Laid(n, RestOf(h), h.list, h.past_end, n - get_hist_count(h))
<1> DEFINE c == get_hist_count(h)
<1>1. c \in 0..n /\ (h.start = -1 <=> c = 0)
  BY CountFits
<1>2. h.size = n /\ h.start \in -1..n - 1 /\ h.past_end \in 0..(IF n = 0 THEN 0 ELSE n - 1)
  BY DEF Hists
<1>3. PastOf(h) = Cells(h, h.start, c) /\ RestOf(h) = Cells(h, h.past_end, n - c)
  BY <1>2 DEF PastOf, RestOf
<1>4. \A from : Laid(n, << >>, h.list, from, 0)
  BY EmptySeq DEF Laid
<1> HIDE DEF c
<1>5. Laid(n, PastOf(h), h.list, h.start, c)
  <2>1. CASE c = 0
    BY <1>3, <1>4, <2>1, NoCells
  <2>2. CASE c # 0
    BY <2>2, <1>1, <1>2, <1>3, CellsAre
  <2> QED  BY <2>1, <2>2
<1>6. Laid(n, RestOf(h), h.list, h.past_end, n - c)
  <2>1. CASE n = 0
    BY <1>1, <1>3, <1>4, <2>1, NoCells
  <2>2. CASE n # 0
    <3>1. n - c \in 0..n /\ h.past_end \in 0..n - 1 /\ n \in Nat \ {0}
      BY <2>2, <1>1, <1>2
    <3> QED  BY <1>3, <3>1, CellsAre
  <2> QED  BY <2>1, <2>2
<1> QED  BY <1>5, <1>6 DEF c

-----------------------------------------------------------------------------
(* What the operations on a buffer do to its tape.                               *)

(* A push writes the cell at past_end and moves on; only on a full buffer does   *)
(* it move start too.                                                            *)
LEMMA PushedIs ==
    ASSUME NEW n \in Nat \ {0}, NEW h \in Hists(n), NEW k \in Key, NEW c, c = get_hist_count(h)
    PROVE  /\ Pushed(h, k) \in Hists(n)
           /\ Pushed(h, k).list = [h.list EXCEPT ![h.past_end] = k]
           /\ Pushed(h, k).past_end = Around(n, h.past_end + 1)
           /\ c < n => /\ Pushed(h, k).start = IF c = 0 THEN h.past_end ELSE h.start
                       /\ get_hist_count(Pushed(h, k)) = c + 1
           /\ c = n => /\ Pushed(h, k).start = Around(n, h.past_end + 1)
                       /\ get_hist_count(Pushed(h, k)) = n
                       /\ h.start = h.past_end
<1> DEFINE g == Pushed(h, k)
<1>1. /\ h.size = n /\ h.start \in -1..n - 1 /\ h.past_end \in 0..n - 1
      /\ h.list \in [0..n - 1 -> Key \cup {NoKey}]
  BY DEF Hists
<1>2. Up(h, h.past_end) = Around(n, h.past_end + 1) /\ Around(n, h.past_end + 1) \in 0..n - 1
  <2>1. h.past_end + 1 \in 0..n + n - 1
    BY <1>1
  <2> QED  BY <1>1, <2>1, AroundOnce DEF Up
<1>3. /\ g.start = IF h.start = -1 THEN h.past_end
                   ELSE IF h.start = h.past_end THEN Around(n, h.past_end + 1) ELSE h.start
      /\ g.past_end = Around(n, h.past_end + 1)
      /\ g.size = n
      /\ g.list = [h.list EXCEPT ![h.past_end] = k]
  <2>1. g.start = IF h.start = -1 THEN h.past_end
                  ELSE IF h.start = h.past_end THEN Up(h, h.start) ELSE h.start
    BY DEF Pushed, Hists
  <2>2. g.past_end = Up(h, h.past_end)
    BY DEF Pushed, Hists
  <2>3. g.size = h.size
    BY DEF Pushed, Hists
  <2>4. g.list = [h.list EXCEPT ![h.past_end] = k]
    BY DEF Pushed, Hists
  <2> HIDE DEF g
  <2> QED  BY <1>1, <1>2, <2>1, <2>2, <2>3, <2>4
<1>4. /\ c \in 0..n /\ (h.start = -1 <=> c = 0)
      /\ h.start # -1 => h.past_end = Around(n, h.start + c)
  BY CountFits
<1>5. c = n => h.start = h.past_end
  BY <1>1, <1>4 DEF Around
<1>6. c < n => h.start # h.past_end
  BY <1>1, <1>4 DEF Around
<1>7. g.start = IF c = 0 THEN h.past_end ELSE IF c = n THEN Around(n, h.past_end + 1) ELSE h.start
  BY <1>1, <1>3, <1>4, <1>5, <1>6
<1>8. g \in Hists(n)
  <2>1. [h.list EXCEPT ![h.past_end] = k] \in [0..n - 1 -> Key \cup {NoKey}]
    BY <1>1
  <2>2. g.start \in -1..n - 1 /\ g.past_end \in 0..(IF n = 0 THEN 0 ELSE n - 1)
    BY <1>1, <1>2, <1>3, <1>7
  <2> QED  BY <1>3, <2>1, <2>2 DEF Hists, Pushed
<1> HIDE DEF g
<1>9. c < n => get_hist_count(g) = c + 1
  <2>1. CASE c = 0
    BY <2>1, <1>1, <1>3, <1>7 DEF get_hist_count, Around
  <2>2. CASE c # 0 /\ c < n
    <3>1. g.start = h.start /\ h.start \in 0..n - 1
      BY <2>2, <1>1, <1>4, <1>7
    <3>2. h.past_end = Around(n, h.start + c)
      BY <2>2, <1>4
    <3>3. g.past_end = IF h.start + c + 1 < n THEN h.start + c + 1 ELSE h.start + c + 1 - n
      BY <2>2, <1>1, <1>3, <1>4, <3>1, <3>2 DEF Around
    <3> QED  BY <2>2, <1>3, <1>4, <3>1, <3>3 DEF get_hist_count
  <2> QED  BY <2>1, <2>2
<1>10. c = n => get_hist_count(g) = n
  <2>1. g.size = n
    BY <1>3
  <2>2. c = n => g.start = g.past_end /\ g.start \in 0..n - 1
    BY <1>2, <1>3, <1>7
  <2> QED  BY <2>1, <2>2 DEF get_hist_count
<1> QED  BY <1>3, <1>5, <1>7, <1>8, <1>9, <1>10 DEF g

LEMMA PushedVisits ==
    ASSUME NEW n \in Nat \ {0}, NEW h \in Hists(n), NEW k \in Key
    PROVE  \/ /\ RestOf(h) # << >>
              /\ PastOf(Pushed(h, k)) = Append(PastOf(h), k)
              /\ RestOf(Pushed(h, k)) = Tail(RestOf(h))
           \/ /\ RestOf(h) = << >> /\ PastOf(h) # << >>
              /\ PastOf(Pushed(h, k)) = Append(Tail(PastOf(h)), k)
              /\ RestOf(Pushed(h, k)) = RestOf(h)
<1> DEFINE g == Pushed(h, k)
           c == get_hist_count(h)
           d == get_hist_count(g)
<1>1. /\ h.size = n /\ h.start \in -1..n - 1 /\ h.past_end \in 0..n - 1
      /\ h.list \in [0..n - 1 -> Cell]
  BY DEF Hists, Cell
<1>2. /\ c \in 0..n /\ (h.start = -1 <=> c = 0)
      /\ h.start # -1 => h.past_end = Around(n, h.start + c)
  BY CountFits
<1>3. /\ g \in Hists(n)
      /\ g.list = [h.list EXCEPT ![h.past_end] = k]
      /\ g.past_end = Around(n, h.past_end + 1)
      /\ c < n => g.start = (IF c = 0 THEN h.past_end ELSE h.start) /\ d = c + 1
      /\ c = n => g.start = Around(n, h.past_end + 1) /\ d = n /\ h.start = h.past_end
  BY PushedIs
<1>4. \A j \in 0..n - 1 : g.list[j] = IF j = h.past_end THEN k ELSE h.list[j]
  BY <1>1, <1>3
<1>5. Laid(n, PastOf(h), h.list, h.start, c) /\ Laid(n, RestOf(h), h.list, h.past_end, n - c)
  BY TapeOf
<1>6. /\ Laid(n, PastOf(g), g.list, g.start, d) /\ Laid(n, RestOf(g), g.list, g.past_end, n - d)
      /\ d \in 0..n
  BY <1>3, TapeOf, CountFits
<1> USE DEF Laid
<1> HIDE DEF g, c, d
<1>7. CASE c < n
  <2>1. RestOf(h) # << >>
    BY <1>2, <1>5, <1>7
  <2>2. PastOf(g) = Append(PastOf(h), k)
    <3>1. /\ Append(PastOf(h), k) \in Seq(Cell) /\ Len(Append(PastOf(h), k)) = c + 1
          /\ \A i \in 1..c + 1 : Append(PastOf(h), k)[i] = IF i = c + 1 THEN k ELSE PastOf(h)[i]
      BY <1>2, <1>5 DEF Cell
    <3>2. ASSUME NEW i \in 1..c
          PROVE  PastOf(g)[i] = PastOf(h)[i]
      <4>1. i \in 1..d /\ g.start = h.start /\ h.start # -1
        BY <1>2, <1>3, <1>7
      <4>2. Around(n, h.start + i - 1) # h.past_end
        BY <1>1, <1>2, <1>7, <4>1 DEF Around
      <4>3. PastOf(g)[i] = g.list[Around(n, h.start + i - 1)]
        BY <1>6, <4>1
      <4>4. /\ Around(n, h.start + i - 1) \in 0..n - 1
            /\ PastOf(h)[i] = h.list[Around(n, h.start + i - 1)]
        BY <1>5
      <4> QED  BY <1>4, <4>2, <4>3, <4>4
    <3>3. PastOf(g)[c + 1] = k
      <4>1. c + 1 \in 1..d
        BY <1>2, <1>3, <1>7
      <4>2. Around(n, g.start + (c + 1) - 1) = h.past_end
        BY <1>1, <1>2, <1>3, <1>7 DEF Around
      <4> QED  BY <1>1, <1>4, <1>6, <4>1, <4>2
    <3>4. \A i \in 1..Len(PastOf(g)) : PastOf(g)[i] = Append(PastOf(h), k)[i]
      BY <1>2, <1>3, <1>6, <1>7, <3>1, <3>2, <3>3, SMTT(30)
    <3> QED  BY <1>3, <1>6, <1>7, <3>1, <3>4, SeqEqual
  <2>3. RestOf(g) = Tail(RestOf(h))
    <3>1. /\ Tail(RestOf(h)) \in Seq(Cell) /\ Len(Tail(RestOf(h))) = n - c - 1
          /\ \A i \in 1..n - c - 1 : Tail(RestOf(h))[i] = RestOf(h)[i + 1]
      BY <1>2, <1>5, <1>7, <2>1
    <3>2. ASSUME NEW i \in 1..n - c - 1
          PROVE  RestOf(g)[i] = RestOf(h)[i + 1]
      <4>1. i \in 1..n - d /\ i + 1 \in 1..n - c
        BY <1>2, <1>3, <1>7
      <4>2. Around(n, g.past_end + i - 1) = Around(n, h.past_end + (i + 1) - 1)
        BY <1>1, <1>2, <1>3, <1>7, <4>1 DEF Around
      <4>3. Around(n, h.past_end + (i + 1) - 1) # h.past_end
        BY <1>1, <1>2, <1>7, <4>1 DEF Around
      <4>4. RestOf(g)[i] = g.list[Around(n, h.past_end + (i + 1) - 1)]
        BY <1>6, <4>1, <4>2
      <4>5. /\ Around(n, h.past_end + (i + 1) - 1) \in 0..n - 1
            /\ RestOf(h)[i + 1] = h.list[Around(n, h.past_end + (i + 1) - 1)]
        BY <1>5, <4>1
      <4> QED  BY <1>4, <4>3, <4>4, <4>5
    <3>3. \A i \in 1..Len(RestOf(g)) : RestOf(g)[i] = Tail(RestOf(h))[i]
      BY <1>2, <1>3, <1>6, <1>7, <3>1, <3>2
    <3>4. Len(RestOf(g)) = Len(Tail(RestOf(h)))
      <4>1. Len(RestOf(g)) = n - d /\ d = c + 1
        BY <1>3, <1>6, <1>7
      <4> QED  BY <1>2, <3>1, <4>1
    <3>5. RestOf(g) \in Seq(Cell)
      BY <1>6
    <3> QED  BY <3>1, <3>3, <3>4, <3>5, SeqEqual
  <2> QED  BY <2>1, <2>2, <2>3 DEF g
<1>8. CASE c = n
  <2>1. RestOf(h) = << >> /\ RestOf(g) = << >> /\ PastOf(h) # << >>
    BY <1>3, <1>5, <1>6, <1>8, EmptySeq
  <2>2. PastOf(g) = Append(Tail(PastOf(h)), k)
    <3>1. /\ Tail(PastOf(h)) \in Seq(Cell) /\ Len(Tail(PastOf(h))) = n - 1
          /\ \A i \in 1..n - 1 : Tail(PastOf(h))[i] = PastOf(h)[i + 1]
      BY <1>5, <1>8, <2>1
    <3>2. /\ Append(Tail(PastOf(h)), k) \in Seq(Cell) /\ Len(Append(Tail(PastOf(h)), k)) = n
          /\ \A i \in 1..n : Append(Tail(PastOf(h)), k)[i] = IF i = n THEN k ELSE PastOf(h)[i + 1]
      BY <3>1 DEF Cell
    <3>3. ASSUME NEW i \in 1..n - 1
          PROVE  PastOf(g)[i] = PastOf(h)[i + 1]
      <4>1. i \in 1..d /\ i + 1 \in 1..c
        BY <1>3, <1>8
      <4>2. Around(n, g.start + i - 1) = Around(n, h.start + (i + 1) - 1)
        BY <1>1, <1>3, <1>8, SMTT(30) DEF Around
      <4>3. Around(n, h.start + (i + 1) - 1) # h.past_end
        BY <1>1, <1>3, <1>8 DEF Around
      <4>4. PastOf(g)[i] = g.list[Around(n, h.start + (i + 1) - 1)]
        BY <1>6, <4>1, <4>2
      <4>5. /\ Around(n, h.start + (i + 1) - 1) \in 0..n - 1
            /\ PastOf(h)[i + 1] = h.list[Around(n, h.start + (i + 1) - 1)]
        BY <1>5, <4>1
      <4> QED  BY <1>4, <4>3, <4>4, <4>5
    <3>4. PastOf(g)[n] = k
      <4>1. n \in 1..d /\ Around(n, g.start + n - 1) = h.past_end
        BY <1>1, <1>3, <1>8 DEF Around
      <4> QED  BY <1>1, <1>4, <1>6, <4>1
    <3>5. \A i \in 1..Len(PastOf(g)) : PastOf(g)[i] = Append(Tail(PastOf(h)), k)[i]
      <4>1. Len(PastOf(g)) = n
        BY <1>3, <1>6, <1>8
      <4>2. ASSUME NEW i \in 1..n
            PROVE  PastOf(g)[i] = Append(Tail(PastOf(h)), k)[i]
        <5>1. CASE i = n
          BY <3>2, <3>4, <5>1
        <5>2. CASE i # n
          BY <3>2, <3>3, <5>2
        <5> QED  BY <5>1, <5>2
      <4> QED  BY <4>1, <4>2
    <3> QED  BY <1>3, <1>6, <1>8, <3>2, <3>5, SeqEqual
  <2> QED  BY <2>1, <2>2 DEF g
<1> QED  BY <1>2, <1>7, <1>8

(* Min of the community modules, of any numbers and of two.                      *)
LEMMA MinExists ==
    ASSUME NEW S \in SUBSET Nat, S # {}
    PROVE  Min(S) \in S
<1>1. PICK m \in S : \A k \in S : ~(<<k, m>> \in OpToRel(<, Nat))
  BY NatLessThanWellFounded, WFMin
<1>2. \A k \in S : m <= k
  <2> SUFFICES ASSUME NEW k \in S, k < m
               PROVE  FALSE
    OBVIOUS
  <2>1. <<k, m>> \in Nat \X Nat /\ <<k, m>>[1] < <<k, m>>[2]
    OBVIOUS
  <2>2. <<k, m>> \in OpToRel(<, Nat)
    BY <2>1 DEF OpToRel
  <2> QED  BY <1>1, <2>2
<1> QED  BY <1>2 DEF Min

LEMMA MinOfTwo ==
    ASSUME NEW a \in Nat, NEW b \in Nat
    PROVE  Min({a, b}) = IF a <= b THEN a ELSE b
<1>1. \A x \in {a, b} : (\A y \in {a, b} : x <= y) => x = IF a <= b THEN a ELSE b
  OBVIOUS
<1>2. \E x \in {a, b} : \A y \in {a, b} : x <= y
  OBVIOUS
<1> QED  BY <1>1, <1>2 DEF Min

(* Going back only moves past_end, over fewer entries than there are, to just    *)
(* beyond a record.                                                              *)
LEMMA BackToIs ==
    ASSUME NEW n \in Nat, NEW h \in Hists(n), Behind(h) # {}
    PROVE  /\ n # 0 /\ BackTo(h) \in Hists(n)
           /\ BackTo(h).start = h.start /\ BackTo(h).list = h.list
           /\ \E m \in 1..get_hist_count(h) - 1 :
                 /\ BackTo(h).past_end = Around(n, h.past_end + n - m)
                 /\ get_hist_count(BackTo(h)) = get_hist_count(h) - m
           /\ Latest(BackTo(h)) \in stored
<1> DEFINE c == get_hist_count(h)
           g == BackTo(h)
           m == Min(Behind(h))
           last == Down(h, h.past_end)
<1>1. /\ h.size = n /\ h.start \in -1..n - 1 /\ h.past_end \in 0..(IF n = 0 THEN 0 ELSE n - 1)
      /\ h.list \in [0..n - 1 -> Cell]
  BY DEF Hists, Cell
<1>2. /\ c \in 0..n /\ (h.start = -1 <=> c = 0)
      /\ h.start # -1 => n # 0 /\ h.past_end = Around(n, h.start + c)
  BY CountFits
<1>3. m \in Behind(h)
  <2>1. Behind(h) \in SUBSET Nat
    BY <1>2 DEF Behind
  <2> QED  BY <2>1, MinExists
<1>4. m \in 1..c - 1 /\ h.list[(last + n - m) % n] \in stored
  BY <1>1, <1>3 DEF Behind
<1> HIDE DEF c, m
<1>5. n \in Nat \ {0} /\ h.start \in 0..n - 1 /\ h.past_end \in 0..n - 1
  BY <1>1, <1>2, <1>4
<1>6. last \in 0..n - 1 /\ last = IF h.past_end = 0 THEN n - 1 ELSE h.past_end - 1
  BY <1>1, <1>5 DEF Down
<1>7. (last + n - m + 1) % n = Around(n, last + n - m + 1) /\ (last + n - m) % n = Around(n, last + n - m)
  <2>1. last + n - m + 1 \in 0..n + n - 1 /\ last + n - m \in 0..n + n - 1
    BY <1>2, <1>4, <1>6
  <2> QED  BY <1>5, <2>1, AroundOnce
<1>8. /\ g.start = h.start /\ g.list = h.list /\ g.size = n
      /\ g.past_end = (last + n - m + 1) % n
  BY <1>1 DEF BackTo, Hists, m
<1> HIDE DEF last
<1>9. g.past_end = Around(n, h.past_end + n - m) /\ g.past_end \in 0..n - 1
  BY <1>2, <1>4, <1>5, <1>6, <1>7, <1>8 DEF Around
<1>10. g \in Hists(n)
  BY <1>5, <1>8, <1>9 DEF Hists, BackTo
<1> HIDE DEF g
<1>11. get_hist_count(g) = c - m
  <2>1. h.past_end = Around(n, h.start + c)
    BY <1>2, <1>5
  <2>2. g.past_end = IF h.start + c - m < n THEN h.start + c - m ELSE h.start + c - m - n
    BY <1>2, <1>4, <1>5, <1>9, <2>1 DEF Around
  <2> QED  BY <1>2, <1>4, <1>5, <1>8, <2>2 DEF get_hist_count
<1>12. Latest(g) \in stored
  <2>1. Down(g, g.past_end) = IF g.past_end = 0 THEN n - 1 ELSE g.past_end - 1
    BY <1>8 DEF Down
  <2>2. Down(g, g.past_end) = Around(n, last + n - m)
    BY <1>2, <1>4, <1>5, <1>6, <1>9, <2>1 DEF Around
  <2> QED  BY <1>4, <1>7, <1>8, <2>2 DEF Latest
<1> QED  BY <1>4, <1>5, <1>8, <1>9, <1>10, <1>11, <1>12 DEF c, g

(* What going back over comes to lie before what was ahead.                      *)
LEMMA BackToGoesBack ==
    ASSUME NEW n \in Nat, NEW h \in Hists(n), Behind(h) # {}
    PROVE  \E l \in 1..Len(PastOf(h)) - 1 :
              /\ PastOf(BackTo(h)) = SubSeq(PastOf(h), 1, l)
              /\ RestOf(BackTo(h)) = SubSeq(PastOf(h), l + 1, Len(PastOf(h))) \o RestOf(h)
<1> DEFINE g == BackTo(h)
           c == get_hist_count(h)
           d == get_hist_count(g)
<1>1. /\ n # 0 /\ g \in Hists(n) /\ g.start = h.start /\ g.list = h.list
      /\ \E m \in 1..c - 1 : g.past_end = Around(n, h.past_end + n - m) /\ d = c - m
  BY BackToIs
<1>2. /\ c \in 0..n /\ (h.start = -1 <=> c = 0)
      /\ h.start # -1 => h.past_end = Around(n, h.start + c)
  BY CountFits
<1>3. Laid(n, PastOf(h), h.list, h.start, c) /\ Laid(n, RestOf(h), h.list, h.past_end, n - c)
  BY TapeOf
<1>4. Laid(n, PastOf(g), g.list, g.start, d) /\ Laid(n, RestOf(g), g.list, g.past_end, n - d)
  BY <1>1, TapeOf
<1>5. h.start \in -1..n - 1 /\ h.past_end \in 0..(IF n = 0 THEN 0 ELSE n - 1)
  BY DEF Hists
<1> HIDE DEF g, c, d
<1>6. PICK m \in 1..c - 1 : g.past_end = Around(n, h.past_end + n - m) /\ d = c - m
  BY <1>1
<1>7. h.start \in 0..n - 1 /\ h.past_end \in 0..n - 1 /\ h.past_end = Around(n, h.start + c)
  BY <1>1, <1>2, <1>5, <1>6
<1> USE DEF Laid
<1>8. d \in 1..c - 1 /\ Len(PastOf(h)) = c /\ PastOf(h) \in Seq(Cell)
  BY <1>2, <1>3, <1>6
<1>9. PastOf(g) = SubSeq(PastOf(h), 1, d)
  <2>1. /\ SubSeq(PastOf(h), 1, d) \in Seq(Cell) /\ Len(SubSeq(PastOf(h), 1, d)) = d
        /\ \A i \in 1..d : SubSeq(PastOf(h), 1, d)[i] = PastOf(h)[i]
    BY <1>2, <1>8
  <2>2. ASSUME NEW i \in 1..d
        PROVE  PastOf(g)[i] = PastOf(h)[i]
    <3>1. i \in 1..c
      BY <1>2, <1>8
    <3>2. PastOf(g)[i] = h.list[Around(n, h.start + i - 1)]
      BY <1>1, <1>4
    <3>3. PastOf(h)[i] = h.list[Around(n, h.start + i - 1)]
      BY <1>3, <3>1
    <3> QED  BY <3>2, <3>3
  <2>3. Len(PastOf(g)) = d /\ PastOf(g) \in Seq(Cell)
    BY <1>4
  <2> QED  BY <2>1, <2>2, <2>3, SeqEqual
<1>10. RestOf(g) = SubSeq(PastOf(h), d + 1, c) \o RestOf(h)
  <2> DEFINE left == SubSeq(PastOf(h), d + 1, c)
             whole == left \o RestOf(h)
  <2>1. /\ left \in Seq(Cell) /\ Len(left) = m
        /\ \A i \in 1..m : left[i] = PastOf(h)[d + i]
    <3>1. \A i \in d + 1..c : PastOf(h)[i] \in Cell
      BY <1>2, <1>8
    <3>2. /\ left \in Seq(Cell) /\ Len(left) = c - (d + 1) + 1
          /\ \A i \in 1..c - (d + 1) + 1 : left[i] = PastOf(h)[(d + 1) + i - 1]
      BY <1>2, <1>8, <3>1, SubSeqProperties
    <3>3. c - (d + 1) + 1 = m /\ \A i \in 1..m : (d + 1) + i - 1 = d + i
      BY <1>2, <1>6, <1>8
    <3> QED  BY <3>2, <3>3
  <2> HIDE DEF left
  <2>2. /\ whole \in Seq(Cell) /\ Len(whole) = n - d
        /\ \A i \in 1..n - d : whole[i] = IF i <= m THEN left[i] ELSE RestOf(h)[i - m]
    <3>1. Len(RestOf(h)) = n - c /\ RestOf(h) \in Seq(Cell) /\ m + (n - c) = n - d
      BY <1>2, <1>3, <1>6
    <3>2. whole \in Seq(Cell) /\ Len(whole) = Len(left) + Len(RestOf(h))
      BY <2>1, <3>1, ConcatProperties
    <3>3. \A i \in 1..Len(left) + Len(RestOf(h)) :
             whole[i] = IF i <= Len(left) THEN left[i] ELSE RestOf(h)[i - Len(left)]
      BY <2>1, <3>1, ConcatProperties
    <3> HIDE DEF whole
    <3> QED  BY <2>1, <3>1, <3>2, <3>3
  <2> HIDE DEF whole
  <2>3. ASSUME NEW i \in 1..n - d
        PROVE  RestOf(g)[i] = whole[i]
    <3>1. RestOf(g)[i] = h.list[Around(n, g.past_end + i - 1)]
      BY <1>1, <1>4
    <3>2. CASE i <= m
      <4>1. d + i \in 1..c /\ whole[i] = PastOf(h)[d + i]
        BY <1>2, <1>6, <1>8, <2>1, <2>2, <3>2
      <4>2. PastOf(h)[d + i] = h.list[Around(n, h.start + (d + i) - 1)]
        BY <1>3, <4>1
      <4>3. g.past_end = Around(n, h.start + d)
        BY <1>2, <1>6, <1>7, <1>8 DEF Around
      <4>4. Around(n, g.past_end + i - 1) = Around(n, h.start + (d + i) - 1)
        BY <1>2, <1>6, <1>7, <1>8, <3>2, <4>3 DEF Around
      <4> QED  BY <3>1, <4>1, <4>2, <4>4
    <3>3. CASE i > m
      <4>1. i - m \in 1..n - c /\ whole[i] = RestOf(h)[i - m]
        BY <1>2, <1>6, <1>8, <2>2, <3>3
      <4>2. RestOf(h)[i - m] = h.list[Around(n, h.past_end + (i - m) - 1)]
        BY <1>3, <4>1
      <4>3. Around(n, g.past_end + i - 1) = Around(n, h.past_end + (i - m) - 1)
        BY <1>2, <1>6, <1>7, <1>8, <3>3 DEF Around
      <4> QED  BY <3>1, <4>1, <4>2, <4>3
    <3>4. i \in Int /\ m \in Int
      BY <1>2, <1>8
    <3> QED  BY <3>2, <3>3, <3>4
  <2>4. Len(RestOf(g)) = n - d /\ RestOf(g) \in Seq(Cell)
    BY <1>4
  <2> QED  BY <2>2, <2>3, <2>4, SeqEqual DEF left, whole
<1> QED  BY <1>8, <1>9, <1>10 DEF g

(* Clearing forgets that there are entries: they come after what was ahead.      *)
LEMMA ClearedClears ==
    ASSUME NEW n \in Nat, NEW h \in Hists(n), h.start # -1,
           NEW g, g = [h EXCEPT !.start = -1]
    PROVE  /\ g \in Hists(n)
           /\ PastOf(h) # << >> /\ PastOf(g) = << >>
           /\ RestOf(g) = RestOf(h) \o PastOf(h)
<1> DEFINE c == get_hist_count(h)
<1>1. /\ g \in Hists(n) /\ g.start = -1 /\ g.list = h.list /\ g.past_end = h.past_end /\ g.size = n
      /\ h.start \in -1..n - 1 /\ h.past_end \in 0..(IF n = 0 THEN 0 ELSE n - 1)
  BY DEF Hists
<1>2. c \in 1..n /\ n # 0 /\ h.past_end = Around(n, h.start + c)
  BY CountFits
<1>3. Laid(n, PastOf(h), h.list, h.start, c) /\ Laid(n, RestOf(h), h.list, h.past_end, n - c)
  BY TapeOf
<1>4. get_hist_count(g) = 0
  BY <1>1 DEF get_hist_count
<1>5. PastOf(g) = << >> /\ Laid(n, RestOf(g), h.list, h.past_end, n)
  <2>1. Laid(n, RestOf(g), g.list, g.past_end, n - 0)
    BY <1>1, <1>4, TapeOf
  <2> QED  BY <1>1, <1>4, <2>1, NoCells DEF PastOf
<1> HIDE DEF c
<1> USE DEF Laid
<1>6. PastOf(h) # << >>
  BY <1>2, <1>3
<1> DEFINE whole == RestOf(h) \o PastOf(h)
<1>7. /\ whole \in Seq(Cell) /\ Len(whole) = n
      /\ \A i \in 1..n : whole[i] =
                            IF i <= n - c THEN RestOf(h)[i] ELSE PastOf(h)[i - (n - c)]
  <2>1. /\ Len(RestOf(h)) = n - c /\ Len(PastOf(h)) = c /\ (n - c) + c = n
        /\ RestOf(h) \in Seq(Cell) /\ PastOf(h) \in Seq(Cell)
    BY <1>2, <1>3
  <2>2. whole \in Seq(Cell) /\ Len(whole) = Len(RestOf(h)) + Len(PastOf(h))
    BY <2>1, ConcatProperties
  <2>3. \A i \in 1..Len(RestOf(h)) + Len(PastOf(h)) :
           whole[i] = IF i <= Len(RestOf(h)) THEN RestOf(h)[i] ELSE PastOf(h)[i - Len(RestOf(h))]
    BY <2>1, ConcatProperties
  <2> HIDE DEF whole
  <2> QED  BY <2>1, <2>2, <2>3
<1> HIDE DEF whole
<1>8. ASSUME NEW i \in 1..n
      PROVE  RestOf(g)[i] = whole[i]
  <2>1. RestOf(g)[i] = h.list[Around(n, h.past_end + i - 1)]
    BY <1>5
  <2>2. CASE i <= n - c
    <3>1. i \in 1..n - c
      BY <1>2, <2>2
    <3> QED  BY <1>3, <1>7, <2>1, <2>2, <3>1
  <2>3. CASE i > n - c
    <3>1. i - (n - c) \in 1..c /\ whole[i] = PastOf(h)[i - (n - c)]
      BY <1>2, <1>7, <2>3
    <3>2. PastOf(h)[i - (n - c)] = h.list[Around(n, h.start + (i - (n - c)) - 1)]
      BY <1>3, <3>1
    <3>3. Around(n, h.past_end + i - 1) = Around(n, h.start + (i - (n - c)) - 1)
      BY <1>1, <1>2, <2>3 DEF Around
    <3> QED  BY <2>1, <3>1, <3>2, <3>3
  <2>4. i \in Int /\ n - c \in Int
    BY <1>2
  <2> QED  BY <2>2, <2>3, <2>4
<1>9. RestOf(g) = RestOf(h) \o PastOf(h)
  <2>1. Len(RestOf(g)) = n /\ RestOf(g) \in Seq(Cell)
    BY <1>5
  <2> QED  BY <1>7, <1>8, <2>1, SeqEqual DEF whole
<1> QED  BY <1>1, <1>5, <1>6, <1>9

LEMMA PrefixIs ==
    ASSUME NEW S, NEW s \in Seq(S), NEW l \in Nat, l <= Len(s)
    PROVE  /\ SubSeq(s, 1, l) \in Seq(S) /\ Len(SubSeq(s, 1, l)) = l
           /\ \A i \in 1..l : SubSeq(s, 1, l)[i] = s[i]
  OBVIOUS

LEMMA BlankIs ==
    ASSUME NEW m \in Nat, NEW s \in Seq(Cell), Len(s) = m, \A i \in 1..m : s[i] = NoKey
    PROVE  s = [i \in 1..m |-> NoKey]
  OBVIOUS

(* A program begins with no entries, or with as many of the saved ones as fit.   *)
LEMMA EmptyIs ==
    ASSUME NEW n \in Nat
    PROVE  /\ Empty(n) \in Hists(n)
           /\ PastOf(Empty(n)) = << >> /\ RestOf(Empty(n)) = [m \in 1..n |-> NoKey]
<1> DEFINE h == Empty(n)
<1>1. /\ h \in Hists(n) /\ h.list = [m \in 0..n - 1 |-> NoKey]
      /\ h.start = -1 /\ h.past_end = 0 /\ h.size = n
  BY DEF Empty, Hists
<1>2. get_hist_count(h) = 0
  BY <1>1 DEF get_hist_count
<1>3. PastOf(h) = << >>
  BY <1>2, NoCells DEF PastOf
<1> HIDE DEF h
<1>4. Laid(n, RestOf(h), h.list, 0, n)
  <2>1. Laid(n, RestOf(h), h.list, h.past_end, n - 0)
    BY <1>1, <1>2, TapeOf
  <2> QED  BY <1>1, <2>1
<1>5. RestOf(h) = [m \in 1..n |-> NoKey]
  <2>1. RestOf(h) \in Seq(Cell) /\ Len(RestOf(h)) = n
    BY <1>4 DEF Laid
  <2>2. \A i \in 1..n : RestOf(h)[i] = NoKey
    BY <1>1, <1>4 DEF Laid
  <2> QED  BY <2>1, <2>2, BlankIs
<1> QED  BY <1>1, <1>3, <1>5 DEF h

LEMMA LoadedIs ==
    ASSUME NEW n \in Nat, NEW entries \in Seq(Key), NEW l, l = Min({Len(entries), n})
    PROVE  /\ l \in 0..n /\ l <= Len(entries)
           /\ Loaded(n, entries) \in Hists(n)
           /\ PastOf(Loaded(n, entries)) = SubSeq(entries, 1, l)
           /\ RestOf(Loaded(n, entries)) = [m \in 1..n - l |-> NoKey]
<1> DEFINE h == Loaded(n, entries)
<1>1. l \in 0..n /\ l <= Len(entries)
  BY MinOfTwo
<1>2. CASE l = 0
  <2>1. h = Empty(n)
    BY <1>2 DEF Loaded
  <2>2. SubSeq(entries, 1, 0) = << >> /\ n - 0 = n
    BY SubSeqEmpty
  <2> QED  BY <1>1, <1>2, <2>1, <2>2, EmptyIs
<1>3. CASE l # 0
  <2>1. l % n = IF l = n THEN 0 ELSE l
    <3>1. n \in Nat \ {0} /\ l \in 0..n + n - 1
      BY <1>1, <1>3
    <3>2. l % n = Around(n, l)
      BY <3>1, AroundOnce
    <3> QED  BY <1>1, <3>2 DEF Around
  <2> DEFINE cells == [m \in 0..n - 1 |-> IF m < l THEN entries[m + 1] ELSE NoKey]
  <2>2. /\ h.start = 0 /\ h.past_end = (IF l = n THEN 0 ELSE l) /\ h.size = n /\ h.list = cells
        /\ h \in Hists(n)
    <3>1. cells \in [0..n - 1 -> Key \cup {NoKey}]
      BY <1>1
    <3> HIDE DEF cells
    <3>2. h = [start |-> 0, past_end |-> IF l = n THEN 0 ELSE l, size |-> n, list |-> cells]
      <4>1. h = [Empty(n) EXCEPT !.start = 0, !.past_end = l % n, !.list = cells]
        BY <1>3 DEF Loaded, cells
      <4> QED  BY <2>1, <4>1 DEF Empty
    <3> QED  BY <1>1, <1>3, <3>1, <3>2 DEF Hists
  <2> HIDE DEF h
  <2>3. get_hist_count(h) = l
    BY <1>1, <1>3, <2>2 DEF get_hist_count
  <2>4. /\ \A m \in 0..l - 1 : h.list[m] = entries[m + 1]
        /\ \A m \in l..n - 1 : h.list[m] = NoKey
    <3>1. ASSUME NEW m \in 0..n - 1
          PROVE  h.list[m] = IF m < l THEN entries[m + 1] ELSE NoKey
      BY <2>2
    <3>2. ASSUME NEW m \in 0..l - 1
          PROVE  h.list[m] = entries[m + 1]
      <4>1. m \in 0..n - 1 /\ m < l
        BY <1>1
      <4> QED  BY <3>1, <4>1
    <3>3. ASSUME NEW m \in l..n - 1
          PROVE  h.list[m] = NoKey
      <4>1. m \in 0..n - 1 /\ ~(m < l)
        BY <1>1
      <4> QED  BY <3>1, <4>1
    <3> QED  BY <3>2, <3>3
  <2>5. Laid(n, PastOf(h), h.list, 0, l)
    BY <2>2, <2>3, TapeOf
  <2>6. Laid(n, RestOf(h), h.list, h.past_end, n - l)
    BY <2>2, <2>3, TapeOf
  <2>7. PastOf(h) = SubSeq(entries, 1, l)
    <3>1. /\ SubSeq(entries, 1, l) \in Seq(Cell) /\ Len(SubSeq(entries, 1, l)) = l
          /\ \A i \in 1..l : SubSeq(entries, 1, l)[i] = entries[i]
      <4>1. entries \in Seq(Cell) /\ Len(entries) \in Nat
        BY SeqMonotonic DEF Cell
      <4>2. l \in Nat /\ l <= Len(entries)
        BY <1>1
      <4>3. SubSeq(entries, 1, l) \in Seq(Cell) /\ Len(SubSeq(entries, 1, l)) = l
        BY <4>1, <4>2, PrefixIs
      <4>4. \A i \in 1..l : SubSeq(entries, 1, l)[i] = entries[i]
        BY <4>1, <4>2, PrefixIs
      <4> QED  BY <4>3, <4>4
    <3>2. ASSUME NEW i \in 1..l
          PROVE  PastOf(h)[i] = entries[i]
      <4>1. Around(n, 0 + i - 1) = i - 1 /\ i - 1 \in 0..l - 1
        BY <1>1 DEF Around
      <4>2. PastOf(h)[i] = h.list[i - 1]
        BY <2>5, <4>1 DEF Laid
      <4>3. h.list[i - 1] = entries[(i - 1) + 1] /\ (i - 1) + 1 = i
        <5>1. \A m \in 0..l - 1 : h.list[m] = entries[m + 1]
          BY <2>4
        <5>2. h.list[i - 1] = entries[(i - 1) + 1]
          BY <4>1, <5>1
        <5>3. (i - 1) + 1 = i
          BY <1>1
        <5> QED  BY <5>2, <5>3
      <4> QED  BY <4>2, <4>3
    <3>3. PastOf(h) \in Seq(Cell) /\ Len(PastOf(h)) = l
      BY <2>5 DEF Laid
    <3> QED  BY <3>1, <3>2, <3>3, SeqEqual
  <2>8. RestOf(h) = [m \in 1..n - l |-> NoKey]
    <3>1. ASSUME NEW i \in 1..n - l
          PROVE  RestOf(h)[i] = NoKey
      <4>1. Around(n, h.past_end + i - 1) \in l..n - 1
        BY <1>1, <2>2 DEF Around
      <4> QED  BY <2>4, <2>6, <4>1 DEF Laid
    <3>2. RestOf(h) \in Seq(Cell) /\ Len(RestOf(h)) = n - l /\ n - l \in Nat
      BY <1>1, <2>6 DEF Laid
    <3> QED  BY <3>1, <3>2, BlankIs
  <2> QED  BY <1>1, <2>2, <2>7, <2>8 DEF h
<1> QED  BY <1>2, <1>3

-----------------------------------------------------------------------------
(***************************************************************************)
(* The inductive invariant.  TypeOK and ShownIsListed need to know that    *)
(* every entry, unlike the cells beyond them, is a key, and that a screen  *)
(* that is up shows a record of the database.                              *)
(***************************************************************************)
EntriesAreKeys == Past \in Seq(Key)
ScreenShowsRecord == at # "other" => shown \in stored

IInv == TypeOK /\ EntriesAreKeys /\ ScreenShowsRecord /\ ShownIsListed

LEMMA PastIs ==
    /\ Past = PastOf(histp) /\ Rest = RestOf(histp)
    /\ Past' = PastOf(histp') /\ Rest' = RestOf(histp')
  BY DEF Past, Rest, PastOf, RestOf, Cells, get_hist_count

LEMMA SizeIsNat ==
    ASSUME NEW o \in Options
    PROVE  o.HistorySize \in Nat /\ o.HistoryBounceSuppress \in Int
<1>1. MaxHistorySize \in Nat
  BY DEF MaxHistorySize
<1>2. o.HistorySize \in 0..MaxHistorySize /\ o.HistoryBounceSuppress \in Int
  BY HistoryAssumption
<1> QED  BY <1>1, <1>2

(* What history_record does, for a record of the database: it is among the       *)
(* entries afterwards.                                                           *)
LEMMA RecordIs ==
    ASSUME NEW n \in Nat, NEW h \in Hists(n), NEW k \in Key, options \in Options
    PROVE  /\ \/ history_record(h, k) = h
              \/ n # 0 /\ history_record(h, k) = Pushed(h, k)
           /\ n # 0 => \E i \in DOMAIN PastOf(history_record(h, k)) :
                          PastOf(history_record(h, k))[i] = k
<1> DEFINE c == get_hist_count(h)
           protect == Protect(h, options.HistoryBounceSuppress)
<1>1. /\ h.size = n /\ h.start \in -1..n - 1 /\ h.past_end \in 0..(IF n = 0 THEN 0 ELSE n - 1)
  BY DEF Hists
<1>2. \/ history_record(h, k) = h /\ (n # 0 => h.start # -1 /\ k \in Recent(h, protect))
      \/ n # 0 /\ history_record(h, k) = Pushed(h, k)
  BY <1>1 DEF history_record
<1>3. CASE history_record(h, k) = h /\ n # 0 /\ h.start # -1 /\ k \in Recent(h, protect)
  <2>1. c \in 1..n /\ h.past_end = Around(n, h.start + c)
    BY <1>3, CountFits
  <2>2. protect \in Nat /\ protect <= c
    <3> DEFINE wanted == options.HistoryBounceSuppress
               w == IF wanted < 1 \/ wanted > 99 THEN 1 ELSE wanted
    <3>1. w \in Nat
      <4>1. wanted \in Int
        BY SizeIsNat
      <4> QED  BY <4>1
    <3>2. protect = Min({w, c})
      BY DEF Protect
    <3> HIDE DEF w, protect, c
    <3>3. Min({w, c}) = IF w <= c THEN w ELSE c
      BY <2>1, <3>1, MinOfTwo
    <3> QED  BY <2>1, <3>1, <3>2, <3>3
  <2>3. PICK j \in 1..protect : k = h.list[(h.past_end + n - j) % n]
    BY <1>1, <1>3 DEF Recent
  <2> HIDE DEF protect, c
  <2>4. (h.past_end + n - j) % n = Around(n, h.past_end + n - j)
    <3>1. h.past_end + n - j \in 0..n + n - 1 /\ n \in Nat \ {0}
      BY <1>1, <1>3, <2>1, <2>2
    <3> QED  BY <3>1, AroundOnce
  <2>5. c - j + 1 \in 1..c
    BY <2>1, <2>2
  <2>6. Around(n, h.start + (c - j + 1) - 1) = Around(n, h.past_end + n - j)
    BY <1>1, <1>3, <2>1, <2>2 DEF Around
  <2>7. Laid(n, PastOf(h), h.list, h.start, c)
    BY TapeOf DEF c
  <2>8. c - j + 1 \in DOMAIN PastOf(h) /\ PastOf(h)[c - j + 1] = k
    BY <2>1, <2>3, <2>4, <2>5, <2>6, <2>7 DEF Laid
  <2> QED  BY <1>3, <2>8
<1>4. CASE n # 0 /\ history_record(h, k) = Pushed(h, k)
  <2>1. PICK past \in Seq(Cell) : PastOf(Pushed(h, k)) = Append(past, k)
    <3>1. PastOf(h) \in Seq(Cell)
      BY TapeOf DEF Laid
    <3>2. PastOf(h) # << >> => Tail(PastOf(h)) \in Seq(Cell)
      BY <3>1
    <3> QED  BY <1>4, <3>1, <3>2, PushedVisits
  <2>2. Len(past) + 1 \in DOMAIN Append(past, k) /\ Append(past, k)[Len(past) + 1] = k
    OBVIOUS
  <2> QED  BY <1>4, <2>1, <2>2
<1> QED  BY <1>2, <1>3, <1>4

LEMMA RecordKeepsEntries ==
    ASSUME IInv, NEW k \in Key, options' = options, histp' = history_record(histp, k)
    PROVE  histp' \in Hists(options'.HistorySize) /\ EntriesAreKeys'
<1> DEFINE n == options.HistorySize
<1>1. n \in Nat /\ histp \in Hists(n) /\ options \in Options /\ PastOf(histp) \in Seq(Key)
  BY SizeIsNat, PastIs DEF IInv, TypeOK, EntriesAreKeys
<1>2. \/ histp' = histp
      \/ n # 0 /\ histp' = Pushed(histp, k)
  BY <1>1, RecordIs
<1>3. CASE histp' = histp
  BY <1>1, <1>3, PastIs DEF EntriesAreKeys
<1>4. CASE n # 0 /\ histp' = Pushed(histp, k)
  <2>1. histp' \in Hists(n)
    <3>1. n \in Nat \ {0}
      BY <1>1, <1>4
    <3>2. Pushed(histp, k) \in Hists(n)
      BY <1>1, <3>1, PushedIs
    <3> QED  BY <1>4, <3>2
  <2>2. PICK past \in Seq(Key) : PastOf(Pushed(histp, k)) = Append(past, k)
    <3>1. PastOf(histp) # << >> => Tail(PastOf(histp)) \in Seq(Key)
      BY <1>1
    <3> QED  BY <1>1, <1>4, <3>1, PushedVisits
  <2>3. Append(past, k) \in Seq(Key)
    OBVIOUS
  <2> QED  BY <1>4, <2>1, <2>2, <2>3, PastIs DEF EntriesAreKeys
<1> QED  BY <1>2, <1>3, <1>4

(* A step that moves neither the entries nor a screen to or from its command.    *)
LEMMA SameEntries ==
    ASSUME IInv, histp' = histp, options' = options
    PROVE  histp' \in Hists(options'.HistorySize) /\ EntriesAreKeys'
  BY PastIs DEF IInv, TypeOK, EntriesAreKeys

LEMMA InitHolds == ASSUME Init PROVE IInv
<1> DEFINE n == options.HistorySize
<1>1. n \in Nat /\ histp = Empty(n) /\ options \in Options
  BY SizeIsNat DEF Init
<1>2. histp \in Hists(n) /\ Past = << >>
  BY <1>1, EmptyIs, PastIs
<1>3. << >> \in Seq(Key)
  OBVIOUS
<1> QED  BY <1>1, <1>2, <1>3 DEF Init, IInv, TypeOK, EntriesAreKeys, ScreenShowsRecord, ShownIsListed

(* The top of the loop puts the record of the screen among the entries.          *)
LEMMA TopKeeps == ASSUME IInv, Top PROVE IInv'
<1> DEFINE n == options.HistorySize
<1>1. /\ shown \in stored /\ stored \subseteq Key /\ options \in Options
      /\ n \in Nat /\ histp \in Hists(n)
  BY SizeIsNat DEF IInv, TypeOK, ScreenShowsRecord, Top
<1>2. histp' \in Hists(options'.HistorySize) /\ EntriesAreKeys'
  <2>1. CASE which = "visited"
    BY <1>1, <2>1, RecordKeepsEntries DEF Top
  <2>2. CASE which # "visited"
    BY <2>2, SameEntries DEF Top
  <2> QED  BY <2>1, <2>2
<1>3. TypeOK' /\ ScreenShowsRecord'
  BY <1>1, <1>2 DEF IInv, TypeOK, ScreenShowsRecord, Top
<1>4. ShownIsListed'
  <2> SUFFICES ASSUME which = "visited", n > 0
               PROVE  shown' \in Listing(histp)' /\ ~dead'
    BY DEF ShownIsListed, Top
  <2>1. \E i \in DOMAIN PastOf(histp') : PastOf(histp')[i] = shown
    BY <1>1, RecordIs DEF Top
  <2>2. ~dead' /\ shown' = shown /\ stored' = stored
    BY DEF Top, Alive
  <2>3. Listing(histp)' = { PastOf(histp')[i] : i \in DOMAIN PastOf(histp') } \cap stored'
    BY DEF Listing, ToSet, PastOf, Cells, get_hist_count
  <2> QED  BY <1>1, <2>1, <2>2, <2>3
<1> QED  BY <1>2, <1>3, <1>4 DEF IInv

(* Choosing a record, or the same one again, as Screen does.                     *)
LEMMA ScreenKeeps ==
    ASSUME IInv, Alive, NEW k \in stored, Screen(k),
           histp' \in Hists(options.HistorySize), EntriesAreKeys'
    PROVE  IInv'
  BY DEF IInv, TypeOK, EntriesAreKeys, ScreenShowsRecord, ShownIsListed, Screen, Alive

LEMMA HistoryBackKeeps == ASSUME IInv, HistoryBack PROVE IInv'
<1> DEFINE n == options.HistorySize
<1>1. shown \in stored /\ n \in Nat /\ histp \in Hists(n) /\ PastOf(histp) \in Seq(Key) /\ Alive
  BY SizeIsNat, PastIs DEF IInv, TypeOK, EntriesAreKeys, ScreenShowsRecord, HistoryBack
<1>2. CASE histp' = BackTo(histp) /\ Behind(histp) # {} /\ Screen(Latest(histp'))
  <2>1. histp' \in Hists(n) /\ Latest(histp') \in stored
    BY <1>1, <1>2, BackToIs
  <2>2. PICK l \in 1..Len(PastOf(histp)) - 1 : PastOf(histp') = SubSeq(PastOf(histp), 1, l)
    BY <1>1, <1>2, BackToGoesBack
  <2>3. l \in Nat /\ l <= Len(PastOf(histp))
    BY <1>1
  <2>4. SubSeq(PastOf(histp), 1, l) \in Seq(Key)
    BY <1>1, <2>3, PrefixIs
  <2>5. EntriesAreKeys'
    BY <2>2, <2>4, PastIs DEF EntriesAreKeys
  <2> QED  BY <1>1, <1>2, <2>1, <2>5, ScreenKeeps
<1>3. CASE histp' = histp /\ Screen(shown)
  BY <1>1, <1>3, SameEntries, ScreenKeeps DEF Screen
<1> QED  BY <1>2, <1>3 DEF HistoryBack

LEMMA HistoryFwdKeeps == ASSUME IInv, HistoryFwd PROVE IInv'
<1>1. shown \in stored /\ Alive
  BY DEF IInv, ScreenShowsRecord, HistoryFwd
<1>2. Ahead(histp) # NoKey => Ahead(histp) \in stored
  BY DEF Ahead
<1>3. PICK k \in stored : Screen(k)
  BY <1>1, <1>2 DEF HistoryFwd
<1> QED  BY <1>1, <1>3, SameEntries, ScreenKeeps DEF HistoryFwd, Screen

LEMMA BrowseKeeps == ASSUME IInv, NEW k \in Key, Browse(k) PROVE IInv'
  BY SameEntries, ScreenKeeps DEF Browse, Screen

(* Where a screen waits for a command its record is in the list, so that the     *)
(* list is not empty.                                                            *)
LEMMA DieKeeps ==
    ASSUME IInv, Die, at \in {"ask", "other"}, Listing(histp) = {}
    PROVE  IInv'
<1>1. at = "ask" /\ which = "visited" => options.HistorySize = 0
  <2>1. options.HistorySize \in Nat
    BY SizeIsNat DEF IInv, TypeOK
  <2> QED  BY <2>1 DEF IInv, ShownIsListed
<1>2. histp' \in Hists(options'.HistorySize) /\ EntriesAreKeys'
  BY SameEntries DEF Die
<1>3. TypeOK' /\ ScreenShowsRecord'
  BY <1>2 DEF IInv, TypeOK, ScreenShowsRecord, Die
<1>4. ShownIsListed'
  BY <1>1 DEF ShownIsListed, Die
<1> QED  BY <1>2, <1>3, <1>4 DEF IInv

LEMMA HistoryListKeeps == ASSUME IInv, HistoryList PROVE IInv'
<1>1. CASE Listing(histp) = {} /\ Die
  BY <1>1, DieKeeps DEF HistoryList
<1>2. CASE \E k \in Listing(histp) : Screen(k) /\ UNCHANGED histp
  <2>1. PICK k \in stored : Screen(k) /\ UNCHANGED histp
    BY <1>2 DEF Listing
  <2> QED  BY <2>1, SameEntries, ScreenKeeps DEF HistoryList, Screen
<1> QED  BY <1>1, <1>2 DEF HistoryList

LEMMA SearchKeeps == ASSUME IInv, Search PROVE IInv'
<1>1. at \in {"ask", "other"}
  BY DEF IInv, TypeOK, Search
<1> QED  BY <1>1, DieKeeps DEF Search

LEMMA ClearHistoryKeeps == ASSUME IInv, ClearHistory PROVE IInv'
<1>1. shown \in stored /\ Alive /\ histp \in Hists(options.HistorySize) /\ options.HistorySize \in Nat
  BY SizeIsNat DEF IInv, TypeOK, ScreenShowsRecord, ClearHistory
<1>2. histp' \in Hists(options.HistorySize) /\ PastOf(histp') = << >>
  BY <1>1, ClearedClears DEF ClearHistory, HasEntries
<1>3. EntriesAreKeys'
  <2>1. << >> \in Seq(Key)
    OBVIOUS
  <2> QED  BY <1>2, <2>1, PastIs DEF EntriesAreKeys
<1> QED  BY <1>1, <1>2, <1>3, ScreenKeeps DEF ClearHistory

LEMMA LeaveKeeps == ASSUME IInv, Leave PROVE IInv'
<1>1. histp' \in Hists(options'.HistorySize) /\ EntriesAreKeys'
  BY SameEntries DEF Leave
<1> QED  BY <1>1 DEF IInv, TypeOK, ScreenShowsRecord, ShownIsListed, Leave

LEMMA EditIndiKeeps == ASSUME IInv, NEW k \in Key, EditIndi(k) PROVE IInv'
<1>1. histp' \in Hists(options'.HistorySize) /\ EntriesAreKeys'
  <2>1. CASE which = "changed"
    BY <2>1, RecordKeepsEntries DEF EditIndi
  <2>2. CASE which # "changed"
    BY <2>2, SameEntries DEF EditIndi
  <2> QED  BY <2>1, <2>2
<1> QED  BY <1>1 DEF IInv, TypeOK, ScreenShowsRecord, ShownIsListed, EditIndi, Alive

LEMMA DeleteKeeps == ASSUME IInv, NEW k \in Key, Delete(k) PROVE IInv'
<1>1. histp' \in Hists(options'.HistorySize) /\ EntriesAreKeys'
  BY SameEntries DEF Delete
<1> QED  BY <1>1 DEF IInv, TypeOK, ScreenShowsRecord, ShownIsListed, Delete

LEMMA CreateKeeps == ASSUME IInv, NEW k \in Key, Create(k) PROVE IInv'
<1>1. histp' \in Hists(options'.HistorySize) /\ EntriesAreKeys'
  BY SameEntries DEF Create
<1>2. TypeOK' /\ ScreenShowsRecord'
  BY <1>1 DEF IInv, TypeOK, ScreenShowsRecord, Create
<1>3. Listing(histp) \subseteq Listing(histp)'
  BY DEF Listing, ToSet, Cells, get_hist_count, Create
<1>4. ShownIsListed'
  BY <1>3 DEF IInv, ShownIsListed, Create, Alive
<1> QED  BY <1>1, <1>2, <1>4 DEF IInv

(* Another program begins, with the saved entries or without them.               *)
LEMMA StartKeeps ==
    ASSUME IInv, NEW o \in Options, saved' \in Seq(Key), Start(saved', o)
    PROVE  IInv'
<1>1. o.HistorySize \in Nat
  BY SizeIsNat
<1>2. << >> \in Seq(Key) /\ \A l \in Nat : l <= Len(saved') => SubSeq(saved', 1, l) \in Seq(Key)
  BY PrefixIs
<1>3. histp' \in Hists(o.HistorySize) /\ PastOf(histp') \in Seq(Key)
  <2>1. CASE o.SaveHistory
    <3>1. histp' = Loaded(o.HistorySize, saved')
      BY <2>1 DEF Start
    <3> DEFINE l == Min({Len(saved'), o.HistorySize})
    <3>2. /\ l \in 0..o.HistorySize /\ l <= Len(saved')
          /\ histp' \in Hists(o.HistorySize) /\ PastOf(histp') = SubSeq(saved', 1, l)
      BY <1>1, <3>1, LoadedIs
    <3> HIDE DEF l
    <3> QED  BY <1>1, <1>2, <3>2
  <2>2. CASE ~o.SaveHistory
    BY <1>1, <1>2, <2>2, EmptyIs DEF Start
  <2> QED  BY <2>1, <2>2
<1>4. EntriesAreKeys'
  BY <1>3, PastIs DEF EntriesAreKeys
<1> QED  BY <1>3, <1>4 DEF IInv, TypeOK, ScreenShowsRecord, ShownIsListed, Start

LEMMA SavedIs == ASSUME IInv, Quit PROVE saved' \in {saved, Past} /\ saved' \in Seq(Key)
  BY PastIs DEF IInv, TypeOK, EntriesAreKeys, Quit, SavedList, PastOf

LEMMA QuitKeeps == ASSUME IInv, Quit PROVE IInv'
<1>1. PICK o \in Options : Start(saved', o)
  BY DEF Quit
<1> QED  BY <1>1, SavedIs, StartKeeps

LEMMA CrashKeeps == ASSUME IInv, Crash PROVE IInv'
<1>1. saved' = saved /\ saved \in Seq(Key)
  BY DEF IInv, TypeOK, Crash
<1>2. PICK o \in Options : Start(saved, o)
  BY DEF Crash
<1>3. Start(saved', o)
  BY <1>1, <1>2 DEF Start
<1> QED  BY <1>1, <1>3, StartKeeps

(* The inductive invariant holds in every state of the program.                  *)
THEOREM Invariance == Spec => []IInv
<1>1. Init => IInv
  BY InitHolds
<1>2. IInv /\ [Next]_vars => IInv'
  <2> SUFFICES ASSUME IInv, [Next]_vars
               PROVE  IInv'
    OBVIOUS
  <2>1. CASE Top  BY <2>1, TopKeeps
  <2>2. CASE Leave  BY <2>2, LeaveKeeps
  <2>3. CASE HistoryBack  BY <2>3, HistoryBackKeeps
  <2>4. CASE HistoryFwd  BY <2>4, HistoryFwdKeeps
  <2>5. CASE HistoryList  BY <2>5, HistoryListKeeps
  <2>6. CASE Search  BY <2>6, SearchKeeps
  <2>7. CASE ClearHistory  BY <2>7, ClearHistoryKeeps
  <2>8. ASSUME NEW k \in Key, Browse(k) \/ EditIndi(k) \/ Delete(k) \/ Create(k)
        PROVE  IInv'
    BY <2>8, BrowseKeeps, EditIndiKeeps, DeleteKeeps, CreateKeeps
  <2>9. CASE Quit  BY <2>9, QuitKeeps
  <2>10. CASE Crash  BY <2>10, CrashKeeps
  <2>11. CASE UNCHANGED vars
    <3>1. histp' \in Hists(options'.HistorySize) /\ EntriesAreKeys'
      BY <2>11, SameEntries DEF vars
    <3>2. Listing(histp)' = Listing(histp)
      BY <2>11 DEF vars, Listing, ToSet, Cells, get_hist_count
    <3> QED  BY <2>11, <3>1, <3>2 DEF vars, IInv, TypeOK, ScreenShowsRecord, ShownIsListed
  <2> QED
    BY <2>1, <2>2, <2>3, <2>4, <2>5, <2>6, <2>7, <2>8, <2>9, <2>10, <2>11 DEF Next
<1> QED  BY <1>1, <1>2, PTL DEF Spec

(* The indices of a buffer of any size stay in the ranges that the comment on    *)
(* struct hist gives, and its cells hold keys or nothing.                        *)
THEOREM TypeCorrect == Spec => []TypeOK
<1>1. IInv => TypeOK
  BY DEF IInv
<1> QED  BY Invariance, <1>1, PTL

(* While a screen waits for a command its record is in the list of the visited   *)
(* ones: with any number of records, sizes and suppressions, choosing from that  *)
(* list there never meets the assertion of get_indiseq_ival.                     *)
THEOREM ListedWhileShown == Spec => []ShownIsListed
<1>1. IInv => ShownIsListed
  BY DEF IInv
<1> QED  BY Invariance, <1>1, PTL

-----------------------------------------------------------------------------
(* The refinement: every step of the buffer is a step of the tape, or none.      *)
TapeStep == [Tape!Next]_<<Past, Rest, saved>>

LEMMA SameTape ==
    ASSUME histp' = histp, saved' = saved
    PROVE  TapeStep
  BY PastIs DEF TapeStep

LEMMA RecordSteps ==
    ASSUME IInv, NEW k \in Key, histp' = history_record(histp, k), saved' = saved
    PROVE  TapeStep
<1> DEFINE n == options.HistorySize
<1>1. n \in Nat /\ histp \in Hists(n) /\ options \in Options
  BY SizeIsNat DEF IInv, TypeOK
<1>2. \/ histp' = histp
      \/ n # 0 /\ histp' = Pushed(histp, k)
  BY <1>1, RecordIs
<1>3. CASE n # 0 /\ histp' = Pushed(histp, k)
  <2>1. n \in Nat \ {0}
    BY <1>1, <1>3
  <2>2. \/ Rest # << >> /\ Past' = Append(Past, k) /\ Rest' = Tail(Rest)
        \/ Rest = << >> /\ Past # << >> /\ Past' = Append(Tail(Past), k) /\ Rest' = Rest
    BY <1>1, <1>3, <2>1, PushedVisits, PastIs
  <2>3. Tape!Visit(k)
    BY <2>2 DEF Tape!Visit
  <2> QED  BY <2>3 DEF TapeStep, Tape!Next
<1> QED  BY <1>2, <1>3, SameTape

LEMMA HistoryBackSteps == ASSUME IInv, HistoryBack PROVE TapeStep
<1> DEFINE n == options.HistorySize
<1>1. n \in Nat /\ histp \in Hists(n) /\ saved' = saved
  BY SizeIsNat DEF IInv, TypeOK, HistoryBack, Screen
<1>2. CASE histp' = BackTo(histp) /\ Behind(histp) # {}
  <2>1. PICK l \in 1..Len(Past) - 1 :
              /\ Past' = SubSeq(Past, 1, l)
              /\ Rest' = SubSeq(Past, l + 1, Len(Past)) \o Rest
    BY <1>1, <1>2, BackToGoesBack, PastIs
  <2>2. Tape!Back
    BY <1>1, <2>1 DEF Tape!Back
  <2> QED  BY <2>2 DEF TapeStep, Tape!Next
<1>3. CASE histp' = histp
  BY <1>1, <1>3, SameTape
<1> QED  BY <1>2, <1>3 DEF HistoryBack

LEMMA ClearHistorySteps == ASSUME IInv, ClearHistory PROVE TapeStep
<1>1. /\ options.HistorySize \in Nat /\ histp \in Hists(options.HistorySize)
      /\ histp' = [histp EXCEPT !.start = -1] /\ histp.start # -1 /\ saved' = saved
  BY SizeIsNat DEF IInv, TypeOK, ClearHistory, HasEntries, Screen
<1>2. Past # << >> /\ Past' = << >> /\ Rest' = Rest \o Past
  BY <1>1, ClearedClears, PastIs
<1>3. Tape!Clear
  BY <1>1, <1>2 DEF Tape!Clear
<1> QED  BY <1>3 DEF TapeStep, Tape!Next

LEMMA StartSteps ==
    ASSUME IInv, NEW o \in Options, saved' \in {saved, Past}, saved' \in Seq(Key), Start(saved', o)
    PROVE  TapeStep
<1> DEFINE n == o.HistorySize
<1>1. n \in Nat
  BY SizeIsNat
<1>2. Tape!Fresh(n, saved') \/ Tape!Fresh(n, << >>)
  <2>1. CASE o.SaveHistory
    <3>1. histp' = Loaded(n, saved')
      BY <2>1 DEF Start
    <3> DEFINE l == Min({Len(saved'), n})
    <3>2. /\ l \in 0..n /\ l <= Len(saved')
          /\ Past' = SubSeq(saved', 1, l) /\ Rest' = [m \in 1..n - l |-> NoKey]
      BY <1>1, <3>1, LoadedIs, PastIs
    <3>3. l = Tape!Min({n, Len(saved')})
      <4>1. {n, Len(saved')} = {Len(saved'), n}
        OBVIOUS
      <4> QED  BY <4>1 DEF Min, Tape!Min
    <3> HIDE DEF l
    <3>4. Len(SubSeq(saved', 1, l)) = l
      <4>1. l \in Nat
        BY <1>1, <3>2
      <4> QED  BY <3>2, <4>1, PrefixIs
    <3>5. Tape!Fresh(n, saved')
      BY <3>2, <3>3, <3>4 DEF Tape!Fresh, Tape!Blank
    <3> QED  BY <3>5
  <2>2. CASE ~o.SaveHistory
    <3>1. Past' = << >> /\ Rest' = [m \in 1..n |-> NoKey]
      BY <1>1, <2>2, EmptyIs, PastIs DEF Start
    <3>2. Tape!Min({n, Len(<< >>)}) = 0
      <4>1. Min({n, 0}) = 0
        BY <1>1, MinOfTwo
      <4> QED  BY <4>1 DEF Min, Tape!Min
    <3>3. SubSeq(<< >>, 1, 0) = << >> /\ Len(<< >>) = 0 /\ n - 0 = n
      BY <1>1, SubSeqEmpty
    <3>4. Tape!Fresh(n, << >>)
      BY <3>1, <3>2, <3>3 DEF Tape!Fresh, Tape!Blank
    <3> QED  BY <3>4
  <2> QED  BY <2>1, <2>2
<1>3. Tape!Restart
  BY <1>2 DEF Tape!Restart
<1> QED  BY <1>3 DEF TapeStep, Tape!Next

LEMMA EveryStep == ASSUME IInv, [Next]_vars PROVE TapeStep
<1>1. CASE Top
  <2>1. shown \in Key /\ saved' = saved
    BY <1>1 DEF Top, IInv, TypeOK, ScreenShowsRecord
  <2> QED  BY <1>1, <2>1, RecordSteps, SameTape DEF Top
<1>2. CASE HistoryBack
  BY <1>2, HistoryBackSteps
<1>3. CASE ClearHistory
  BY <1>3, ClearHistorySteps
<1>4. ASSUME NEW k \in Key, EditIndi(k)
      PROVE  TapeStep
  BY <1>4, RecordSteps, SameTape DEF EditIndi
<1>5. CASE Quit
  <2>1. PICK o \in Options : Start(saved', o)
    BY <1>5 DEF Quit
  <2> QED  BY <1>5, <2>1, SavedIs, StartSteps
<1>6. CASE Crash
  <2>1. saved' = saved /\ saved \in Seq(Key)
    BY <1>6 DEF IInv, TypeOK, Crash
  <2>2. PICK o \in Options : Start(saved, o)
    BY <1>6 DEF Crash
  <2>3. Start(saved', o)
    BY <2>1, <2>2 DEF Start
  <2> QED  BY <2>1, <2>3, StartSteps
<1>7. CASE Leave \/ HistoryFwd \/ HistoryList \/ Search
  BY <1>7, SameTape DEF Leave, HistoryFwd, HistoryList, Search, Screen, Die
<1>8. ASSUME NEW k \in Key, Browse(k) \/ Delete(k) \/ Create(k)
      PROVE  TapeStep
  BY <1>8, SameTape DEF Browse, Delete, Create, Screen
<1>9. CASE UNCHANGED vars
  BY <1>9, SameTape DEF vars
<1> QED  BY <1>1, <1>2, <1>3, <1>4, <1>5, <1>6, <1>7, <1>8, <1>9 DEF Next

(* The circular buffer is the tape: for buffers of any size, from program to     *)
(* program, recording, going back over deleted records, clearing, saving and     *)
(* loading lose and swap no entry that the tape keeps.                           *)
THEOREM HistoryIsTrail == Spec => ImplementsTrail
<1>1. Init => Tape!Init
  <2> SUFFICES ASSUME Init
               PROVE  Tape!Init
    OBVIOUS
  <2>1. options \in Options /\ options.HistorySize \in Nat /\ histp = Empty(options.HistorySize)
    BY SizeIsNat DEF Init
  <2>2. Past = << >> /\ Rest = Tape!Blank(options.HistorySize) /\ saved = << >>
    BY <2>1, EmptyIs, PastIs DEF Init, Tape!Blank
  <2> QED  BY <2>1, <2>2 DEF Tape!Init
<1>2. IInv /\ [Next]_vars => [Tape!Next]_<<Past, Rest, saved>>
  BY EveryStep DEF TapeStep
<1> QED  BY Invariance, <1>1, <1>2, PTL DEF Spec, ImplementsTrail, Tape!Spec
=============================================================================
