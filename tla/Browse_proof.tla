----------------------------- MODULE Browse_proof ------------------------------
(* Proofs about Browse: every record object is counted exactly the references    *)
(* that its element, the screens and the forgotten handles make, and a screen    *)
(* shows living records of its type, for any records, caches and commands.       *)
EXTENDS Browse, RecordCache_proof, TLAPS

(***************************************************************************)
(* The count of the handles.  A step of a screen has never more than four  *)
(* at once, some of them none; the forgotten ones, of a set of records,    *)
(* come to them.                                                           *)
(***************************************************************************)
Handle == Rec \cup {NoRec}

Out(a, b, d, e, forgotten) ==
    [r \in Rec |-> Bit(a = r) + Bit(b = r) + Bit(d = r) + Bit(e = r) + Bit(r \in forgotten)]

LEMMA OutIs ==
    ASSUME NEW a, NEW b, NEW d, NEW e, NEW L
    PROVE  /\ Out(a, b, d, e, L) \in [Rec -> Nat]
           /\ \A r \in Rec : Out(a, b, d, e, L)[r] =
                 Bit(a = r) + Bit(b = r) + Bit(d = r) + Bit(e = r) + Bit(r \in L)
BY DEF Out, Bit

(* Handles count the same in any order.                                      *)
LEMMA OutSwaps ==
    ASSUME NEW a, NEW b, NEW d, NEW e, NEW L
    PROVE  /\ Out(b, a, d, e, L) = Out(a, b, d, e, L)
           /\ Out(d, b, a, e, L) = Out(a, b, d, e, L)
           /\ Out(e, b, d, a, L) = Out(a, b, d, e, L)
<1>1. \A x, y, z, w : Out(x, y, z, w, L) =
         [r \in Rec |-> Bit(x = r) + Bit(y = r) + Bit(z = r) + Bit(w = r) + Bit(r \in L)]
  BY DEF Out
<1>2. \A r : Bit(a = r) \in Nat /\ Bit(b = r) \in Nat /\ Bit(d = r) \in Nat /\ Bit(e = r) \in Nat
             /\ Bit(r \in L) \in Nat
  BY DEF Bit
<1> QED  BY <1>1, <1>2

LEMMA OutMore ==
    ASSUME NEW a, NEW b, NEW d, NEW r \in Rec, NEW L
    PROVE  Out(a, b, d, r, L) = More(Out(a, b, d, NoRec, L), r)
<1> DEFINE o == Out(a, b, d, NoRec, L)
           p == Out(a, b, d, r, L)
<1>1. o \in [Rec -> Nat] /\ p \in [Rec -> Nat]
  BY OutIs
<1>2. \A q \in Rec : o[q] = Bit(a = q) + Bit(b = q) + Bit(d = q) + Bit(NoRec = q) + Bit(q \in L)
  BY OutIs
<1>3. \A q \in Rec : p[q] = Bit(a = q) + Bit(b = q) + Bit(d = q) + Bit(r = q) + Bit(q \in L)
  BY OutIs
<1>4. \A q : Bit(a = q) \in Nat /\ Bit(b = q) \in Nat /\ Bit(d = q) \in Nat /\ Bit(q \in L) \in Nat
  BY DEF Bit
<1>5. \A q \in Rec : Bit(NoRec = q) = 0 /\ Bit(r = q) = IF r = q THEN 1 ELSE 0
  BY Constants DEF Bit
<1> HIDE DEF o, p
<1>6. \A q \in Rec : p[q] = IF q = r THEN o[q] + 1 ELSE o[q]
  BY <1>2, <1>3, <1>4, <1>5
<1>7. p = [o EXCEPT ![r] = @ + 1]
  BY <1>1, <1>6
<1> QED  BY <1>7 DEF More, o, p

LEMMA OutLess ==
    ASSUME NEW a \in Rec, NEW b, NEW d, NEW e, NEW L
    PROVE  Out(a, b, d, e, L)[a] > 0 /\ Less(Out(a, b, d, e, L), a) = Out(NoRec, b, d, e, L)
<1>1. Out(a, b, d, e, L) = Out(e, b, d, a, L) /\ Out(e, b, d, NoRec, L) = Out(NoRec, b, d, e, L)
  BY OutSwaps
<1>2. Out(e, b, d, a, L) = More(Out(e, b, d, NoRec, L), a) /\ Out(e, b, d, NoRec, L) \in [Rec -> Nat]
  BY OutMore, OutIs
<1> QED  BY <1>1, <1>2, MoreLess

(* A handle that is forgotten goes on counting.                              *)
LEMMA OutLeak ==
    ASSUME NEW a \in Rec, NEW b, NEW d, NEW e, NEW L, a \notin L
    PROVE  Out(a, b, d, e, L) = Out(NoRec, b, d, e, L \cup {a})
<1> DEFINE o == Out(a, b, d, e, L)
           p == Out(NoRec, b, d, e, L \cup {a})
<1>1. o \in [Rec -> Nat] /\ p \in [Rec -> Nat]
  BY OutIs
<1>2. \A q \in Rec : o[q] = Bit(a = q) + Bit(b = q) + Bit(d = q) + Bit(e = q) + Bit(q \in L)
  BY OutIs
<1>3. \A q \in Rec : p[q] = Bit(NoRec = q) + Bit(b = q) + Bit(d = q) + Bit(e = q) + Bit(q \in L \cup {a})
  BY OutIs
<1>4. \A q : Bit(b = q) \in Nat /\ Bit(d = q) \in Nat /\ Bit(e = q) \in Nat
  BY DEF Bit
<1>5. \A q \in Rec : Bit(NoRec = q) = 0
  BY Constants DEF Bit
<1>6. \A q \in Rec : Bit(a = q) + Bit(q \in L) = Bit(q \in L \cup {a})
  BY DEF Bit
<1>7. \A q : Bit(a = q) \in Nat /\ Bit(q \in L) \in Nat /\ Bit(q \in L \cup {a}) \in Nat
  BY DEF Bit
<1> HIDE DEF o, p
<1>8. \A q \in Rec : p[q] = o[q]
  BY <1>2, <1>3, <1>4, <1>5, <1>6, <1>7
<1> QED  BY <1>1, <1>8 DEF o, p

(***************************************************************************)
(* What a step works on.  S are the keys that can be in the caches; a, b,  *)
(* d and e the handles that the step and its screen have.  If the program  *)
(* has died, it was not for want of room.                                  *)
(***************************************************************************)
Sane(x, S) ==
    /\ x \in [c : CacheType, leaked : SUBSET Rec, got : [Key -> Handle]]
    /\ Consistent(x.c) /\ (\A el \in El : x.c.lock[el] = 0)
    /\ \A k \in Key : x.c.table[k] # NoEl => k \in S

Holds(x, S, a, b, d, e) ==
    IF Ended(x) THEN Roomy => x.c.dead = "memory"
    ELSE /\ Sane(x, S) /\ {a, b, d, e} \subseteq Handle
         /\ Counted(x.c, Out(a, b, d, e, x.leaked))

(* The order of the handles does not matter.                                 *)
LEMMA HoldsSwaps ==
    ASSUME NEW x, NEW S, NEW a, NEW b, NEW d, NEW e, Holds(x, S, a, b, d, e)
    PROVE  /\ Holds(x, S, b, a, d, e) /\ Holds(x, S, d, b, a, e) /\ Holds(x, S, e, b, d, a)
           /\ Holds(x, S, a, d, b, e) /\ Holds(x, S, a, e, d, b) /\ Holds(x, S, a, b, e, d)
<1>1. ASSUME NEW p, NEW q, NEW r, NEW s, Holds(x, S, p, q, r, s)
      PROVE  Holds(x, S, q, p, r, s) /\ Holds(x, S, r, q, p, s) /\ Holds(x, S, s, q, r, p)
  <2>1. /\ Out(q, p, r, s, x.leaked) = Out(p, q, r, s, x.leaked)
        /\ Out(r, q, p, s, x.leaked) = Out(p, q, r, s, x.leaked)
        /\ Out(s, q, r, p, x.leaked) = Out(p, q, r, s, x.leaked)
    BY OutSwaps
  <2> QED  BY <1>1, <2>1 DEF Holds
<1>2. Holds(x, S, b, a, d, e) /\ Holds(x, S, d, b, a, e) /\ Holds(x, S, e, b, d, a)
  BY <1>1
<1>3. Holds(x, S, d, a, b, e) /\ Holds(x, S, e, a, d, b) /\ Holds(x, S, e, b, a, d)
  BY <1>1, <1>2
<1>4. Holds(x, S, a, d, b, e) /\ Holds(x, S, a, e, d, b)
  BY <1>1, <1>3
<1>5. Holds(x, S, a, b, e, d)
  BY <1>1, <1>3
<1> QED  BY <1>2, <1>4, <1>5

(* A call to the caches that leaves them consistent, with nothing locked.    *)
LEMMA CallIs ==
    ASSUME NEW x, NEW S, NEW a, NEW b, NEW d, NEW e, Holds(x, S, a, b, d, e), NEW n, NEW T,
           ~Ended(x) => IF n.dead # "alive" THEN Roomy => n.dead = "memory"
                        ELSE /\ Consistent(n) /\ Counted(n, Out(a, b, d, e, x.leaked))
                             /\ \A el \in El : n.lock[el] = 0
                             /\ \A k \in Key : n.table[k] # NoEl => k \in T,
           NEW y, y = Call(x, n)
    PROVE  /\ Holds(y, T, a, b, d, e)
           /\ ~Ended(y) => ~Ended(x) /\ y.c = n /\ y.got = x.got /\ y.leaked = x.leaked
<1>1. CASE Ended(x)
  <2>1. y = x
    BY <1>1 DEF Call
  <2> QED  BY <1>1, <2>1 DEF Holds
<1>2. CASE ~Ended(x)
  <2>1. x \in [c : CacheType, leaked : SUBSET Rec, got : [Key -> Handle]] /\ {a, b, d, e} \subseteq Handle
    BY <1>2 DEF Holds, Sane
  <2>2. y = [x EXCEPT !.c = n]
    BY <1>2 DEF Call
  <2>3. y = [c |-> n, leaked |-> x.leaked, got |-> x.got]
    BY <2>1, <2>2
  <2>4. y.c = n /\ y.leaked = x.leaked /\ y.got = x.got
    BY <2>3
  <2>5. CASE n.dead # "alive"
    BY <1>2, <2>4, <2>5 DEF Holds, Ended
  <2>6. CASE n.dead = "alive"
    <3>1. n \in CacheType
      BY <1>2, <2>6 DEF Consistent
    <3>2. y \in [c : CacheType, leaked : SUBSET Rec, got : [Key -> Handle]]
      BY <2>1, <2>3, <3>1
    <3> QED  BY <1>2, <2>1, <2>4, <2>6, <3>2 DEF Holds, Sane, Ended
  <2> QED  BY <1>2, <2>4, <2>5, <2>6
<1> QED  BY <1>1, <1>2

(* setref and delref_record: a handle is let go.                             *)
LEMMA DropIs ==
    ASSUME NEW x, NEW S, NEW a, NEW b, NEW d, NEW e, Holds(x, S, a, b, d, e), NEW y, y = Drop(x, a)
    PROVE  /\ Holds(y, S, NoRec, b, d, e)
           /\ ~Ended(y) => ~Ended(x) /\ y.got = x.got /\ y.leaked = x.leaked
<1>1. CASE Ended(x)
  <2>1. y = x
    BY <1>1 DEF Drop
  <2> QED  BY <1>1, <2>1 DEF Holds
<1>2. CASE ~Ended(x) /\ a = NoRec
  <2>1. y = x
    BY <1>2 DEF Drop
  <2> QED  BY <1>2, <2>1
<1>3. CASE ~Ended(x) /\ a # NoRec
  <2> DEFINE o == Out(a, b, d, e, x.leaked)
  <2>1. /\ x \in [c : CacheType, leaked : SUBSET Rec, got : [Key -> Handle]]
        /\ a \in Rec /\ b \in Handle /\ d \in Handle /\ e \in Handle
        /\ Consistent(x.c) /\ Counted(x.c, o) /\ x.c.dead = "alive"
        /\ \A el \in El : x.c.lock[el] = 0
        /\ \A k \in Key : x.c.table[k] # NoEl => k \in S
    BY <1>3 DEF Holds, Sane, Handle, Ended
  <2>2. o[a] > 0 /\ Less(o, a) = Out(NoRec, b, d, e, x.leaked) /\ o \in [Rec -> Nat]
    BY <2>1, OutLess, OutIs
  <2> HIDE DEF o
  <2>3. x.c.refs[a] # 0
    <3>1. x.c.refs[a] = Own(x.c, a) + o[a] /\ Own(x.c, a) \in {0, 1} /\ o[a] \in Nat
      BY <2>1, <2>2 DEF Counted, Own
    <3> QED  BY <2>2, <3>1
  <2> DEFINE n == Release(x.c, a)
  <2>4. y = [x EXCEPT !.c = n]
    BY <1>3, <2>3 DEF Drop, Lose
  <2>5. /\ Consistent(n) /\ Counted(n, Less(o, a))
        /\ SameLists(x.c, n) /\ SameLocks(x.c, n) /\ n.dead = x.c.dead
    BY <2>1, <2>2, ReleaseIs
  <2> HIDE DEF n
  <2>6. y = [c |-> n, leaked |-> x.leaked, got |-> x.got]
    BY <2>1, <2>4
  <2>7. n \in CacheType /\ NoRec \in Handle
    BY <2>5 DEF Consistent, Handle
  <2>8. y \in [c : CacheType, leaked : SUBSET Rec, got : [Key -> Handle]]
    BY <2>1, <2>6, <2>7
  <2>9. y.c = n /\ y.leaked = x.leaked /\ y.got = x.got
    BY <2>6
  <2>10. (\A el \in El : n.lock[el] = 0) /\ \A k \in Key : n.table[k] # NoEl => k \in S
    BY <2>1, <2>5 DEF SameLists, SameLocks
  <2>11. n.dead = "alive" /\ Consistent(n) /\ Counted(n, Out(NoRec, b, d, e, x.leaked))
    BY <2>1, <2>2, <2>5
  <2>12. Sane(y, S)
    BY <2>8, <2>9, <2>10, <2>11 DEF Sane
  <2> QED  BY <1>3, <2>1, <2>7, <2>9, <2>11, <2>12 DEF Holds, Ended
<1> QED  BY <1>1, <1>2, <1>3

(* A handle is forgotten: from now on it counts among the leaked ones.       *)
LEMMA LeakIs ==
    ASSUME NEW x, NEW S, NEW a, NEW b, NEW d, NEW e, Holds(x, S, a, b, d, e), NEW y, y = Leak(x, a)
    PROVE  /\ Holds(y, S, NoRec, b, d, e)
           /\ ~Ended(y) => ~Ended(x) /\ y.got = x.got
           /\ ~Ended(x) /\ a \in Rec /\ a \notin x.leaked => y.leaked = x.leaked \cup {a}
           /\ ~Ended(y) => x.leaked \subseteq y.leaked
<1>1. CASE Ended(x)
  <2>1. y = x
    BY <1>1 DEF Leak
  <2> QED  BY <1>1, <2>1 DEF Holds
<1>2. CASE ~Ended(x) /\ a = NoRec
  <2>1. y = x
    BY <1>2 DEF Leak
  <2> QED  BY <1>2, <2>1, Constants
<1>3. CASE ~Ended(x) /\ a # NoRec
  <2> DEFINE o == Out(a, b, d, e, x.leaked)
  <2>1. /\ x \in [c : CacheType, leaked : SUBSET Rec, got : [Key -> Handle]]
        /\ a \in Rec /\ b \in Handle /\ d \in Handle /\ e \in Handle
        /\ Consistent(x.c) /\ Counted(x.c, o) /\ x.c.dead = "alive"
        /\ \A el \in El : x.c.lock[el] = 0
        /\ \A k \in Key : x.c.table[k] # NoEl => k \in S
    BY <1>3 DEF Holds, Sane, Handle, Ended
  <2>2. o[a] > 0 /\ o \in [Rec -> Nat]
    BY <2>1, OutLess, OutIs
  <2>3. x.c.refs[a] # 0
    <3>1. x.c.refs[a] = Own(x.c, a) + o[a] /\ Own(x.c, a) \in {0, 1} /\ o[a] \in Nat
      BY <2>1, <2>2 DEF Counted, Own
    <3> QED  BY <2>2, <3>1
  <2>4. CASE a \in x.leaked
    <3>1. y = Drop(x, a)
      BY <1>3, <2>3, <2>4 DEF Leak
    <3> QED  BY <2>4, <3>1, DropIs
  <2>5. CASE a \notin x.leaked
    <3>1. y = [x EXCEPT !.leaked = x.leaked \cup {a}]
      BY <1>3, <2>3, <2>5 DEF Leak
    <3>2. y = [c |-> x.c, leaked |-> x.leaked \cup {a}, got |-> x.got]
      BY <2>1, <3>1
    <3>3. y \in [c : CacheType, leaked : SUBSET Rec, got : [Key -> Handle]]
      BY <2>1, <3>2
    <3>4. y.c = x.c /\ y.leaked = x.leaked \cup {a} /\ y.got = x.got
      BY <3>2
    <3>5. Counted(y.c, Out(NoRec, b, d, e, y.leaked))
      BY <2>1, <2>5, <3>4, OutLeak
    <3>6. Sane(y, S) /\ NoRec \in Handle
      BY <2>1, <3>3, <3>4 DEF Sane, Handle
    <3> QED  BY <1>3, <2>1, <3>4, <3>5, <3>6 DEF Holds, Ended
  <2> QED  BY <2>4, <2>5
<1> QED  BY <1>1, <1>2, <1>3

-----------------------------------------------------------------------------
(* Reading into the caches, for whoever holds what. *)

Within(c, S) == \A k \in Key : c.table[k] # NoEl => k \in S

\* there is an element for the record of k, or it has one
RoomFor(c, k) == c.table[k] # NoEl \/ \E el \in El : Cache[el] = TypeOf[k] /\ c.lock[el] = 0

LEMMA CacheRead ==
    ASSUME NEW c, Consistent(c), NEW out, Counted(c, out), c.dead = "alive",
           NEW S, Within(c, S), NEW k \in Key, k \in S, Roomy => RoomFor(c, k),
           NEW n, n = KeyToCacheel(c, k)
    PROVE  /\ Consistent(n) /\ SameLocks(c, n) /\ LockedKeep(c, n) /\ Within(n, S)
           /\ n.dead = "alive" => Counted(n, out) /\ n.table[k] \in El
           /\ Roomy => n.dead \in {"alive", "memory"}
           /\ c.table[k] # NoEl => n.table = c.table /\ n.crec = c.crec /\ n.dead = "alive"
<1>1. Reads(c, n, k) /\ (n.dead = "alive" => Counted(n, out))
  BY KeyToCacheelIs
<1>2. /\ n.dead \in {"alive", "full", "memory"} /\ (n.dead = "full" => AllLocked(c, TypeOf[k]))
      /\ Gains(c, n, k)
  BY KeyToCacheelDies
<1>3. Within(n, S)
  BY <1>2 DEF Within, Gains
<1>4. c.table[k] # NoEl => n.table = c.table /\ n.crec = c.crec /\ n.dead = "alive"
  BY <1>1 DEF Reads
<1>5. Roomy => n.dead \in {"alive", "memory"}
  <2> SUFFICES ASSUME Roomy, n.dead = "full" PROVE FALSE
    BY <1>2
  <2>1. PICK el \in El : Cache[el] = TypeOf[k] /\ c.lock[el] = 0
    BY <1>4 DEF RoomFor
  <2>2. c.lock[el] > 0
    BY <1>2, <2>1 DEF AllLocked
  <2> QED  BY <2>1, <2>2
<1> QED  BY <1>1, <1>3, <1>4, <1>5 DEF Reads

\* the handle got last is on the record that the cache has
Latest(x, k) == x.c.table[k] \in El /\ Ref(x, k) = RecordOf(x.c, k)

(* key_to_record gives one more handle, on a record of the key; asked twice, *)
(* it gives two on the same.                                                 *)
LEMMA GetIs ==
    ASSUME NEW x, NEW S, NEW a, NEW b, NEW d, Holds(x, S, a, b, d, NoRec),
           NEW k \in Key, k \in S, NEW y, y = Get(x, k)
    PROVE  /\ Holds(y, S, a, b, d, Ref(y, k))
           /\ ~Ended(y) => /\ ~Ended(x) /\ y.leaked = x.leaked
                           /\ Ref(y, k) \in Rec /\ KeyOf(Ref(y, k)) = k /\ Latest(y, k)
                           /\ \A q \in Key : q # k => Ref(y, q) = Ref(x, q)
                           /\ Latest(x, k) => Ref(y, k) = Ref(x, k)
<1>1. CASE Ended(x)
  <2>1. y = x
    BY <1>1 DEF Get, Noted, Call
  <2> QED  BY <1>1, <2>1 DEF Holds
<1>2. CASE ~Ended(x)
  <2> DEFINE c == x.c
             n == KeyToRecord(c, k)
             h == KeyToCacheel(c, k)
             r == RecordOf(n, k)
             o == Out(a, b, d, NoRec, x.leaked)
             m == Call(x, n)
  <2>1. /\ x \in [c : CacheType, leaked : SUBSET Rec, got : [Key -> Handle]]
        /\ a \in Handle /\ b \in Handle /\ d \in Handle
        /\ Consistent(c) /\ Counted(c, o) /\ c.dead = "alive"
        /\ \A el \in El : c.lock[el] = 0
        /\ Within(c, S)
    BY <1>2 DEF Holds, Sane, Ended, Within
  <2>2. Roomy => RoomFor(c, k)
    BY <2>1 DEF RoomFor, Roomy
  <2> HIDE DEF o
  <2>3. /\ Consistent(h) /\ SameLocks(c, h) /\ Within(h, S)
        /\ h.dead = "alive" => Counted(h, o) /\ h.table[k] \in El
        /\ Roomy => h.dead \in {"alive", "memory"}
        /\ c.table[k] # NoEl => h.table = c.table /\ h.crec = c.crec /\ h.dead = "alive"
    BY <2>1, <2>2, CacheRead
  <2>4. Reads(c, n, k) /\ (n.dead = "alive" => r \in Rec /\ Counted(n, More(o, r)))
    BY <2>1, KeyToRecordIs
  <2>5. n = IF h.dead # "alive" THEN h ELSE AddRef(h, RecordOf(h, k))
    BY DEF KeyToRecord
  <2> HIDE DEF h, c
  <2>6. n.dead = h.dead /\ n.table = h.table /\ n.crec = h.crec
    BY <2>3, <2>5 DEF AddRef, Consistent, CacheType
  <2> HIDE DEF n
  <2>7. m = [x EXCEPT !.c = n]
    BY <1>2 DEF Call
  <2>8. m = [c |-> n, leaked |-> x.leaked, got |-> x.got]
    BY <2>1, <2>7
  <2>9. m.c = n /\ m.leaked = x.leaked /\ m.got = x.got
    BY <2>8
  <2>10. y = IF n.dead # "alive" THEN m ELSE [m EXCEPT !.got = [m.got EXCEPT ![k] = r]]
    BY <2>9 DEF Get, Noted, Ended, n, c
  <2>11. CASE n.dead # "alive"
    <3>1. Ended(y) /\ y.c.dead = h.dead
      BY <2>6, <2>9, <2>10, <2>11 DEF Ended
    <3> QED  BY <2>3, <2>6, <2>11, <3>1 DEF Holds
  <2>12. CASE n.dead = "alive"
    <3> HIDE DEF m
    <3>1. r \in Rec /\ KeyOf(r) = k /\ n.table[k] \in El /\ Consistent(n) /\ SameLocks(c, n)
      <4>1. Consistent(n) /\ n.table[k] \in El /\ SameLocks(c, n)
        BY <2>4, <2>12 DEF Reads
      <4>2. n.table[k] # NoEl
        BY <4>1, Constants
      <4> QED  BY <4>1, <4>2, RecordOfIs
    <3> HIDE DEF r
    <3>2. y = [c |-> n, leaked |-> x.leaked, got |-> [x.got EXCEPT ![k] = r]]
      BY <2>8, <2>9, <2>10, <2>12
    <3>3. y.c = n /\ y.leaked = x.leaked /\ y.got = [x.got EXCEPT ![k] = r]
      BY <3>2
    <3>4. r \in Handle /\ x.got \in [Key -> Handle] /\ n \in CacheType
      BY <2>1, <3>1 DEF Handle, Consistent
    <3>5. y \in [c : CacheType, leaked : SUBSET Rec, got : [Key -> Handle]]
      BY <2>1, <3>2, <3>4
    <3>6. Ref(y, k) = r /\ \A q \in Key : q # k => Ref(y, q) = Ref(x, q)
      BY <3>3, <3>4 DEF Ref
    <3>7. (\A el \in El : n.lock[el] = 0) /\ \A q \in Key : n.table[q] # NoEl => q \in S
      BY <2>1, <2>3, <2>6, <3>1 DEF SameLocks, Within
    <3>8. Out(a, b, d, r, x.leaked) = More(o, r)
      BY <3>1, OutMore DEF o
    <3>9. Counted(n, Out(a, b, d, r, x.leaked))
      BY <2>4, <2>12, <3>8 DEF r
    <3>10. Sane(y, S)
      BY <3>1, <3>3, <3>5, <3>7 DEF Sane
    <3>11. ~Ended(y)
      BY <2>12, <3>3 DEF Ended
    <3>12. Holds(y, S, a, b, d, Ref(y, k))
      BY <2>1, <3>3, <3>4, <3>6, <3>9, <3>10, <3>11 DEF Holds
    <3>13. Latest(y, k)
      BY <3>1, <3>3, <3>6 DEF Latest, r
    <3>14. Latest(x, k) => Ref(y, k) = Ref(x, k)
      <4>1. Latest(x, k) => c.table[k] \in El /\ Ref(x, k) = RecordOf(c, k)
        BY DEF Latest, c
      <4>2. c.table[k] \in El => RecordOf(n, k) = RecordOf(c, k)
        BY <2>3, <2>6, Constants DEF RecordOf
      <4> QED  BY <3>6, <4>1, <4>2 DEF r
    <3> QED  BY <1>2, <3>1, <3>3, <3>6, <3>11, <3>12, <3>13, <3>14
  <2> QED  BY <2>11, <2>12
<1> QED  BY <1>1, <1>2

(* What the user has added is not yet in the caches.                         *)
LEMMA NewIs ==
    ASSUME NEW x, NEW S, NEW a, NEW b, NEW d, Holds(x, S, a, b, d, NoRec),
           NEW k \in Key, k \notin S, NEW y, y = New(x, k)
    PROVE  /\ Holds(y, S \cup {k}, a, b, d, Ref(y, k))
           /\ ~Ended(y) => /\ ~Ended(x) /\ y.leaked = x.leaked
                           /\ Ref(y, k) \in Rec /\ KeyOf(Ref(y, k)) = k
<1> DEFINE n == AddNew(x.c, k)
           m == Call(x, n)
           o == Out(a, b, d, NoRec, x.leaked)
<1>1. ASSUME ~Ended(x)
      PROVE  IF n.dead # "alive" THEN Roomy => n.dead = "memory"
             ELSE /\ Consistent(n) /\ Counted(n, o)
                  /\ \A el \in El : n.lock[el] = 0
                  /\ \A q \in Key : n.table[q] # NoEl => q \in S \cup {k}
  <2>1. /\ Consistent(x.c) /\ Counted(x.c, o) /\ x.c.dead = "alive"
        /\ \A el \in El : x.c.lock[el] = 0
        /\ \A q \in Key : x.c.table[q] # NoEl => q \in S
    BY <1>1 DEF Holds, Sane, Ended
  <2>2. x.c.table[k] = NoEl
    BY <2>1
  <2> HIDE DEF o
  <2>3. Consistent(n) /\ SameLocks(x.c, n) /\ (n.dead = "alive" => Counted(n, o))
    BY <2>1, AddNewIs
  <2>4. /\ n.dead \in {"alive", "full", "memory"} /\ (n.dead = "full" => AllLocked(x.c, TypeOf[k]))
        /\ Gains(x.c, n, k)
    BY <2>1, <2>2, AddNewDies
  <2> HIDE DEF n
  <2>5. Roomy => n.dead # "full"
    <3> SUFFICES ASSUME Roomy, n.dead = "full" PROVE FALSE
      OBVIOUS
    <3>1. PICK el \in El : Cache[el] = TypeOf[k]
      BY DEF Roomy
    <3>2. x.c.lock[el] > 0 /\ x.c.lock[el] = 0
      BY <2>1, <2>4, <3>1 DEF AllLocked
    <3> QED  BY <3>2
  <2>6. \A q \in Key : n.table[q] # NoEl => q \in S \cup {k}
    BY <2>1, <2>4 DEF Gains
  <2>7. \A el \in El : n.lock[el] = 0
    BY <2>1, <2>3 DEF SameLocks
  <2> QED  BY <2>3, <2>4, <2>5, <2>6, <2>7
<1> HIDE DEF n
<1>2. /\ Holds(m, S \cup {k}, a, b, d, NoRec)
      /\ ~Ended(m) => ~Ended(x) /\ m.leaked = x.leaked
  BY <1>1, CallIs DEF o
<1>3. y = Get(m, k)
  BY DEF New, n
<1> HIDE DEF m
<1>4. /\ Holds(y, S \cup {k}, a, b, d, Ref(y, k))
      /\ ~Ended(y) => /\ ~Ended(m) /\ y.leaked = m.leaked
                      /\ Ref(y, k) \in Rec /\ KeyOf(Ref(y, k)) = k
  BY <1>2, <1>3, GetIs
<1> QED  BY <1>2, <1>4

(* remove_from_cache, of a record that is in its cache.                      *)
LEMMA RemoveIs ==
    ASSUME NEW x, NEW S, NEW a, NEW b, NEW d, NEW e, Holds(x, S, a, b, d, e),
           NEW k \in Key, ~Ended(x) => x.c.table[k] # NoEl,
           NEW y, y = Call(x, RemoveFromCache(x.c, k))
    PROVE  /\ Holds(y, S \ {k}, a, b, d, e)
           /\ ~Ended(y) => ~Ended(x) /\ y.leaked = x.leaked /\ y.got = x.got
<1> DEFINE n == RemoveFromCache(x.c, k)
           o == Out(a, b, d, e, x.leaked)
<1>1. ASSUME ~Ended(x)
      PROVE  IF n.dead # "alive" THEN Roomy => n.dead = "memory"
             ELSE /\ Consistent(n) /\ Counted(n, o)
                  /\ \A el \in El : n.lock[el] = 0
                  /\ \A q \in Key : n.table[q] # NoEl => q \in S \ {k}
  <2>1. /\ Consistent(x.c) /\ Counted(x.c, o) /\ x.c.dead = "alive" /\ x.c.table[k] # NoEl
        /\ \A el \in El : x.c.lock[el] = 0
        /\ \A q \in Key : x.c.table[q] # NoEl => q \in S
    BY <1>1 DEF Holds, Sane, Ended
  <2> HIDE DEF o
  <2>2. Consistent(n) /\ Counted(n, o) /\ SameLocks(x.c, n)
    BY <2>1, RemoveFromCacheIs
  <2>3. \/ n.dead = "locked" /\ x.c.table[k] \in El /\ x.c.lock[x.c.table[k]] > 0
        \/ n.dead = "alive" /\ n.table = [x.c.table EXCEPT ![k] = NoEl]
    BY <2>1, RemoveFromCacheDies
  <2> HIDE DEF n
  <2>4. n.dead = "alive" /\ n.table = [x.c.table EXCEPT ![k] = NoEl]
    <3>1. ~(x.c.table[k] \in El /\ x.c.lock[x.c.table[k]] > 0)
      BY <2>1
    <3> QED  BY <2>3, <3>1
  <2>5. x.c.table \in [Key -> El \cup {NoEl}]
    BY <2>1, CacheFields DEF Consistent
  <2>6. \A q \in Key : n.table[q] # NoEl => q \in S \ {k}
    BY <2>1, <2>4, <2>5
  <2>7. \A el \in El : n.lock[el] = 0
    BY <2>1, <2>2 DEF SameLocks
  <2> QED  BY <2>2, <2>4, <2>6, <2>7
<1>2. y = Call(x, n)
  OBVIOUS
<1> HIDE DEF n
<1> QED  BY <1>1, <1>2, CallIs DEF o

(* unlock_cache, of an element in use.                                       *)
LEMMA UnlockCacheIs ==
    ASSUME NEW c, Consistent(c), NEW out, Counted(c, out), NEW el \in El, c.lock[el] = 1,
           \A z \in El : z # el => c.lock[z] = 0, c.key[el] # NoKey, c.rpt[el] = 0,
           NEW n, n = UnlockCache(c, el)
    PROVE  /\ Consistent(n) /\ Counted(n, out) /\ SameLists(c, n) /\ n.dead = c.dead
           /\ \A z \in El : n.lock[z] = 0
           /\ n.crec = c.crec
<1> DEFINE lk == [c.lock EXCEPT ![el] = @ - 1]
<1>1. c \in CacheType /\ c.lock \in [El -> Nat] /\ c.rpt \in [El -> Nat]
  BY CacheFields DEF Consistent
<1>2. lk \in [El -> Nat] /\ \A z \in El : lk[z] = 0
  BY <1>1
<1>3. n = Relocked(c, lk, c.rpt)
  <2>1. n = [c EXCEPT !.lock = lk]
    BY DEF UnlockCache
  <2> HIDE DEF lk
  <2> QED  BY <1>1, <2>1 DEF CacheType, Relocked
<1> HIDE DEF lk
<1>4. LocksFor(c, lk, c.rpt)
  <2>1. \A z \in El : c.rpt[z] <= c.lock[z] /\ c.rpt[z] \in Nat
    BY <1>1 DEF Consistent, RecordsLinked
  <2>2. \A z \in El : c.rpt[z] = 0
    BY <2>1
  <2> QED  BY <1>1, <1>2, <2>2 DEF LocksFor
<1>5. /\ Consistent(n) /\ Counted(n, out) /\ SameLists(c, n) /\ n.lock = lk /\ n.dead = c.dead
      /\ n.crec = c.crec
  BY <1>3, <1>4, RelockIs
<1> QED  BY <1>2, <1>5

(* A record is displayed with its element locked, while another one is read. *)
LEMMA FoundIs ==
    ASSUME NEW c, Consistent(c), NEW out, Counted(c, out), c.dead = "alive",
           \A z \in El : c.lock[z] = 0, NEW S, Within(c, S),
           NEW k \in Key, k \in S, NEW seen \in Key, seen \in S, NEW n, n = Found(c, k, seen)
    PROVE  IF n.dead # "alive" THEN Roomy => n.dead = "memory"
           ELSE /\ Consistent(n) /\ Counted(n, out) /\ (\A z \in El : n.lock[z] = 0) /\ Within(n, S)
                /\ seen = k => n.table[k] # NoEl
<1> DEFINE h == KeyToCacheel(c, k)
           el == h.table[k]
           l == LockCache(h, el)
           s == KeyToCacheel(l, seen)
<1>1. Roomy => RoomFor(c, k)
  BY DEF Roomy, RoomFor
<1>2. /\ Consistent(h) /\ SameLocks(c, h) /\ Within(h, S)
      /\ h.dead = "alive" => Counted(h, out) /\ h.table[k] \in El
      /\ Roomy => h.dead \in {"alive", "memory"}
  BY <1>1, CacheRead
<1>3. n = Locked(h, k, seen)
  BY DEF Found
<1> HIDE DEF h
<1>4. CASE h.dead # "alive"
  <2>1. n = h
    BY <1>3, <1>4 DEF Locked
  <2> QED  BY <1>2, <1>4, <2>1
<1>5. CASE h.dead = "alive"
  <2>1. el \in El /\ h.key[el] = k /\ k # NoKey /\ Counted(h, out) /\ h.table[k] # NoEl
    BY <1>2, <1>5, RecordOfIs, Constants
  <2>2. n = Unlocked1(Seen(l, seen), el)
    BY <1>3, <1>5 DEF Locked
  <2>3. /\ Consistent(l) /\ Counted(l, out) /\ SameLists(h, l) /\ l.dead = h.dead
        /\ \A z \in El : l.lock[z] = IF z = el THEN h.lock[z] + 1 ELSE h.lock[z]
        /\ l.rpt = h.rpt
    BY <1>2, <2>1, LockCacheIs
  <2> HIDE DEF l
  <2>4. Seen(l, seen) = s
    BY <1>5, <2>3 DEF Seen
  <2>5. Within(l, S) /\ l.table[k] = el /\ l.key[el] = k
    BY <1>2, <2>1, <2>3 DEF Within, SameLists
  <2>6. \A z \in El : l.lock[z] = IF z = el THEN 1 ELSE 0
    BY <1>2, <2>3 DEF SameLocks
  <2>7. Roomy => RoomFor(l, seen)
    <3> SUFFICES ASSUME Roomy, l.table[seen] = NoEl
                 PROVE  \E z \in El : Cache[z] = TypeOf[seen] /\ l.lock[z] = 0
      BY DEF RoomFor
    <3>1. seen # k
      BY <2>1, <2>5, Constants
    <3>2. PICK e1, e2 \in El : Cache[e1] = TypeOf[k] /\ Cache[e2] = TypeOf[seen] /\ (k # seen => e1 # e2)
      BY DEF Roomy
    <3>3. TypeOf[k] = Cache[el]
      BY <2>1, <2>3, <2>5, ElementInUse
    <3>4. CASE e2 # el
      BY <2>6, <3>2, <3>4
    <3>5. CASE e2 = el
      BY <2>6, <3>1, <3>2, <3>3, <3>5
    <3> QED  BY <3>4, <3>5
  <2>8. /\ Consistent(s) /\ SameLocks(l, s) /\ LockedKeep(l, s) /\ Within(s, S)
        /\ s.dead = "alive" => Counted(s, out) /\ s.table[seen] \in El
        /\ Roomy => s.dead \in {"alive", "memory"}
    BY <1>5, <2>3, <2>5, <2>7, CacheRead
  <2> HIDE DEF s, el
  <2>9. CASE s.dead # "alive"
    <3>1. n = s
      BY <2>2, <2>4, <2>9 DEF Unlocked1
    <3> QED  BY <2>8, <2>9, <3>1
  <2>10. CASE s.dead = "alive"
    <3>1. n = UnlockCache(s, el)
      BY <2>2, <2>4, <2>10 DEF Unlocked1
    <3>2. (\A z \in El : s.lock[z] = IF z = el THEN 1 ELSE 0)
      BY <2>6, <2>8 DEF SameLocks
    <3>3. s.key[el] # NoKey
      BY <2>1, <2>5, <2>6, <2>8 DEF LockedKeep
    <3>4. s.rpt[el] = 0
      <4>1. c.rpt[el] <= c.lock[el] /\ c.rpt[el] \in Nat /\ c.lock[el] = 0
        BY <2>1, CacheFields DEF Consistent, RecordsLinked
      <4>2. s.rpt[el] = c.rpt[el]
        BY <1>2, <2>3, <2>8 DEF SameLocks
      <4> QED  BY <4>1, <4>2
    <3>5. /\ Consistent(n) /\ Counted(n, out) /\ SameLists(s, n) /\ n.dead = s.dead
          /\ \A z \in El : n.lock[z] = 0
      BY <2>1, <2>8, <2>10, <3>1, <3>2, <3>3, <3>4, UnlockCacheIs
    <3>6. Within(n, S)
      BY <2>8, <3>5 DEF Within, SameLists
    <3>7. seen = k => n.table[k] # NoEl
      BY <2>8, <2>10, <3>5, Constants DEF SameLists
    <3> QED  BY <2>10, <3>5, <3>6, <3>7
  <2> QED  BY <2>9, <2>10
<1> QED  BY <1>4, <1>5

LEMMA DisplayIs ==
    ASSUME NEW x, NEW a, NEW b, NEW d, NEW e, Holds(x, stored, a, b, d, e),
           a \in Rec, KeyOf(a) \in stored, NEW seen \in Key, seen \in stored,
           NEW y, y = Display(x, a, seen)
    PROVE  /\ Holds(y, stored, a, b, d, e)
           /\ ~Ended(y) => /\ ~Ended(x) /\ y.got = x.got /\ y.leaked = x.leaked
                           /\ seen = KeyOf(a) => y.c.table[seen] # NoEl
<1>1. CASE Ended(x)
  <2>1. y = x
    BY <1>1 DEF Display
  <2> QED  BY <1>1, <2>1 DEF Holds
<1>2. CASE ~Ended(x)
  <2> DEFINE c == x.c
             k == KeyOf(a)
             o == Out(a, b, d, e, x.leaked)
             z == Nztop(c, a, stored)
             n == Found(z, k, seen)
  <2>1. /\ Consistent(c) /\ Counted(c, o) /\ c.dead = "alive"
        /\ \A el \in El : c.lock[el] = 0
        /\ Within(c, stored)
    BY <1>2 DEF Holds, Sane, Ended, Within
  <2>2. o[a] > 0 /\ o \in [Rec -> Nat]
    BY OutLess, OutIs
  <2> HIDE DEF o, c
  <2>3. c.refs[a] # 0
    <3>1. c.refs[a] = Own(c, a) + o[a] /\ Own(c, a) \in {0, 1} /\ o[a] \in Nat
      BY <2>1, <2>2 DEF Counted, Own
    <3> QED  BY <2>2, <3>1
  <2>4. y = Call(x, n)
    BY <1>2, <2>3 DEF Display, c
  <2>5. k \in Key
    BY RecKey
  <2>6. Consistent(z) /\ SameLocks(c, z) /\ (z.dead = "alive" => Counted(z, o))
    BY <2>1, <2>2, NztopIs
  <2>7. z.dead \in {"alive", "full", "memory"} /\ Gains(c, z, k)
    BY <2>1, NztopDies
  <2>8. Roomy => z.dead # "full"
    <3>1. CASE IsLoaded(c, a)
      BY <2>1, <3>1 DEF Nztop
    <3>2. CASE ~IsLoaded(c, a)
      <4> DEFINE h == KeyToCacheel(c, k)
      <4>1. z.dead = h.dead
        <5>1. z = IF h.dead # "alive" THEN h ELSE [h EXCEPT !.rcel[a] = h.table[k]]
          BY <3>2 DEF Nztop
        <5>2. h \in CacheType
          BY <2>1, <2>5, KeyToCacheelIs DEF Reads, Consistent
        <5> HIDE DEF h, z
        <5> QED  BY <5>1, <5>2 DEF CacheType
      <4>2. Roomy => RoomFor(c, k)
        BY <2>1, <2>5 DEF Roomy, RoomFor
      <4>3. Roomy => h.dead \in {"alive", "memory"}
        BY <2>1, <2>5, <4>2, CacheRead
      <4> HIDE DEF h, z
      <4> QED  BY <4>1, <4>3
    <3> QED  BY <3>1, <3>2
  <2> HIDE DEF z
  <2>9. Within(z, stored) /\ \A el \in El : z.lock[el] = 0
    BY <2>1, <2>6, <2>7 DEF Within, Gains, SameLocks
  <2>10. IF n.dead # "alive" THEN Roomy => n.dead = "memory"
         ELSE /\ Consistent(n) /\ Counted(n, o) /\ (\A el \in El : n.lock[el] = 0) /\ Within(n, stored)
              /\ seen = k => n.table[k] # NoEl
    <3>1. CASE z.dead # "alive"
      <4>1. n = z
        BY <3>1 DEF Found
      <4> QED  BY <2>7, <2>8, <3>1, <4>1
    <3>2. CASE z.dead = "alive"
      BY <2>5, <2>6, <2>9, <3>2, FoundIs
    <3> QED  BY <3>1, <3>2
  <2> HIDE DEF n
  <2>11. /\ Holds(y, stored, a, b, d, e)
         /\ ~Ended(y) => ~Ended(x) /\ y.c = n /\ y.got = x.got /\ y.leaked = x.leaked
    <3>1. IF n.dead # "alive" THEN Roomy => n.dead = "memory"
          ELSE /\ Consistent(n) /\ Counted(n, o) /\ (\A el \in El : n.lock[el] = 0)
               /\ \A q \in Key : n.table[q] # NoEl => q \in stored
      BY <2>10 DEF Within
    <3> QED  BY <2>4, <3>1, CallIs DEF o
  <2>12. ~Ended(y) => n.dead = "alive"
    BY <2>11 DEF Ended
  <2> QED  BY <2>10, <2>11, <2>12
<1> QED  BY <1>1, <1>2

(***************************************************************************)
(* The inductive invariant.  The screen has as many handles as it holds    *)
(* records, but one for both if they are shared (Counts); what it holds    *)
(* fits where the user is (Formed); and the persons on a list are in the   *)
(* database (Tidy), which is more than can be said of its other records.   *)
(***************************************************************************)
Second(scr) == IF scr.shared THEN NoRec ELSE scr.two

Layout == [at : Screens, one : Handle, two : Handle, shared : BOOLEAN, save : Handle, seq : SUBSET Key]

\* no line of a list is of a person who was deleted
Tidied(keys, S) == keys \subseteq Key /\ keys \cap Persons \subseteq S
Tidy == \A keys \in lists : Tidied(keys, stored)

Formed(scr, S) ==
    /\ scr \in Layout
    /\ Tidied(scr.seq, S)
    /\ scr.at \in One \cup Two <=> scr.one # NoRec
    /\ scr.at \in Two <=> scr.two # NoRec
    /\ scr.save # NoRec => scr.at \in {"indi", "fam"}
    /\ scr.shared => scr.at = "tandem" /\ scr.two = scr.one
    /\ scr.one # NoRec => Fits(scr.at, scr.one) /\ KeyOf(scr.one) \in S
    /\ scr.two # NoRec => Fits(scr.at, scr.two) /\ KeyOf(scr.two) \in S

Counts == Holds(Now, stored, screen.one, Second(screen), screen.save, NoRec)

Inv ==
    /\ stored \subseteq Key
    /\ ~Alive /\ Roomy => \/ strayed /\ cache.dead = "assert"
                          \/ cache.dead = "missing" /\ \E keys \in lists \cup {screen.seq} : Useless(keys)
    /\ Alive /\ ~robbed => Counts
    /\ Alive /\ ~robbed /\ ~strayed => Formed(screen, stored)

IInv == Inv /\ Tidy

(* Objects with a leaked reference only, that nothing leads to, are left out.*)
LEMMA ForgetIs ==
    ASSUME NEW c, NEW a, NEW b, NEW d, NEW L \in SUBSET Rec, NEW lost \in SUBSET L,
           Consistent(c), Counted(c, Out(a, b, d, NoRec, L)),
           \A r \in lost : r # a /\ r # b /\ r # d /\ \A el \in El : c.crec[el] # r,
           NEW n, n = Forget(c, lost)
    PROVE  /\ Consistent(n) /\ Counted(n, Out(a, b, d, NoRec, L \ lost))
           /\ SameLists(c, n) /\ SameLocks(c, n) /\ n.dead = c.dead /\ n.crec = c.crec
<1> DEFINE o == Out(a, b, d, NoRec, L)
           p == Out(a, b, d, NoRec, L \ lost)
           rf == [r \in Rec |-> IF r \in lost /\ c.refs[r] > 0 THEN c.refs[r] - 1 ELSE c.refs[r]]
           rl == [r \in Rec |-> IF r \in lost THEN NoEl ELSE c.rcel[r]]
<1>1. c \in CacheType /\ c.refs \in [Rec -> Nat] /\ c.rcel \in [Rec -> El \cup {NoEl}]
      /\ c.crec \in [El -> Rec \cup {NoRec}]
  BY CacheFields DEF Consistent
<1>2. n = [c EXCEPT !.refs = rf, !.rcel = rl, !.gone = {}]
  BY DEF Forget
<1>3. rf \in [Rec -> Nat] /\ rl \in [Rec -> El \cup {NoEl}]
  BY <1>1
<1>4. /\ \A r \in Rec : r \in lost => rl[r] = NoEl
      /\ \A r \in Rec : r \notin lost => rl[r] = c.rcel[r] /\ rf[r] = c.refs[r]
      /\ \A r \in lost : rf[r] = IF c.refs[r] > 0 THEN c.refs[r] - 1 ELSE c.refs[r]
  OBVIOUS
<1> HIDE DEF rf, rl
<1>5. /\ n.direct = c.direct /\ n.free = c.free /\ n.table = c.table /\ n.key = c.key
      /\ n.lock = c.lock /\ n.rpt = c.rpt /\ n.crec = c.crec /\ n.dead = c.dead
      /\ n.refs = rf /\ n.rcel = rl /\ n \in CacheType
  BY <1>1, <1>2, <1>3 DEF CacheType
<1>6. SameLists(c, n) /\ SameLocks(c, n)
  BY <1>5 DEF SameLists, SameLocks
<1>7. RecordsLinked(n)
  <2>1. ASSUME NEW el \in El, c.crec[el] # NoRec
        PROVE  n.refs[c.crec[el]] = c.refs[c.crec[el]] /\ n.rcel[c.crec[el]] = c.rcel[c.crec[el]]
    <3>1. c.crec[el] \in Rec /\ c.crec[el] \notin lost
      BY <1>1, <2>1
    <3> QED  BY <1>4, <1>5, <3>1
  <2> QED  BY <1>5, <2>1 DEF Consistent, RecordsLinked
<1>8. Consistent(n)
  BY <1>5, <1>6, <1>7, ListsAgain DEF Consistent
<1>9. Counted(n, p)
  <2>1. \A r \in Rec : Own(n, r) = Own(c, r) /\ Own(c, r) \in Nat
    BY <1>5 DEF Own
  <2>2. \A r \in lost : Own(c, r) = 0
    BY DEF Own
  <2>3. /\ o \in [Rec -> Nat] /\ p \in [Rec -> Nat]
        /\ \A r \in Rec : o[r] = Bit(a = r) + Bit(b = r) + Bit(d = r) + Bit(NoRec = r) + Bit(r \in L)
        /\ \A r \in Rec : p[r] = Bit(a = r) + Bit(b = r) + Bit(d = r) + Bit(NoRec = r) + Bit(r \in L \ lost)
    <3>1. /\ o \in [Rec -> Nat]
          /\ \A r \in Rec : o[r] = Bit(a = r) + Bit(b = r) + Bit(d = r) + Bit(NoRec = r) + Bit(r \in L)
      BY OutIs
    <3>2. /\ p \in [Rec -> Nat]
          /\ \A r \in Rec : p[r] = Bit(a = r) + Bit(b = r) + Bit(d = r) + Bit(NoRec = r) + Bit(r \in L \ lost)
      BY OutIs
    <3> QED  BY <3>1, <3>2
  <2>4. \A r \in lost : o[r] = 1 /\ p[r] = 0
    <3>1. \A r \in lost : Bit(a = r) = 0 /\ Bit(b = r) = 0 /\ Bit(d = r) = 0 /\ Bit(NoRec = r) = 0
                          /\ Bit(r \in L) = 1 /\ Bit(r \in L \ lost) = 0 /\ r \in Rec
      BY Constants DEF Bit
    <3> HIDE DEF o, p
    <3> QED  BY <2>3, <3>1
  <2>5. \A r \in Rec : r \notin lost => p[r] = o[r]
    <3>1. \A r \in Rec : r \notin lost => Bit(r \in L) = Bit(r \in L \ lost)
      BY DEF Bit
    <3> HIDE DEF o, p
    <3> QED  BY <2>3, <3>1
  <2>6. \A r \in Rec : c.refs[r] = Own(c, r) + o[r]
    BY DEF Counted
  <2> HIDE DEF o, p
  <2>7. ASSUME NEW r \in Rec PROVE n.refs[r] = Own(n, r) + p[r]
    <3>1. CASE r \in lost
      BY <1>4, <1>5, <2>1, <2>2, <2>4, <2>6, <3>1
    <3>2. CASE r \notin lost
      BY <1>4, <1>5, <2>1, <2>5, <2>6, <3>2
    <3> QED  BY <3>1, <3>2
  <2> QED  BY <2>3, <2>7 DEF Counted
<1> QED  BY <1>5, <1>6, <1>8, <1>9

LEMMA CommitIs ==
    ASSUME NEW S, NEW scr, NEW x, Holds(x, S, scr.one, Second(scr), scr.save, NoRec),
           Commit(x, scr), stored' = S
    PROVE  /\ Alive' => ~Ended(x) /\ screen' = scr /\ Counts'
           /\ ~Alive' => ~Roomy
<1>1. CASE Ended(x)
  <2>1. cache' = x.c /\ x.c.dead # "memory"
    BY <1>1 DEF Commit
  <2>2. ~Alive' /\ ~Roomy
    BY <1>1, <2>1 DEF Holds, Ended, Alive
  <2> QED  BY <2>2
<1>2. CASE ~Ended(x)
  <2> DEFINE L == x.leaked
             lost == L \ Reachable(x.c, scr)
             n == Forget(x.c, lost)
             a == scr.one
             b == Second(scr)
             d == scr.save
  <2>1. cache' = n /\ leaked' = L \cap Reachable(x.c, scr) /\ screen' = scr
    BY <1>2 DEF Commit
  <2>2. /\ x \in [c : CacheType, leaked : SUBSET Rec, got : [Key -> Handle]]
        /\ {a, b, d, NoRec} \subseteq Handle
        /\ Consistent(x.c) /\ Counted(x.c, Out(a, b, d, NoRec, L)) /\ x.c.dead = "alive"
        /\ \A el \in El : x.c.lock[el] = 0
        /\ \A k \in Key : x.c.table[k] # NoEl => k \in S
    BY <1>2 DEF Holds, Sane, Ended
  <2>3. L \in SUBSET Rec /\ lost \in SUBSET L /\ leaked' = L \ lost
    BY <2>1, <2>2
  <2>4. \A r \in lost : r # a /\ r # b /\ r # d /\ \A el \in El : x.c.crec[el] # r
    <3>1. \A r \in Rec : r \notin Reachable(x.c, scr) => r # scr.one /\ r # scr.two /\ r # scr.save
                             /\ \A el \in El : x.c.crec[el] # r
      BY DEF Reachable, Held
    <3>2. \A r \in Rec : r \notin Reachable(x.c, scr) => r # Second(scr)
      BY <3>1, Constants DEF Second
    <3> QED  BY <2>3, <3>1, <3>2
  <2> HIDE DEF lost, L, a, b, d
  <2>5. /\ Consistent(n) /\ Counted(n, Out(a, b, d, NoRec, L \ lost))
        /\ SameLists(x.c, n) /\ SameLocks(x.c, n) /\ n.dead = x.c.dead
    BY <2>2, <2>3, <2>4, ForgetIs
  <2> HIDE DEF n
  <2> DEFINE w == Now'
  <2>6. w = [c |-> n, leaked |-> L \ lost, got |-> [k \in Key |-> NoRec]]
    BY <2>1, <2>3 DEF Now
  <2>7. w.c = n /\ w.leaked = L \ lost /\ w.got = [k \in Key |-> NoRec]
    BY <2>6
  <2>8. w \in [c : CacheType, leaked : SUBSET Rec, got : [Key -> Handle]]
    <3>1. n \in CacheType /\ L \ lost \in SUBSET Rec /\ [k \in Key |-> NoRec] \in [Key -> Handle]
      BY <2>3, <2>5 DEF Consistent, Handle
    <3> QED  BY <2>6, <3>1
  <2>9. (\A el \in El : n.lock[el] = 0) /\ \A k \in Key : n.table[k] # NoEl => k \in S
    BY <2>2, <2>5 DEF SameLists, SameLocks
  <2> HIDE DEF w
  <2>10. Sane(w, S)
    BY <2>5, <2>7, <2>8, <2>9 DEF Sane
  <2>11. Holds(w, S, a, b, d, NoRec)
    BY <2>2, <2>5, <2>7, <2>10 DEF Holds, Ended
  <2>12. Counts' = Holds(w, S, a, b, d, NoRec)
    BY <2>1 DEF Counts, w, a, b, d, Second
  <2>13. Alive'
    BY <2>1, <2>2, <2>5 DEF Alive
  <2> QED  BY <1>2, <2>1, <2>11, <2>12, <2>13
<1> QED  BY <1>1, <1>2

-----------------------------------------------------------------------------
(* How a step ends. *)

LEMMA EndIs ==
    ASSUME NEW S \in SUBSET Key, NEW scr, NEW x, Holds(x, S, scr.one, Second(scr), scr.save, NoRec),
           Commit(x, scr), stored' = S, strayed' \/ (~Ended(x) => Formed(scr, S))
    PROVE  Inv'
<1>1. /\ Alive' => ~Ended(x) /\ screen' = scr /\ Counts'
      /\ ~Alive' => ~Roomy
  BY CommitIs
<1>2. Roomy' <=> Roomy
  BY DEF Roomy
<1>3. Alive' /\ ~strayed' => Formed(screen, stored)'
  <2> SUFFICES ASSUME Alive', ~strayed' PROVE Formed(screen, stored)'
    OBVIOUS
  <2>1. Formed(scr, S) /\ screen' = scr
    BY <1>1
  <2> QED  BY <2>1 DEF Formed
<1> QED  BY <1>1, <1>2, <1>3 DEF Inv

LEMMA DiesIs ==
    ASSUME NEW S \in SUBSET Key, NEW a, NEW b, NEW d, NEW e, NEW x, Holds(x, S, a, b, d, e),
           Commit(Call(x, Die(x.c, "assert")), screen), stored' = S, strayed'
    PROVE  Inv'
<1> DEFINE y == Call(x, Die(x.c, "assert"))
<1>1. CASE Ended(x)
  <2>1. y = x
    BY <1>1 DEF Call
  <2>2. cache' = x.c /\ x.c.dead # "memory"
    BY <1>1, <2>1 DEF Commit
  <2>3. ~Alive' /\ ~Roomy /\ (Roomy' <=> Roomy)
    BY <1>1, <2>2 DEF Holds, Ended, Alive, Roomy
  <2> QED  BY <2>3 DEF Inv
<1>2. CASE ~Ended(x)
  <2>1. x \in [c : CacheType, leaked : SUBSET Rec, got : [Key -> Handle]]
    BY <1>2 DEF Holds, Sane
  <2>2. y.c = Die(x.c, "assert")
    BY <1>2, <2>1 DEF Call
  <2>3. y.c.dead = "assert"
    BY <2>1, <2>2 DEF Die, CacheType
  <2> HIDE DEF y
  <2>4. cache' = y.c
    BY <2>3 DEF Commit, Ended, y
  <2>5. ~Alive' /\ cache'.dead = "assert"
    BY <2>3, <2>4 DEF Alive
  <2> QED  BY <2>5 DEF Inv
<1> QED  BY <1>1, <1>2

(* A step ends the program if it asks for the record of a line whose record  *)
(* is gone, or for a list without a line.                                    *)
Doomed(x) == Ended(x) /\ (Roomy => x.c.dead \in {"missing", "memory"})

LEMMA MissingIs ==
    ASSUME NEW x, NEW S, NEW a, NEW b, NEW d, NEW e, Holds(x, S, a, b, d, e)
    PROVE  Doomed(Missing(x))
<1>1. CASE Ended(x)
  <2>1. Missing(x) = x
    BY <1>1 DEF Missing, Call
  <2> QED  BY <1>1, <2>1 DEF Holds, Doomed
<1>2. CASE ~Ended(x)
  <2> DEFINE y == Missing(x)
  <2>1. x \in [c : CacheType, leaked : SUBSET Rec, got : [Key -> Handle]]
    BY <1>2 DEF Holds, Sane
  <2>2. y.c = Die(x.c, "missing")
    BY <1>2, <2>1 DEF Missing, Call
  <2>3. y.c.dead = "missing"
    BY <2>1, <2>2 DEF Die, CacheType
  <2> HIDE DEF y
  <2>4. Doomed(y)
    BY <2>3 DEF Doomed, Ended
  <2> QED  BY <2>4 DEF y
<1> QED  BY <1>1, <1>2

LEMMA LostEnds ==
    ASSUME NEW x, Doomed(x), NEW scr, Commit(x, scr), stored' = stored, stored \subseteq Key,
           NEW keys \in lists' \cup {screen.seq}, Useless(keys)
    PROVE  Inv'
<1>1. cache' = x.c /\ x.c.dead # "memory" /\ x.c.dead # "alive" /\ screen' = screen
  BY DEF Doomed, Ended, Commit
<1>2. ~Alive' /\ (Roomy => cache'.dead = "missing") /\ (Roomy' <=> Roomy)
  BY <1>1 DEF Doomed, Alive, Roomy
<1>3. Useless(keys)'
  BY DEF Useless, Gone
<1>4. \E ks \in (lists \cup {screen.seq})' : Useless(ks)'
  BY <1>1, <1>3
<1> QED  BY <1>2, <1>4 DEF Inv

LEMMA AskInVainKeeps ==
    ASSUME stored \subseteq Key, NEW x, NEW a, NEW b, NEW d, NEW e, Holds(x, stored, a, b, d, e),
           AskInVain(x)
    PROVE  Inv'
<1>1. Doomed(Missing(x))
  BY MissingIs
<1>2. Commit(Missing(x), screen) /\ stored' = stored /\ lists' = lists
  BY DEF AskInVain, Unchanged
<1>3. \E keys \in lists' : Useless(keys)
  <2>1. CASE \E k \in Key \ stored : {k} \in lists
    BY <1>2, <2>1 DEF Useless, Gone
  <2>2. CASE {} \in lists
    BY <1>2, <2>2 DEF Useless
  <2> QED  BY <2>1, <2>2 DEF AskInVain
<1> QED  BY <1>1, <1>2, <1>3, LostEnds

\* what the screens begin with
LEMMA BlankFields ==
    /\ Blank.at = "menu" /\ Blank.one = NoRec /\ Blank.two = NoRec /\ Blank.save = NoRec
    /\ ~Blank.shared /\ Blank.seq = {}
    /\ Blank \in Layout
<1>1. Blank = [at |-> "menu", one |-> NoRec, two |-> NoRec, shared |-> FALSE, save |-> NoRec, seq |-> {}]
  BY DEF Blank
<1>2. Blank \in Layout
  BY <1>1 DEF Layout, Screens, Handle
<1> QED  BY <1>1, <1>2

WithOne(code, r) == [Blank EXCEPT !.at = code, !.one = r]
WithTwo(code, r1, r2) == [Blank EXCEPT !.at = code, !.one = r1, !.two = r2]
WithList(keys) == [Blank EXCEPT !.at = "list", !.seq = keys]

LEMMA BlankOne ==
    ASSUME NEW code, NEW r, NEW scr, scr = WithOne(code, r)
    PROVE  /\ scr.at = code /\ scr.one = r /\ scr.two = NoRec /\ ~scr.shared /\ scr.save = NoRec
           /\ scr.seq = {}
           /\ code \in Screens /\ r \in Handle => scr \in Layout
<1>1. Blank \in Layout
  BY BlankFields
<1>2. /\ scr.at = code /\ scr.one = r /\ scr.two = Blank.two /\ scr.shared = Blank.shared
      /\ scr.save = Blank.save /\ scr.seq = Blank.seq
  BY <1>1 DEF Layout, WithOne
<1>3. code \in Screens /\ r \in Handle => scr \in Layout
  BY <1>1 DEF Layout, WithOne
<1> QED  BY <1>2, <1>3, BlankFields

LEMMA BlankTwo ==
    ASSUME NEW code, NEW r1, NEW r2, NEW scr, scr = WithTwo(code, r1, r2)
    PROVE  /\ scr.at = code /\ scr.one = r1 /\ scr.two = r2 /\ ~scr.shared /\ scr.save = NoRec
           /\ scr.seq = {}
           /\ code \in Screens /\ r1 \in Handle /\ r2 \in Handle => scr \in Layout
<1>1. Blank \in Layout
  BY BlankFields
<1>2. /\ scr.at = code /\ scr.one = r1 /\ scr.two = r2 /\ scr.shared = Blank.shared
      /\ scr.save = Blank.save /\ scr.seq = Blank.seq
  BY <1>1 DEF Layout, WithTwo
<1>3. code \in Screens /\ r1 \in Handle /\ r2 \in Handle => scr \in Layout
  BY <1>1 DEF Layout, WithTwo
<1> QED  BY <1>2, <1>3, BlankFields

LEMMA BlankList ==
    ASSUME NEW keys \in SUBSET Key, NEW scr, scr = WithList(keys)
    PROVE  /\ scr.at = "list" /\ scr.one = NoRec /\ scr.two = NoRec /\ ~scr.shared /\ scr.save = NoRec
           /\ scr.seq = keys /\ scr \in Layout
<1>1. Blank \in Layout
  BY BlankFields
<1>2. /\ scr.at = "list" /\ scr.one = Blank.one /\ scr.two = Blank.two /\ scr.shared = Blank.shared
      /\ scr.save = Blank.save /\ scr.seq = keys
  BY <1>1 DEF Layout, WithList
<1>3. scr \in Layout
  BY <1>1 DEF Layout, Screens, WithList
<1> QED  BY <1>2, <1>3, BlankFields

LEMMA ShowIs ==
    ASSUME NEW S \in SUBSET Key, NEW x, NEW r, Holds(x, S, r, NoRec, NoRec, NoRec),
           NEW code \in One, Show(x, code, r), stored' = S,
           ~Ended(x) => r \in Rec /\ KeyOf(r) \in S /\ (strayed' \/ Fits(code, r))
    PROVE  Inv'
<1> DEFINE scr == WithOne(code, r)
<1>1. scr = WithOne(code, r)
  OBVIOUS
<1>2. Commit(x, scr)
  BY DEF Show, WithOne
<1> HIDE DEF scr
<1>3. scr.at = code /\ scr.one = r /\ scr.two = NoRec /\ ~scr.shared /\ scr.save = NoRec /\ scr.seq = {}
  BY <1>1, BlankOne
<1>4. Holds(x, S, scr.one, Second(scr), scr.save, NoRec)
  BY <1>3 DEF Second
<1>5. strayed' \/ (~Ended(x) => Formed(scr, S))
  <2> SUFFICES ASSUME ~strayed', ~Ended(x) PROVE Formed(scr, S)
    OBVIOUS
  <2>1. r \in Rec /\ KeyOf(r) \in S /\ Fits(code, r) /\ r # NoRec
    BY Constants
  <2>2. code \in Screens /\ code \notin Two
    BY DEF One, Two, Screens
  <2>3. r \in Handle
    BY <2>1 DEF Handle
  <2>4. scr \in Layout
    BY <1>1, <2>2, <2>3, BlankOne
  <2> QED  BY <1>3, <2>1, <2>2, <2>4 DEF Formed, Tidied
<1> QED  BY <1>2, <1>4, <1>5, EndIs

LEMMA ShowTwoIs ==
    ASSUME NEW S \in SUBSET Key, NEW x, NEW r1, NEW r2, Holds(x, S, r1, r2, NoRec, NoRec),
           NEW code \in Two, ShowTwo(x, code, r1, r2), stored' = S,
           ~Ended(x) => /\ r1 \in Rec /\ KeyOf(r1) \in S /\ Fits(code, r1)
                        /\ r2 \in Rec /\ KeyOf(r2) \in S /\ Fits(code, r2)
    PROVE  Inv'
<1> DEFINE scr == WithTwo(code, r1, r2)
<1>1. scr = WithTwo(code, r1, r2)
  OBVIOUS
<1>2. Commit(x, scr)
  BY DEF ShowTwo, WithTwo
<1> HIDE DEF scr
<1>3. scr.at = code /\ scr.one = r1 /\ scr.two = r2 /\ ~scr.shared /\ scr.save = NoRec /\ scr.seq = {}
  BY <1>1, BlankTwo
<1>4. Holds(x, S, scr.one, Second(scr), scr.save, NoRec)
  BY <1>3 DEF Second
<1>5. ~Ended(x) => Formed(scr, S)
  <2> SUFFICES ASSUME ~Ended(x) PROVE Formed(scr, S)
    OBVIOUS
  <2>1. /\ r1 \in Rec /\ KeyOf(r1) \in S /\ Fits(code, r1) /\ r1 # NoRec
        /\ r2 \in Rec /\ KeyOf(r2) \in S /\ Fits(code, r2) /\ r2 # NoRec
    BY Constants
  <2>2. code \in Screens
    BY DEF Two, Screens
  <2>3. r1 \in Handle /\ r2 \in Handle
    BY <2>1 DEF Handle
  <2>4. scr \in Layout
    BY <1>1, <2>2, <2>3, BlankTwo
  <2> QED  BY <1>3, <2>1, <2>2, <2>4 DEF Formed, Tidied
<1> QED  BY <1>2, <1>4, <1>5, EndIs

\* the user is at no record
LEMMA NothingShown ==
    ASSUME NEW S, NEW keys, Tidied(keys, S), NEW scr,
           (scr = Blank /\ keys = {}) \/ scr = WithList(keys)
    PROVE  Formed(scr, S) /\ scr.one = NoRec /\ Second(scr) = NoRec /\ scr.save = NoRec
<1>1. "menu" \notin One \cup Two /\ "list" \notin One \cup Two
  BY DEF One, Two
<1>2. CASE scr = Blank /\ keys = {}
  BY <1>1, <1>2, BlankFields DEF Formed, Second, Tidied
<1>3. CASE scr = WithList(keys)
  <2>1. /\ scr.at = "list" /\ scr.one = NoRec /\ scr.two = NoRec /\ ~scr.shared /\ scr.save = NoRec
        /\ scr.seq = keys /\ scr \in Layout
    BY <1>3, BlankList DEF Tidied
  <2> QED  BY <1>1, <2>1 DEF Formed, Second
<1> QED  BY <1>2, <1>3

LEMMA BlankIs ==
    ASSUME NEW S \in SUBSET Key, NEW x, Holds(x, S, NoRec, NoRec, NoRec, NoRec),
           Commit(x, Blank), stored' = S
    PROVE  Inv'
<1>1. Tidied({}, S)
  BY DEF Tidied
<1>2. Formed(Blank, S) /\ Blank.one = NoRec /\ Second(Blank) = NoRec /\ Blank.save = NoRec
  BY <1>1, NothingShown
<1>3. Holds(x, S, Blank.one, Second(Blank), Blank.save, NoRec)
  BY <1>2
<1> QED  BY <1>2, <1>3, EndIs

LEMMA ShowListIs ==
    ASSUME NEW x, Holds(x, stored, NoRec, NoRec, NoRec, NoRec), stored \subseteq Key,
           Tidy, ShowList(x), stored' = stored
    PROVE  Inv'
<1>1. PICK keys \in (SUBSET stored) \cup lists : Commit(x, WithList(keys))
  BY DEF ShowList, WithList
<1>2. Tidied(keys, stored)
  BY DEF Tidy, Tidied
<1> DEFINE scr == WithList(keys)
<1>3. scr = WithList(keys)
  OBVIOUS
<1>4. Commit(x, scr)
  BY <1>1
<1> HIDE DEF scr
<1>5. Formed(scr, stored) /\ scr.one = NoRec /\ Second(scr) = NoRec /\ scr.save = NoRec
  BY <1>2, <1>3, NothingShown
<1>6. Holds(x, stored, scr.one, Second(scr), scr.save, NoRec)
  BY <1>5
<1> QED  BY <1>4, <1>5, <1>6, EndIs

LEMMA ScreenOfIs ==
    ASSUME NEW k \in Key, NEW r, KeyOf(r) = k
    PROVE  ScreenOf(k) \in One /\ Fits(ScreenOf(k), r)
<1>1. CASE k \in Persons
  BY <1>1 DEF ScreenOf, One, Fits
<1>2. CASE k \notin Persons /\ k \in Families
  BY <1>2 DEF ScreenOf, One, Fits
<1>3. CASE k \notin Persons /\ k \notin Families
  BY <1>3 DEF ScreenOf, One, Fits, Others
<1> QED  BY <1>1, <1>2, <1>3

(* The screen stays, with or without something in save.                      *)
WithSave(scr, r) == [scr EXCEPT !.save = r]

LEMMA MoreStored ==
    ASSUME NEW scr, NEW S, NEW T, S \subseteq T, Formed(scr, S)
    PROVE  Formed(scr, T)
  BY DEF Formed, Tidied

LEMMA WithSaveIs ==
    ASSUME NEW scr, NEW S, Formed(scr, S), NEW r \in Handle, r # NoRec => scr.at \in {"indi", "fam"},
           NEW s, s = WithSave(scr, r)
    PROVE  Formed(s, S) /\ s.one = scr.one /\ Second(s) = Second(scr) /\ s.save = r
<1>1. scr \in Layout
  BY DEF Formed, Layout
<1>2. /\ s.at = scr.at /\ s.one = scr.one /\ s.two = scr.two /\ s.shared = scr.shared /\ s.save = r
      /\ s.seq = scr.seq
  BY <1>1 DEF Layout, WithSave
<1>3. s \in Layout
  BY <1>1 DEF Layout, WithSave
<1> QED  BY <1>2, <1>3 DEF Formed, Second, Layout

LEMMA WithSaveFields ==
    ASSUME NEW scr, NEW S, Formed(scr, S), NEW r, NEW s, s = WithSave(scr, r)
    PROVE  s.one = scr.one /\ Second(s) = Second(scr) /\ s.save = r
<1>1. scr \in Layout
  BY DEF Formed, Layout
<1>2. s.one = scr.one /\ s.two = scr.two /\ s.shared = scr.shared /\ s.save = r
  BY <1>1 DEF Layout, WithSave
<1> QED  BY <1>2 DEF Second

LEMMA StayEnds ==
    ASSUME Formed(screen, stored), NEW S \in SUBSET Key, stored \subseteq S, NEW r, NEW x,
           Holds(x, S, screen.one, Second(screen), r, NoRec),
           Commit(x, [screen EXCEPT !.save = r]), stored' = S,
           r # NoRec => screen.at \in {"indi", "fam"},
           ~Ended(x) => r \in Handle
    PROVE  Inv'
<1> DEFINE s == WithSave(screen, r)
<1>1. Commit(x, s)
  BY DEF WithSave
<1> HIDE DEF s
<1>2. s.one = screen.one /\ Second(s) = Second(screen) /\ s.save = r
  BY WithSaveFields DEF s
<1>3. Holds(x, S, s.one, Second(s), s.save, NoRec)
  BY <1>2
<1>4. ~Ended(x) => Formed(s, S)
  <2> SUFFICES ASSUME ~Ended(x) PROVE Formed(s, S)
    OBVIOUS
  <2>1. Formed(s, stored)
    BY WithSaveIs DEF s
  <2> QED  BY <2>1, MoreStored
<1> QED  BY <1>1, <1>3, <1>4, EndIs

LEMMA AsBefore ==
    ASSUME Formed(screen, stored), stored \subseteq Key, NEW x,
           Holds(x, stored, screen.one, Second(screen), screen.save, NoRec),
           Commit(x, screen), stored' = stored
    PROVE  Inv'
  BY EndIs

(* What the screens of one record have in their hands.                       *)
LEMMA AtOne ==
    ASSUME NEW S, Formed(screen, S), At(One)
    PROVE  /\ screen.one \in Rec /\ screen.two = NoRec /\ Second(screen) = NoRec
           /\ KeyOf(screen.one) \in S /\ Fits(screen.at, screen.one)
           /\ screen.save \in Handle
<1>1. screen.at \notin Two
  BY DEF At, One, Two
<1>2. screen \in Layout /\ screen.one # NoRec /\ screen.two = NoRec
  BY <1>1 DEF Formed, At, Layout
<1> QED  BY <1>2 DEF Formed, Layout, Handle, Second

LEMMA AtTwo ==
    ASSUME NEW S, Formed(screen, S), At(Two)
    PROVE  /\ screen.one \in Rec /\ screen.two \in Rec /\ screen.save = NoRec
           /\ KeyOf(screen.one) \in S /\ Fits(screen.at, screen.one)
           /\ KeyOf(screen.two) \in S /\ Fits(screen.at, screen.two)
           /\ screen.shared \in BOOLEAN
           /\ (screen.shared => screen.at = "tandem" /\ screen.two = screen.one)
<1>1. screen \in Layout /\ screen.one # NoRec /\ screen.two # NoRec
  BY DEF Formed, At, Layout
<1>2. screen.save = NoRec
  BY DEF Formed, At, Two
<1> QED  BY <1>1, <1>2 DEF Formed, Layout, Handle

LEMMA AtNone ==
    ASSUME NEW S, Formed(screen, S), At({"menu", "list"})
    PROVE  /\ screen.one = NoRec /\ Second(screen) = NoRec /\ screen.save = NoRec
           /\ Tidied(screen.seq, S)
<1>1. screen.at \notin One \cup Two
  BY DEF At, One, Two
<1>2. screen.one = NoRec /\ screen.two = NoRec /\ Tidied(screen.seq, S)
  BY <1>1 DEF Formed
<1>3. screen.save = NoRec
  BY DEF Formed, At
<1> QED  BY <1>2, <1>3 DEF Second

(* The screen has been displayed.                                            *)
LEMMA ShownIs ==
    ASSUME Formed(screen, stored), stored \subseteq Key, Counts, At(One \cup Two),
           NEW seen \in stored, NEW x, x = Shown(seen)
    PROVE  /\ Holds(x, stored, screen.one, Second(screen), screen.save, NoRec)
           /\ At(Two) /\ ~Ended(x) => x.c.table[KeyOf(screen.two)] # NoEl
<1> DEFINE a == screen.one
           b == Second(screen)
           s == screen.save
           y == Display(Now, a, seen)
<1>1. Holds(Now, stored, a, b, s, NoRec)
  BY DEF Counts
<1>2. At(One) \/ At(Two)
  BY DEF At
<1>3. a \in Rec /\ KeyOf(a) \in stored /\ seen \in Key
  BY <1>2, AtOne, AtTwo
<1> HIDE DEF a, b, s
<1>4. Holds(y, stored, a, b, s, NoRec)
  BY <1>1, <1>3, DisplayIs
<1>5. CASE At(One)
  <2>1. x = y /\ ~At(Two)
    BY <1>5, AtOne DEF Shown, a, At, One, Two
  <2> QED  BY <1>4, <2>1 DEF a, b, s
<1>6. CASE At(Two)
  <2> DEFINE t == screen.two
  <2>1. t \in Rec /\ KeyOf(t) \in stored /\ KeyOf(t) \in Key /\ t # NoRec
        /\ screen.shared \in BOOLEAN /\ (screen.shared => t = a)
    BY <1>6, AtTwo, RecKey, Constants DEF a
  <2>2. x = Display(y, t, KeyOf(t))
    BY <2>1 DEF Shown, a
  <2> HIDE DEF y
  <2>3. CASE screen.shared
    <3>1. t = a
      BY <2>1, <2>3
    <3>2. /\ Holds(x, stored, a, b, s, NoRec)
          /\ ~Ended(x) => x.c.table[KeyOf(t)] # NoEl
      BY <1>4, <2>1, <2>2, <3>1, DisplayIs
    <3> QED  BY <3>2 DEF a, b, s
  <2>4. CASE ~screen.shared
    <3>1. b = t
      BY <2>4 DEF b, Second
    <3>2. Holds(y, stored, b, a, s, NoRec)
      BY <1>4, HoldsSwaps
    <3>3. /\ Holds(x, stored, b, a, s, NoRec)
          /\ ~Ended(x) => x.c.table[KeyOf(t)] # NoEl
      BY <2>1, <2>2, <3>1, <3>2, DisplayIs
    <3>4. Holds(x, stored, a, b, s, NoRec)
      BY <3>3, HoldsSwaps
    <3> QED  BY <3>3, <3>4 DEF a, b, s
  <2> QED  BY <2>3, <2>4
<1> QED  BY <1>2, <1>5, <1>6

-----------------------------------------------------------------------------
(* The commands of the menu.  A command finds the screen, the caches and the *)
(* handles as the invariant says, with no reference robbed and nobody astray.*)

Ready == stored \subseteq Key /\ Formed(screen, stored) /\ Counts /\ Tidy

\* with handle a of the screen, a step has got the record of k
Has(x, S, a, k) ==
    /\ Holds(x, S, a, NoRec, NoRec, Ref(x, k))
    /\ ~Ended(x) => Ref(x, k) \in Rec /\ KeyOf(Ref(x, k)) = k

LEMMA ShowKeyIs ==
    ASSUME NEW S \in SUBSET Key, NEW x, NEW k \in S, NEW r, Holds(x, S, r, NoRec, NoRec, NoRec),
           ~Ended(x) => r \in Rec /\ KeyOf(r) = k, Show(x, ScreenOf(k), r), stored' = S
    PROVE  Inv'
<1>1. ScreenOf(k) \in One
  BY DEF ScreenOf, One
<1>2. ~Ended(x) => r \in Rec /\ KeyOf(r) \in S /\ Fits(ScreenOf(k), r)
  BY ScreenOfIs
<1> HIDE DEF ScreenOf
<1> QED  BY <1>1, <1>2, ShowIs

\* the screen lets its handle go, or forgets it
LEMMA LeftIs ==
    ASSUME NEW x, NEW S, NEW a, NEW r, Holds(x, S, a, NoRec, NoRec, r),
           NEW y, y = Drop(x, a) \/ y = Leak(x, a)
    PROVE  Holds(y, S, r, NoRec, NoRec, NoRec) /\ (~Ended(y) => ~Ended(x))
<1>1. Holds(y, S, NoRec, NoRec, NoRec, r) /\ (~Ended(y) => ~Ended(x))
  BY DropIs, LeakIs
<1> QED  BY <1>1, HoldsSwaps

LEMMA GotIs ==
    ASSUME NEW x, NEW S \in SUBSET Key, NEW a, Holds(x, S, a, NoRec, NoRec, NoRec),
           NEW k \in S, NEW y, y = Get(x, k)
    PROVE  Has(y, S, a, k) /\ (~Ended(y) => Latest(y, k) /\ ~Ended(x))
<1>1. /\ Holds(y, S, a, NoRec, NoRec, Ref(y, k))
      /\ ~Ended(y) => Ref(y, k) \in Rec /\ KeyOf(Ref(y, k)) = k /\ Latest(y, k) /\ ~Ended(x)
  BY GetIs
<1> QED  BY <1>1 DEF Has

LEMMA MadeIs ==
    ASSUME NEW x, stored \subseteq Key, NEW a, Holds(x, stored, a, NoRec, NoRec, NoRec),
           NEW k \in Key \ stored, NEW y, y = New(x, k)
    PROVE  Has(y, stored \cup {k}, a, k)
<1>1. /\ Holds(y, stored \cup {k}, a, NoRec, NoRec, Ref(y, k))
      /\ ~Ended(y) => Ref(y, k) \in Rec /\ KeyOf(Ref(y, k)) = k
  BY NewIs
<1> QED  BY <1>1 DEF Has

LEMMA EmptyHanded ==
    ASSUME Ready, At({"menu", "list"})
    PROVE  Holds(Now, stored, NoRec, NoRec, NoRec, NoRec)
  BY AtNone DEF Ready, Counts

LEMMA OpenKeeps ==
    ASSUME Ready, NEW k \in stored, NEW x, x = Get(Now, k), Open(k, x)
    PROVE  Inv'
<1>1. Holds(Now, stored, NoRec, NoRec, NoRec, NoRec)
  BY EmptyHanded DEF Open, At
<1>2. Has(x, stored, NoRec, k) /\ stored \in SUBSET Key
  BY <1>1, GotIs DEF Ready
<1> DEFINE r == Ref(x, k)
<1>3. Holds(x, stored, r, NoRec, NoRec, NoRec) /\ (~Ended(x) => r \in Rec /\ KeyOf(r) = k)
  BY <1>2, HoldsSwaps DEF Has
<1>4. Show(x, ScreenOf(k), r) /\ stored' = stored
  BY DEF Open, Unchanged
<1> HIDE DEF r
<1> QED  BY <1>2, <1>3, <1>4, ShowKeyIs

LEMMA OpenListKeeps ==
    ASSUME Ready, OpenList
    PROVE  Inv'
<1>1. Holds(Now, stored, NoRec, NoRec, NoRec, NoRec) /\ stored \subseteq Key /\ Tidy
  BY EmptyHanded DEF OpenList, At, Ready
<1>2. ShowList(Now) /\ stored' = stored
  BY DEF OpenList, Unchanged
<1> HIDE DEF Now
<1> QED  BY <1>1, <1>2, ShowListIs

\* a record is read into its cache
LEMMA ReadIs ==
    ASSUME NEW x, NEW S \in SUBSET Key, NEW a, NEW b, NEW d, NEW e, Holds(x, S, a, b, d, e), NEW k \in S,
           NEW y, y = Call(x, KeyToCacheel(x.c, k))
    PROVE  /\ Holds(y, S, a, b, d, e)
           /\ ~Ended(y) => /\ ~Ended(x) /\ y.got = x.got /\ y.leaked = x.leaked
                           /\ y.c.table[k] # NoEl
<1> DEFINE n == KeyToCacheel(x.c, k)
           o == Out(a, b, d, e, x.leaked)
<1>1. ASSUME ~Ended(x)
      PROVE  IF n.dead # "alive" THEN Roomy => n.dead = "memory"
             ELSE /\ Consistent(n) /\ Counted(n, o)
                  /\ \A el \in El : n.lock[el] = 0
                  /\ \A q \in Key : n.table[q] # NoEl => q \in S
                  /\ n.table[k] # NoEl
  <2>1. /\ Consistent(x.c) /\ Counted(x.c, o) /\ x.c.dead = "alive"
        /\ \A el \in El : x.c.lock[el] = 0
        /\ Within(x.c, S)
    BY <1>1 DEF Holds, Sane, Ended, Within
  <2> HIDE DEF o
  <2>2. Roomy => RoomFor(x.c, k)
    BY <2>1 DEF Roomy, RoomFor
  <2>3. /\ Consistent(n) /\ SameLocks(x.c, n) /\ Within(n, S)
        /\ n.dead = "alive" => Counted(n, o) /\ n.table[k] \in El
        /\ Roomy => n.dead \in {"alive", "memory"}
    BY <2>1, <2>2, CacheRead
  <2> HIDE DEF n
  <2> QED  BY <2>1, <2>3, Constants DEF Within, SameLocks
<1>2. y = Call(x, n)
  OBVIOUS
<1> HIDE DEF n
<1>3. /\ Holds(y, S, a, b, d, e)
      /\ ~Ended(y) => ~Ended(x) /\ y.c = n /\ y.got = x.got /\ y.leaked = x.leaked
  BY <1>1, <1>2, CallIs DEF o
<1>4. ~Ended(y) => n.dead = "alive"
  BY <1>3 DEF Ended
<1> QED  BY <1>1, <1>3, <1>4

LEMMA DeleteRecordKeeps ==
    ASSUME Ready, NEW k \in stored, NEW x, x = Call(Now, KeyToCacheel(cache, k)), DeleteRecord(k, x)
    PROVE  Inv'
<1>1. Holds(Now, stored, NoRec, NoRec, NoRec, NoRec) /\ stored \in SUBSET Key /\ k \in Key
  BY EmptyHanded DEF DeleteRecord, At, Ready
<1>2. x = Call(Now, KeyToCacheel(Now.c, k))
  BY DEF Now
<1> HIDE DEF Now
<1>3. Holds(x, stored, NoRec, NoRec, NoRec, NoRec) /\ (~Ended(x) => x.c.table[k] # NoEl)
  BY <1>1, <1>2, ReadIs
<1> DEFINE y == Call(x, RemoveFromCache(x.c, k))
<1>4. Holds(y, stored \ {k}, NoRec, NoRec, NoRec, NoRec)
  BY <1>1, <1>3, RemoveIs
<1>5. Commit(y, Blank) /\ stored' = stored \ {k} /\ stored \ {k} \in SUBSET Key
  BY <1>1 DEF DeleteRecord, Removes
<1> HIDE DEF y
<1> QED  BY <1>4, <1>5, BlankIs

-----------------------------------------------------------------------------
(* The commands of the screens of one record. *)

LEMMA GoKeeps ==
    ASSUME Ready, NEW k \in stored, NEW x, Has(x, stored, screen.one, k), Go(k, x)
    PROVE  Inv'
<1> DEFINE r == Ref(x, k)
           y == Drop(x, screen.one)
<1>1. Show(y, ScreenOf(k), r) /\ stored' = stored /\ stored \in SUBSET Key
  BY DEF Go, Unchanged, Ready
<1>2. Holds(x, stored, screen.one, NoRec, NoRec, r) /\ (~Ended(x) => r \in Rec /\ KeyOf(r) = k)
  BY DEF Has
<1> HIDE DEF r
<1>3. Holds(y, stored, r, NoRec, NoRec, NoRec) /\ (~Ended(y) => ~Ended(x))
  BY <1>2, LeftIs
<1> HIDE DEF y
<1> QED  BY <1>1, <1>2, <1>3, ShowKeyIs

LEMMA AuxHistoryKeeps ==
    ASSUME Ready, NEW k \in stored, NEW x, Has(x, stored, screen.one, k), AuxHistory(k, x)
    PROVE  Inv'
<1> DEFINE r == Ref(x, k)
           y == Leak(x, screen.one)
<1>1. Show(y, ScreenOf(k), r) /\ stored' = stored /\ stored \in SUBSET Key
  BY DEF AuxHistory, Unchanged, Ready
<1>2. Holds(x, stored, screen.one, NoRec, NoRec, r) /\ (~Ended(x) => r \in Rec /\ KeyOf(r) = k)
  BY DEF Has
<1> HIDE DEF r
<1>3. Holds(y, stored, r, NoRec, NoRec, NoRec) /\ (~Ended(y) => ~Ended(x))
  BY <1>2, LeftIs
<1> HIDE DEF y
<1> QED  BY <1>1, <1>2, <1>3, ShowKeyIs

(* The child is got twice; the handle that is forgotten is on the same       *)
(* record as the one that is kept.                                           *)
LEMMA GoToChildKeeps ==
    ASSUME Ready, NEW k \in stored, NEW x, Has(x, stored, screen.one, k), ~Ended(x) => Latest(x, k),
           GoToChild(k, x)
    PROVE  Inv'
<1> DEFINE r == Ref(x, k)
           a == screen.one
           y == Get(x, k)
           q == Ref(y, k)
           z == Leak(y, r)
           w == Drop(z, a)
<1>1. Show(w, "indi", r) /\ stored' = stored /\ stored \in SUBSET Key /\ k \in Persons
  BY DEF GoToChild, Unchanged, Ready
<1>2. Holds(x, stored, a, r, NoRec, NoRec) /\ (~Ended(x) => r \in Rec /\ KeyOf(r) = k)
  BY HoldsSwaps DEF Has
<1>3. /\ Holds(y, stored, a, r, NoRec, q)
      /\ ~Ended(y) => ~Ended(x) /\ q = r
  BY <1>1, <1>2, GetIs
<1> HIDE DEF y, r, a, q
<1>4. Holds(y, stored, r, a, NoRec, q)
  BY <1>3, HoldsSwaps
<1>5. Holds(z, stored, NoRec, a, NoRec, q) /\ (~Ended(z) => ~Ended(y))
  BY <1>4, LeakIs
<1> HIDE DEF z
<1>6. Holds(z, stored, a, NoRec, NoRec, q)
  BY <1>5, HoldsSwaps
<1>7. Holds(w, stored, q, NoRec, NoRec, NoRec) /\ (~Ended(w) => ~Ended(z))
  BY <1>6, LeftIs
<1> HIDE DEF w
<1>8. Holds(w, stored, r, NoRec, NoRec, NoRec)
  BY <1>3, <1>5, <1>7 DEF Holds
<1>9. ~Ended(w) => r \in Rec /\ KeyOf(r) \in stored /\ Fits("indi", r)
  BY <1>1, <1>2, <1>3, <1>5, <1>7 DEF Fits
<1> QED  BY <1>1, <1>8, <1>9, ShowIs DEF One

LEMMA BesideKeeps ==
    ASSUME Ready, NEW k \in stored, NEW x, Has(x, stored, screen.one, k), Beside(k, x)
    PROVE  Inv'
<1> DEFINE r == Ref(x, k)
           a == screen.one
<1>1. stored' = stored /\ stored \in SUBSET Key /\ Formed(screen, stored)
      /\ \/ At({"indi"}) /\ k \in Persons /\ ShowTwo(x, "tandem", a, r)
         \/ At({"fam"}) /\ k \in Families /\ ShowTwo(x, "2fam", a, r)
  BY DEF Beside, Unchanged, Ready
<1>2. At(One)
  BY <1>1 DEF At, One
<1>3. a \in Rec /\ KeyOf(a) \in stored /\ Fits(screen.at, a)
  BY <1>1, <1>2, AtOne
<1>4. Holds(x, stored, a, r, NoRec, NoRec) /\ (~Ended(x) => r \in Rec /\ KeyOf(r) = k)
  BY HoldsSwaps DEF Has
<1> HIDE DEF a, r
<1>5. CASE At({"indi"}) /\ k \in Persons /\ ShowTwo(x, "tandem", a, r)
  <2>1. Fits("tandem", a) /\ (KeyOf(r) = k => Fits("tandem", r))
    BY <1>3, <1>5 DEF Fits, At
  <2> QED  BY <1>1, <1>3, <1>4, <1>5, <2>1, ShowTwoIs DEF Two
<1>6. CASE At({"fam"}) /\ k \in Families /\ ShowTwo(x, "2fam", a, r)
  <2>1. Fits("2fam", a) /\ (KeyOf(r) = k => Fits("2fam", r))
    BY <1>3, <1>6 DEF Fits, At
  <2> QED  BY <1>1, <1>3, <1>4, <1>6, <2>1, ShowTwoIs DEF Two
<1> QED  BY <1>1, <1>5, <1>6

(* Two records got, one after the other: perhaps the same one twice.         *)
LEMMA GetTwoIs ==
    ASSUME NEW S \in SUBSET Key, NEW x, NEW a, NEW b, NEW k \in S, NEW m \in S,
           Holds(x, S, a, b, Ref(x, k), NoRec),
           ~Ended(x) => Ref(x, k) \in Rec /\ KeyOf(Ref(x, k)) = k /\ (m = k => Latest(x, k)),
           NEW y, y = Get(x, m)
    PROVE  /\ Holds(y, S, a, b, Ref(y, k), Ref(y, m))
           /\ ~Ended(y) => /\ Ref(y, k) \in Rec /\ KeyOf(Ref(y, k)) = k
                           /\ Ref(y, m) \in Rec /\ KeyOf(Ref(y, m)) = m
<1>1. /\ Holds(y, S, a, b, Ref(x, k), Ref(y, m))
      /\ ~Ended(y) => /\ ~Ended(x)
                      /\ Ref(y, m) \in Rec /\ KeyOf(Ref(y, m)) = m
                      /\ \A q \in Key : q # m => Ref(y, q) = Ref(x, q)
                      /\ Latest(x, m) => Ref(y, m) = Ref(x, m)
  BY GetIs
<1>2. ~Ended(y) => Ref(y, k) = Ref(x, k)
  BY <1>1
<1>3. Holds(y, S, a, b, Ref(y, k), Ref(y, m))
  BY <1>1, <1>2 DEF Holds
<1> QED  BY <1>1, <1>2, <1>3

LEMMA GoToTwoKeeps ==
    ASSUME Ready, NEW k \in stored, NEW x, Has(x, stored, screen.one, k), ~Ended(x) => Latest(x, k),
           NEW m \in stored, NEW y, y = Get(x, m), GoToTwo(k, m, y)
    PROVE  Inv'
<1> DEFINE r == Ref(y, k)
           q == Ref(y, m)
           a == screen.one
           z == Drop(y, a)
<1>1. /\ stored' = stored /\ stored \in SUBSET Key
      /\ \/ {k, m} \subseteq Persons /\ ShowTwo(z, "tandem", r, q)
         \/ {k, m} \subseteq Families /\ ShowTwo(z, "2fam", r, q)
  BY DEF GoToTwo, Unchanged, Ready
<1>2. /\ Holds(x, stored, a, NoRec, Ref(x, k), NoRec)
      /\ ~Ended(x) => Ref(x, k) \in Rec /\ KeyOf(Ref(x, k)) = k
  BY HoldsSwaps DEF Has
<1>3. /\ Holds(y, stored, a, NoRec, r, q)
      /\ ~Ended(y) => r \in Rec /\ KeyOf(r) = k /\ q \in Rec /\ KeyOf(q) = m
  BY <1>1, <1>2, GetTwoIs
<1> HIDE DEF r, q, a
<1>4. Holds(z, stored, NoRec, NoRec, r, q) /\ (~Ended(z) => ~Ended(y))
  BY <1>3, DropIs
<1> HIDE DEF z
<1>5. Holds(z, stored, r, NoRec, NoRec, q)
  BY <1>4, HoldsSwaps
<1>6. Holds(z, stored, r, q, NoRec, NoRec)
  BY <1>5, HoldsSwaps
<1>7. CASE {k, m} \subseteq Persons /\ ShowTwo(z, "tandem", r, q)
  <2>1. KeyOf(r) = k /\ KeyOf(q) = m => Fits("tandem", r) /\ Fits("tandem", q)
    BY <1>7 DEF Fits
  <2> QED  BY <1>1, <1>3, <1>4, <1>6, <1>7, <2>1, ShowTwoIs DEF Two
<1>8. CASE {k, m} \subseteq Families /\ ShowTwo(z, "2fam", r, q)
  <2>1. KeyOf(r) = k /\ KeyOf(q) = m => Fits("2fam", r) /\ Fits("2fam", q)
    BY <1>8 DEF Fits
  <2> QED  BY <1>1, <1>3, <1>4, <1>6, <1>8, <2>1, ShowTwoIs DEF Two
<1> QED  BY <1>1, <1>7, <1>8

LEMMA GoToListKeeps ==
    ASSUME Ready, NEW x, Holds(x, stored, screen.one, NoRec, NoRec, NoRec), GoToList(x)
    PROVE  Inv'
<1> DEFINE y == Drop(x, screen.one)
<1>1. Holds(y, stored, NoRec, NoRec, NoRec, NoRec)
  BY LeftIs
<1>2. ShowList(y) /\ stored' = stored /\ stored \subseteq Key /\ Tidy
  BY DEF GoToList, Unchanged, Ready
<1> HIDE DEF y
<1> QED  BY <1>1, <1>2, ShowListIs

LEMMA QuitKeeps ==
    ASSUME Ready, NEW x, Holds(x, stored, screen.one, NoRec, NoRec, NoRec), Quit(x)
    PROVE  Inv'
<1> DEFINE y == Drop(x, screen.one)
<1>1. Holds(y, stored, NoRec, NoRec, NoRec, NoRec)
  BY LeftIs
<1>2. Commit(y, Blank) /\ stored' = stored /\ stored \in SUBSET Key
  BY DEF Quit, Unchanged, Ready
<1> HIDE DEF y
<1> QED  BY <1>1, <1>2, BlankIs

\* the screen of one record goes on with nothing in save
LEMMA UnsavedEnds ==
    ASSUME Ready, At(One), NEW S \in SUBSET Key, stored \subseteq S, NEW x,
           Holds(x, S, screen.one, NoRec, NoRec, NoRec),
           Commit(x, [screen EXCEPT !.save = NoRec]), stored' = S
    PROVE  Inv'
<1>1. Second(screen) = NoRec /\ Formed(screen, stored)
  BY AtOne DEF Ready
<1>2. Holds(x, S, screen.one, Second(screen), NoRec, NoRec)
  BY <1>1
<1>3. NoRec \in Handle
  BY DEF Handle
<1> QED  BY <1>1, <1>2, <1>3, StayEnds

LEMMA StayKeeps ==
    ASSUME Ready, NEW x, Holds(x, stored, screen.one, NoRec, NoRec, NoRec), Stay(x)
    PROVE  Inv'
<1>1. /\ Commit(x, [screen EXCEPT !.save = NoRec]) /\ stored' = stored /\ stored \in SUBSET Key /\ At(One)
  BY DEF Stay, Unchanged, Ready
<1> QED  BY <1>1, UnsavedEnds

LEMMA RemoveSpouseKeeps ==
    ASSUME Ready, NEW k \in stored, NEW x, Has(x, stored, screen.one, k), RemoveSpouse(k, x)
    PROVE  Inv'
<1> DEFINE r == Ref(x, k)
           a == screen.one
           y == Leak(x, r)
<1>1. /\ Commit(y, [screen EXCEPT !.save = NoRec]) /\ stored' = stored /\ stored \in SUBSET Key /\ At({"fam"})
  BY DEF RemoveSpouse, Unchanged, Ready
<1>2. At(One)
  BY <1>1 DEF At, One
<1>3. Holds(x, stored, r, NoRec, NoRec, a)
  BY HoldsSwaps DEF Has
<1> HIDE DEF r, a
<1>4. Holds(y, stored, a, NoRec, NoRec, NoRec)
  BY <1>3, LeftIs
<1> HIDE DEF y
<1> QED  BY <1>1, <1>2, <1>4, UnsavedEnds DEF a

(* The family is forgotten, and deleted if nobody is left in it: the list    *)
(* that the screen came from is not changed, and has no person less.         *)
LEMMA RemoveFromFamilyKeeps ==
    ASSUME Ready, NEW k \in stored, NEW x, Has(x, stored, screen.one, k), ~Ended(x) => Latest(x, k),
           RemoveFromFamily(k, x)
    PROVE  Inv'
<1> DEFINE r == Ref(x, k)
           a == screen.one
           T == stored \ {k}
           y == Leak(x, r)
           w == Call(x, RemoveFromCache(x.c, k))
           z == Leak(w, r)
           scr == WithSave(screen, NoRec)
<1>1. /\ stored \in SUBSET Key /\ T \in SUBSET Key /\ Formed(screen, stored) /\ At({"indi"})
      /\ k \in Families /\ k \in Key
      /\ \/ Commit(y, [screen EXCEPT !.save = NoRec]) /\ stored' = stored
         \/ Commit(z, scr) /\ stored' = T
  BY DEF RemoveFromFamily, Unchanged, Removes, Ready, WithSave
<1>2. At(One)
  BY <1>1 DEF At, One
<1>3. Holds(x, stored, r, NoRec, NoRec, a)
  BY HoldsSwaps DEF Has
<1>4. scr = WithSave(screen, NoRec)
  OBVIOUS
<1> HIDE DEF r, a, T, scr
<1>5. CASE Commit(y, [screen EXCEPT !.save = NoRec]) /\ stored' = stored
  <2>1. Holds(y, stored, a, NoRec, NoRec, NoRec)
    BY <1>3, LeftIs
  <2> HIDE DEF y
  <2> QED  BY <1>1, <1>2, <1>5, <2>1, UnsavedEnds DEF a
<1>6. CASE Commit(z, scr) /\ stored' = T
  <2>1. ~Ended(x) => x.c.table[k] # NoEl
    BY Constants DEF Latest
  <2>2. Holds(w, T, r, NoRec, NoRec, a)
    BY <1>1, <1>3, <2>1, RemoveIs DEF T
  <2> HIDE DEF w
  <2>3. Holds(z, T, a, NoRec, NoRec, NoRec)
    BY <2>2, LeftIs
  <2> HIDE DEF z
  <2>4. Formed(screen, T)
    <3>1. /\ KeyOf(screen.one) \in Persons /\ KeyOf(screen.one) \in stored
          /\ screen.two = NoRec /\ Tidied(screen.seq, stored)
      BY <1>1, <1>2, AtOne DEF At, Fits, Formed
    <3>2. k \notin Persons
      BY <1>1 DEF Families, Persons
    <3>3. KeyOf(screen.one) \in T /\ Tidied(screen.seq, T)
      BY <3>1, <3>2 DEF T, Tidied
    <3> QED  BY <1>1, <3>1, <3>3 DEF Formed
  <2>5. NoRec \in Handle
    BY DEF Handle
  <2>6. Formed(scr, T) /\ scr.one = a /\ Second(scr) = NoRec /\ scr.save = NoRec
    BY <1>1, <1>2, <1>4, <2>4, <2>5, AtOne, WithSaveIs DEF a
  <2>7. Holds(z, T, scr.one, Second(scr), scr.save, NoRec)
    BY <2>3, <2>6
  <2> QED  BY <1>1, <1>6, <2>6, <2>7, EndIs
<1> QED  BY <1>1, <1>5, <1>6

LEMMA StrayKeeps ==
    ASSUME Ready, NEW k \in stored, NEW x, Has(x, stored, screen.one, k), Stray(k, x)
    PROVE  Inv'
<1> DEFINE r == Ref(x, k)
           y == Drop(x, screen.one)
<1>1. stored' = stored /\ stored \in SUBSET Key /\ strayed'
  BY DEF Stray, Ready
<1>2. Holds(x, stored, screen.one, NoRec, NoRec, r) /\ (~Ended(x) => r \in Rec /\ KeyOf(r) = k)
  BY DEF Has
<1>3. Commit(Call(x, Die(x.c, "assert")), screen) \/ Show(y, "indi", r)
  BY DEF Stray
<1> HIDE DEF r
<1>4. CASE Commit(Call(x, Die(x.c, "assert")), screen)
  BY <1>1, <1>2, <1>4, DiesIs
<1>5. CASE Show(y, "indi", r)
  <2>1. Holds(y, stored, r, NoRec, NoRec, NoRec) /\ (~Ended(y) => ~Ended(x))
    BY <1>2, LeftIs
  <2> HIDE DEF y
  <2> QED  BY <1>1, <1>2, <1>5, <2>1, ShowIs DEF One
<1> QED  BY <1>3, <1>4, <1>5

(* What the screen was shown with, and the handle in save.                   *)
LEMMA GiveUpKeeps ==
    ASSUME Ready, NEW x, Holds(x, stored, screen.one, NoRec, screen.save, NoRec), GiveUp(x)
    PROVE  Inv'
<1>1. /\ Commit(x, screen) /\ stored' = stored /\ stored \subseteq Key /\ Formed(screen, stored)
      /\ At({"indi"})
  BY DEF GiveUp, Unchanged, Ready
<1>2. Second(screen) = NoRec
  BY <1>1, AtOne DEF At, One
<1> QED  BY <1>1, <1>2, AsBefore

LEMMA UseSaveKeeps ==
    ASSUME Ready, NEW x, Holds(x, stored, screen.one, NoRec, screen.save, NoRec), UseSave(x)
    PROVE  Inv'
<1> DEFINE y == Drop(x, screen.save)
           s == screen.save
           a == screen.one
<1>1. /\ Commit(y, [screen EXCEPT !.save = NoRec]) /\ stored' = stored /\ stored \in SUBSET Key
      /\ At(One)
  BY DEF UseSave, Unchanged, Ready, At, One
<1>2. Holds(x, stored, s, NoRec, a, NoRec)
  BY HoldsSwaps
<1> HIDE DEF s, a
<1>3. Holds(y, stored, NoRec, NoRec, a, NoRec)
  BY <1>2, DropIs DEF s
<1> HIDE DEF y
<1>4. Holds(y, stored, a, NoRec, NoRec, NoRec)
  BY <1>3, HoldsSwaps
<1> QED  BY <1>1, <1>4, UnsavedEnds DEF a

LEMMA NewFamilyKeeps ==
    ASSUME Ready, NEW x, Holds(x, stored, screen.one, NoRec, screen.save, NoRec),
           NEW k \in Key \ stored, NEW y, y = New(x, k), NewFamily(k, y)
    PROVE  Inv'
<1> DEFINE r == Ref(y, k)
           s == screen.save
           a == screen.one
           T == stored \cup {k}
           z == Drop(y, s)
           w == Drop(z, a)
<1>1. Show(w, "fam", r) /\ stored' = T /\ stored \in SUBSET Key /\ T \in SUBSET Key /\ k \in Families
  BY DEF NewFamily, Stores, Ready
<1>2. /\ Holds(y, T, a, NoRec, s, r)
      /\ ~Ended(y) => r \in Rec /\ KeyOf(r) = k
  BY NewIs
<1> HIDE DEF r, s, a
<1>3. Holds(y, T, s, NoRec, a, r)
  BY <1>2, HoldsSwaps
<1>4. Holds(z, T, NoRec, NoRec, a, r) /\ (~Ended(z) => ~Ended(y))
  BY <1>3, DropIs
<1> HIDE DEF z
<1>5. Holds(z, T, a, NoRec, NoRec, r)
  BY <1>4, HoldsSwaps
<1>6. Holds(w, T, r, NoRec, NoRec, NoRec) /\ (~Ended(w) => ~Ended(z))
  BY <1>5, LeftIs
<1> HIDE DEF w
<1>7. ~Ended(w) => r \in Rec /\ KeyOf(r) \in T /\ Fits("fam", r)
  BY <1>1, <1>2, <1>4, <1>6 DEF Fits
<1> HIDE DEF T
<1> QED  BY <1>1, <1>6, <1>7, ShowIs DEF One

\* on the screen of a person the new one takes the place, and the old one goes to save
Kept(r) == [screen EXCEPT !.save = screen.one, !.one = r]

LEMMA KeptIs ==
    ASSUME NEW S, Formed(screen, S), At({"indi"}), NEW T, S \subseteq T, NEW r, NEW scr, scr = Kept(r)
    PROVE  /\ scr.one = r /\ Second(scr) = NoRec /\ scr.save = screen.one
           /\ r \in Rec /\ KeyOf(r) \in T /\ KeyOf(r) \in Persons => Formed(scr, T)
<1>1. screen.one \in Rec /\ screen.two = NoRec /\ Second(screen) = NoRec
  BY AtOne DEF At, One
<1>2. screen \in Layout /\ screen.at = "indi"
  BY DEF Formed, Layout, At
<1>3. /\ scr.at = "indi" /\ scr.one = r /\ scr.two = NoRec /\ scr.shared = screen.shared
      /\ scr.save = screen.one /\ scr.seq = screen.seq
  BY <1>1, <1>2 DEF Layout, Kept
<1>4. ~screen.shared
  BY <1>2 DEF Formed
<1>5. ASSUME r \in Rec, KeyOf(r) \in T, KeyOf(r) \in Persons PROVE Formed(scr, T)
  <2>1. scr \in Layout /\ Tidied(scr.seq, T)
    BY <1>1, <1>2, <1>3, <1>5 DEF Layout, Kept, Handle, Formed, Tidied
  <2>2. r # NoRec /\ Fits("indi", r)
    BY <1>5, Constants DEF Fits
  <2>3. "indi" \in One \cup Two /\ "indi" \notin Two
    BY DEF One, Two
  <2> QED  BY <1>3, <1>4, <1>5, <2>1, <2>2, <2>3 DEF Formed, Layout
<1> QED  BY <1>3, <1>4, <1>5 DEF Second

LEMMA NewPersonKeeps ==
    ASSUME Ready, NEW k \in Key \ stored, NEW x, Has(x, stored \cup {k}, screen.one, k), NewPerson(k, x)
    PROVE  Inv'
<1> DEFINE r == Ref(x, k)
           a == screen.one
           T == stored \cup {k}
<1>1. /\ stored' = T /\ stored \subseteq T /\ T \in SUBSET Key /\ k \in Persons /\ Formed(screen, stored)
      /\ At({"indi", "fam"})
      /\ IF At({"indi"}) THEN Commit(x, Kept(r)) ELSE Commit(x, [screen EXCEPT !.save = r])
  BY DEF NewPerson, Stores, Ready, Kept
<1>2. Holds(x, T, a, NoRec, NoRec, r) /\ (~Ended(x) => r \in Rec /\ KeyOf(r) = k) /\ k \in T
  BY DEF Has
<1>3. Holds(x, T, a, NoRec, r, NoRec) /\ Holds(x, T, r, NoRec, a, NoRec)
  BY <1>2, HoldsSwaps
<1>4. Second(screen) = NoRec
  BY <1>1, AtOne DEF At, One
<1> HIDE DEF r, T
<1>5. CASE At({"indi"})
  <2> DEFINE scr == Kept(r)
  <2>1. Commit(x, scr) /\ scr = Kept(r)
    BY <1>1, <1>5
  <2> HIDE DEF scr
  <2>2. /\ scr.one = r /\ Second(scr) = NoRec /\ scr.save = a
        /\ r \in Rec /\ KeyOf(r) \in T /\ KeyOf(r) \in Persons => Formed(scr, T)
    BY <1>1, <1>5, <2>1, KeptIs
  <2>3. Holds(x, T, scr.one, Second(scr), scr.save, NoRec)
    BY <1>3, <2>2
  <2>4. ~Ended(x) => Formed(scr, T)
    BY <1>1, <1>2, <2>2
  <2> QED  BY <1>1, <2>1, <2>3, <2>4, EndIs
<1>6. CASE ~At({"indi"})
  <2>1. Commit(x, [screen EXCEPT !.save = r]) /\ screen.at \in {"indi", "fam"}
    BY <1>1, <1>6 DEF At
  <2>2. ~Ended(x) => r \in Handle
    BY <1>2 DEF Handle
  <2>3. Holds(x, T, screen.one, Second(screen), r, NoRec)
    BY <1>3, <1>4
  <2> QED  BY <1>1, <2>1, <2>2, <2>3, StayEnds
<1> QED  BY <1>5, <1>6

LEMMA NewOtherKeeps ==
    ASSUME Ready, NEW k \in Key \ stored, NEW x, Has(x, stored \cup {k}, screen.one, k), NewOther(k, x)
    PROVE  Inv'
<1> DEFINE r == Ref(x, k)
           a == screen.one
           T == stored \cup {k}
           y == Drop(x, a)
           z == Leak(x, r)
<1>1. /\ stored' = T /\ stored \subseteq T /\ T \in SUBSET Key /\ k \in Others /\ At(One) /\ k \in T
      /\ Show(y, "aux", r) \/ Commit(z, [screen EXCEPT !.save = NoRec])
  BY DEF NewOther, Stores, Ready
<1>2. Holds(x, T, a, NoRec, NoRec, r) /\ (~Ended(x) => r \in Rec /\ KeyOf(r) = k)
  BY DEF Has
<1> HIDE DEF r, T, a
<1>3. CASE Show(y, "aux", r)
  <2>1. Holds(y, T, r, NoRec, NoRec, NoRec) /\ (~Ended(y) => ~Ended(x))
    BY <1>2, LeftIs
  <2> HIDE DEF y
  <2>2. ~Ended(y) => r \in Rec /\ KeyOf(r) \in T /\ Fits("aux", r)
    BY <1>1, <1>2, <2>1 DEF Fits
  <2> QED  BY <1>1, <1>3, <2>1, <2>2, ShowIs DEF One
<1>4. CASE Commit(z, [screen EXCEPT !.save = NoRec])
  <2>1. Holds(x, T, r, NoRec, NoRec, a)
    BY <1>2, HoldsSwaps
  <2>2. Holds(z, T, a, NoRec, NoRec, NoRec)
    BY <2>1, LeftIs
  <2> HIDE DEF z
  <2> QED  BY <1>1, <1>4, <2>2, UnsavedEnds DEF a
<1> QED  BY <1>1, <1>3, <1>4

\* a leaked reference is taken for a handle
LEMMA ReclaimedIs ==
    ASSUME NEW x, NEW S, NEW a \in Rec, NEW b, NEW d, NEW e, Holds(x, S, NoRec, b, d, e),
           a \in x.leaked, NEW y, y = Reclaimed(x, a)
    PROVE  Holds(y, S, a, b, d, e) /\ (~Ended(y) => ~Ended(x))
<1>1. CASE Ended(x)
  <2>1. y = x
    BY <1>1 DEF Reclaimed
  <2> QED  BY <1>1, <2>1 DEF Holds
<1>2. CASE ~Ended(x)
  <2> DEFINE L == x.leaked \ {a}
  <2>1. /\ x \in [c : CacheType, leaked : SUBSET Rec, got : [Key -> Handle]]
        /\ {b, d, e} \subseteq Handle
        /\ Counted(x.c, Out(NoRec, b, d, e, x.leaked)) /\ Sane(x, S)
    BY <1>2 DEF Holds, Sane
  <2>2. a \notin L /\ L \cup {a} = x.leaked /\ L \in SUBSET Rec
    BY <2>1
  <2>3. y = [x EXCEPT !.leaked = L]
    BY <1>2 DEF Reclaimed
  <2> HIDE DEF L
  <2>4. Out(a, b, d, e, L) = Out(NoRec, b, d, e, x.leaked)
    BY <2>2, OutLeak
  <2>5. y = [c |-> x.c, leaked |-> L, got |-> x.got]
    BY <2>1, <2>3
  <2>6. y.c = x.c /\ y.leaked = L
    BY <2>5
  <2>7. y \in [c : CacheType, leaked : SUBSET Rec, got : [Key -> Handle]]
    BY <2>1, <2>2, <2>5
  <2>8. Sane(y, S)
    BY <2>1, <2>6, <2>7 DEF Sane
  <2>9. {a, b, d, e} \subseteq Handle
    BY <2>1 DEF Handle
  <2> QED  BY <1>2, <2>1, <2>4, <2>6, <2>8, <2>9 DEF Holds, Ended
<1> QED  BY <1>1, <1>2

\* the reference of the screen is released: nothing is claimed of the counts then
LEMMA RobbedEnds ==
    ASSUME NEW S \in SUBSET Key, NEW x, NEW a, NEW b, NEW d, NEW e, Holds(x, S, a, b, d, e),
           NEW scr, Commit(x, scr), stored' = S, robbed'
    PROVE  Inv'
<1>1. Roomy' <=> Roomy
  BY DEF Roomy
<1>2. CASE Ended(x)
  <2>1. cache' = x.c /\ x.c.dead # "memory"
    BY <1>2 DEF Commit
  <2>2. ~Alive' /\ ~Roomy
    BY <1>2, <2>1 DEF Holds, Ended, Alive
  <2> QED  BY <1>1, <2>2 DEF Inv
<1>3. CASE ~Ended(x)
  <2> DEFINE lost == x.leaked \ Reachable(x.c, scr)
  <2>1. cache' = Forget(x.c, lost)
    BY <1>3 DEF Commit
  <2>2. x.c \in CacheType /\ x.c.dead = "alive"
    BY <1>3 DEF Holds, Sane, Consistent, Ended
  <2> HIDE DEF lost
  <2>3. cache'.dead = "alive"
    BY <2>1, <2>2 DEF Forget, CacheType
  <2> QED  BY <2>3 DEF Inv, Alive
<1> QED  BY <1>2, <1>3

(* The current record is returned as the one to refer to, and released.      *)
LEMMA EditToReferKeeps ==
    ASSUME Ready, NEW k \in Key \ stored, NEW x, Has(x, stored \cup {k}, screen.one, k), EditToRefer(k, x)
    PROVE  Inv'
<1> DEFINE r == Ref(x, k)
           a == screen.one
           T == stored \cup {k}
           z == Leak(x, r)
           y == Drop(z, a)
           w == Drop(Reclaimed(z, a), a)
<1>1. /\ stored' = T /\ stored \subseteq T /\ T \in SUBSET Key /\ At({"indi", "fam"})
      /\ Rob(z, [screen EXCEPT !.save = NoRec])
  BY DEF EditToRefer, Stores, Ready
<1>2. At(One)
  BY <1>1 DEF At, One
<1>3. a \in Rec
  BY <1>2, AtOne DEF Ready
<1>4. Holds(x, T, r, NoRec, NoRec, a)
  BY HoldsSwaps DEF Has
<1> HIDE DEF r, T
<1>5. Holds(z, T, a, NoRec, NoRec, NoRec)
  BY <1>4, LeftIs
<1> HIDE DEF z
<1>6. \/ Commit(z, [screen EXCEPT !.save = NoRec])
      \/ a \in z.leaked /\ Commit(w, [screen EXCEPT !.save = NoRec])
      \/ Commit(y, [screen EXCEPT !.save = NoRec]) /\ robbed'
  BY <1>1 DEF Rob
<1>7. CASE Commit(z, [screen EXCEPT !.save = NoRec])
  BY <1>1, <1>2, <1>5, <1>7, UnsavedEnds
<1>8. CASE a \in z.leaked /\ Commit(w, [screen EXCEPT !.save = NoRec])
  <2> DEFINE v == Reclaimed(z, a)
  <2>1. Holds(z, T, NoRec, a, NoRec, NoRec)
    BY <1>5, HoldsSwaps
  <2>2. Holds(v, T, a, a, NoRec, NoRec)
    BY <1>3, <1>8, <2>1, ReclaimedIs
  <2> HIDE DEF v
  <2>3. Holds(w, T, NoRec, a, NoRec, NoRec)
    BY <2>2, DropIs DEF v
  <2> HIDE DEF w
  <2>4. Holds(w, T, a, NoRec, NoRec, NoRec)
    BY <2>3, HoldsSwaps
  <2> QED  BY <1>1, <1>2, <1>8, <2>4, UnsavedEnds
<1>9. CASE Commit(y, [screen EXCEPT !.save = NoRec]) /\ robbed'
  <2>1. Holds(y, T, NoRec, NoRec, NoRec, NoRec)
    BY <1>5, DropIs
  <2> HIDE DEF y
  <2> QED  BY <1>1, <1>9, <2>1, RobbedEnds
<1> QED  BY <1>6, <1>7, <1>8, <1>9

-----------------------------------------------------------------------------
(* The commands of the screens of two. *)

\* both handles of the screen are forgotten: one, if it has one for both
LEMMA BothIs ==
    ASSUME NEW x, NEW S, NEW r, NEW q, Holds(x, S, screen.one, Second(screen), r, q),
           NEW y, y = Both(x)
    PROVE  /\ Holds(y, S, NoRec, NoRec, r, q)
           /\ ~Ended(y) => ~Ended(x) /\ y.got = x.got
<1> DEFINE a == screen.one
           b == Second(screen)
           z == IF screen.shared THEN x ELSE Leak(x, screen.two)
<1>1. y = Leak(z, a)
  BY DEF Both
<1>2. Holds(z, S, a, NoRec, r, q) /\ (~Ended(z) => ~Ended(x) /\ z.got = x.got)
  <2>1. CASE screen.shared
    BY <2>1 DEF Second
  <2>2. CASE ~screen.shared
    <3>1. b = screen.two /\ z = Leak(x, b)
      BY <2>2 DEF Second
    <3> HIDE DEF z, a, b
    <3>2. Holds(x, S, b, a, r, q)
      BY HoldsSwaps DEF a, b
    <3>3. Holds(z, S, NoRec, a, r, q) /\ (~Ended(z) => ~Ended(x) /\ z.got = x.got)
      BY <3>1, <3>2, LeakIs
    <3> QED  BY <3>3, HoldsSwaps
  <2> QED  BY <2>1, <2>2
<1> HIDE DEF z
<1> QED  BY <1>1, <1>2, LeakIs

\* the screen of two goes on, with a record on each side
LEMMA TwoEnds ==
    ASSUME Ready, At(Two), NEW scr, NEW r1, NEW r2, NEW sh \in BOOLEAN,
           scr.at = screen.at, scr.one = r1, scr.two = r2, scr.shared = sh, scr.save = NoRec, scr.seq = screen.seq,
           NEW x, Holds(x, stored, r1, IF sh THEN NoRec ELSE r2, NoRec, NoRec),
           ~Ended(x) => /\ scr \in Layout
                        /\ r1 \in Rec /\ KeyOf(r1) \in stored /\ Fits(screen.at, r1)
                        /\ r2 \in Rec /\ KeyOf(r2) \in stored /\ Fits(screen.at, r2),
           sh => screen.at = "tandem" /\ r2 = r1,
           Commit(x, scr), stored' = stored
    PROVE  Inv'
<1>1. Second(scr) = IF sh THEN NoRec ELSE r2
  BY DEF Second
<1>2. Holds(x, stored, scr.one, Second(scr), scr.save, NoRec)
  BY <1>1
<1>3. ~Ended(x) => Formed(scr, stored)
  BY Constants DEF Formed, At, Ready
<1> QED  BY <1>2, <1>3, EndIs DEF Ready

\* what a screen of two has
LEMMA TwoHeld ==
    ASSUME Ready, At(Two)
    PROVE  /\ screen.one \in Rec /\ KeyOf(screen.one) \in stored /\ Fits(screen.at, screen.one)
           /\ screen.two \in Rec /\ KeyOf(screen.two) \in stored /\ Fits(screen.at, screen.two)
           /\ screen.save = NoRec /\ screen.shared \in BOOLEAN
           /\ (screen.shared => screen.at = "tandem" /\ screen.two = screen.one)
           /\ screen \in Layout
           /\ Second(screen) = IF screen.shared THEN NoRec ELSE screen.two
  BY AtTwo DEF Ready, Formed, Layout, Second

LEMMA StayTwoKeeps ==
    ASSUME Ready, NEW x, Holds(x, stored, screen.one, Second(screen), NoRec, NoRec), StayTwo(x)
    PROVE  Inv'
<1>1. Commit(x, screen) /\ stored' = stored /\ stored \subseteq Key /\ screen.save = NoRec
      /\ Formed(screen, stored)
  BY TwoHeld DEF StayTwo, Unchanged, Ready
<1> QED  BY <1>1, AsBefore

LEMMA SwapKeeps ==
    ASSUME Ready, NEW x, Holds(x, stored, screen.one, Second(screen), NoRec, NoRec), Swap(x)
    PROVE  Inv'
<1> DEFINE scr == [screen EXCEPT !.one = screen.two, !.two = screen.one]
<1>1. Commit(x, scr) /\ stored' = stored /\ At(Two)
  BY DEF Swap, Unchanged
<1>2. /\ scr.at = screen.at /\ scr.one = screen.two /\ scr.two = screen.one
      /\ scr.shared = screen.shared /\ scr.save = NoRec /\ scr.seq = screen.seq /\ scr \in Layout
  BY <1>1, TwoHeld DEF Layout
<1> HIDE DEF scr
<1>3. Holds(x, stored, screen.two, IF screen.shared THEN NoRec ELSE screen.one, NoRec, NoRec)
  <2>1. CASE screen.shared
    BY <1>1, <2>1, TwoHeld
  <2>2. CASE ~screen.shared
    <3>1. Second(screen) = screen.two
      BY <2>2 DEF Second
    <3>2. Holds(x, stored, screen.two, screen.one, NoRec, NoRec)
      BY <3>1, HoldsSwaps
    <3> QED  BY <2>2, <3>2
  <2> QED  BY <2>1, <2>2
<1> QED  BY <1>1, <1>2, <1>3, TwoHeld, TwoEnds

LEMMA CopyTopToBottomKeeps ==
    ASSUME Ready, NEW x, Holds(x, stored, screen.one, Second(screen), NoRec, NoRec), CopyTopToBottom(x)
    PROVE  Inv'
<1> DEFINE scr == [screen EXCEPT !.two = screen.one, !.shared = TRUE]
           y == IF screen.shared THEN x ELSE Leak(x, screen.two)
           a == screen.one
<1>1. Commit(y, scr) /\ stored' = stored /\ At(Two) /\ screen.at = "tandem"
  BY DEF CopyTopToBottom, Unchanged, At, Two
<1>2. /\ scr.at = screen.at /\ scr.one = a /\ scr.two = a
      /\ scr.shared = TRUE /\ scr.save = NoRec /\ scr.seq = screen.seq /\ scr \in Layout
  BY <1>1, TwoHeld DEF Layout
<1> HIDE DEF scr
<1>3. Holds(y, stored, a, NoRec, NoRec, NoRec)
  <2>1. CASE screen.shared
    BY <2>1 DEF Second
  <2>2. CASE ~screen.shared
    <3>1. Holds(x, stored, screen.two, a, NoRec, NoRec) /\ y = Leak(x, screen.two)
      BY <2>2, HoldsSwaps DEF Second
    <3> HIDE DEF y, a
    <3>2. Holds(y, stored, NoRec, a, NoRec, NoRec)
      BY <3>1, LeakIs
    <3> QED  BY <3>2, HoldsSwaps
  <2> QED  BY <2>1, <2>2
<1> HIDE DEF y
<1> QED  BY <1>1, <1>2, <1>3, TwoHeld, TwoEnds

LEMMA GoAboveKeeps ==
    ASSUME Ready, NEW k \in stored, NEW x,
           Holds(x, stored, screen.one, Second(screen), NoRec, Ref(x, k)),
           ~Ended(x) => Ref(x, k) \in Rec /\ KeyOf(Ref(x, k)) = k, GoAbove(k, x)
    PROVE  Inv'
<1> DEFINE r == Ref(x, k)
           scr == [screen EXCEPT !.one = r, !.shared = FALSE]
           y == IF screen.shared THEN x ELSE Leak(x, screen.one)
<1>1. Commit(y, scr) /\ stored' = stored /\ At(Two) /\ screen.at = "tandem" /\ k \in Persons
  BY DEF GoAbove, Unchanged, At, Two
<1> HIDE DEF r
<1>2. /\ scr.at = screen.at /\ scr.one = r /\ scr.two = screen.two
      /\ scr.shared = FALSE /\ scr.save = NoRec /\ scr.seq = screen.seq /\ (r \in Rec => scr \in Layout)
  BY <1>1, TwoHeld DEF Layout, Handle
<1> HIDE DEF scr
<1>3. Holds(y, stored, r, screen.two, NoRec, NoRec) /\ (~Ended(y) => ~Ended(x))
  <2>1. Holds(x, stored, screen.one, Second(screen), NoRec, r)
    BY DEF r
  <2>2. CASE screen.shared
    <3>1. y = x /\ Second(screen) = NoRec /\ screen.two = screen.one
      BY <1>1, <2>2, TwoHeld
    <3>2. Holds(x, stored, screen.one, NoRec, NoRec, r)
      BY <2>1, <3>1
    <3>3. Holds(x, stored, r, NoRec, NoRec, screen.one)
      BY <3>2, HoldsSwaps
    <3>4. Holds(x, stored, r, screen.one, NoRec, NoRec)
      BY <3>3, HoldsSwaps
    <3> QED  BY <3>1, <3>4
  <2>3. CASE ~screen.shared
    <3>1. Holds(x, stored, screen.one, screen.two, NoRec, r) /\ y = Leak(x, screen.one)
      BY <2>1, <2>3 DEF Second
    <3> HIDE DEF y
    <3>2. Holds(y, stored, NoRec, screen.two, NoRec, r) /\ (~Ended(y) => ~Ended(x))
      BY <3>1, LeakIs
    <3> QED  BY <3>2, HoldsSwaps
  <2> QED  BY <2>2, <2>3
<1> HIDE DEF y
<1>4. ~Ended(y) => r \in Rec /\ KeyOf(r) \in stored /\ Fits(screen.at, r)
  BY <1>1, <1>3 DEF Fits, r
<1>5. Holds(y, stored, r, IF FALSE THEN NoRec ELSE screen.two, NoRec, NoRec)
  BY <1>3
<1> QED  BY <1>1, <1>2, <1>4, <1>5, TwoHeld, TwoEnds

LEMMA GoToTopKeeps ==
    ASSUME Ready, NEW x, Holds(x, stored, screen.one, Second(screen), NoRec, NoRec), GoToTop(x)
    PROVE  Inv'
<1> DEFINE a == screen.one
           b == screen.two
           y == IF screen.shared THEN x ELSE Leak(x, b)
           z == Leak(x, a)
<1>1. /\ stored' = stored /\ stored \in SUBSET Key /\ At(Two)
      /\ \/ Show(y, ScreenOf(KeyOf(a)), a)
         \/ At({"2fam"}) /\ Show(z, "fam", b)
  BY DEF GoToTop, Unchanged, Ready
<1>2. /\ a \in Rec /\ KeyOf(a) \in stored /\ b \in Rec /\ KeyOf(b) \in stored /\ Fits(screen.at, b)
      /\ screen.shared => screen.at = "tandem"
      /\ Second(screen) = IF screen.shared THEN NoRec ELSE b
  BY <1>1, TwoHeld
<1>3. Holds(x, stored, a, Second(screen), NoRec, NoRec)
  OBVIOUS
<1> HIDE DEF a, b
<1>4. CASE Show(y, ScreenOf(KeyOf(a)), a)
  <2>1. Holds(y, stored, a, NoRec, NoRec, NoRec)
    <3>1. CASE screen.shared
      BY <1>2, <1>3, <3>1
    <3>2. CASE ~screen.shared
      <4>1. Holds(x, stored, b, a, NoRec, NoRec) /\ y = Leak(x, b)
        BY <1>2, <1>3, <3>2, HoldsSwaps
      <4> HIDE DEF y
      <4>2. Holds(y, stored, NoRec, a, NoRec, NoRec)
        BY <4>1, LeakIs
      <4> QED  BY <4>2, HoldsSwaps
    <3> QED  BY <3>1, <3>2
  <2> HIDE DEF y
  <2> QED  BY <1>1, <1>2, <1>4, <2>1, ShowKeyIs
<1>5. CASE At({"2fam"}) /\ Show(z, "fam", b)
  <2>1. Second(screen) = b /\ Fits("fam", b)
    BY <1>2, <1>5 DEF At, Fits
  <2>2. Holds(z, stored, NoRec, b, NoRec, NoRec)
    BY <1>3, <2>1, LeakIs
  <2> HIDE DEF z
  <2>3. Holds(z, stored, b, NoRec, NoRec, NoRec)
    BY <2>2, HoldsSwaps
  <2> QED  BY <1>1, <1>2, <1>5, <2>1, <2>3, ShowIs DEF One
<1> QED  BY <1>1, <1>4, <1>5

(* The second record is removed from its cache and the database; the first   *)
(* is got again, and both handles of the screen are forgotten.               *)
LEMMA MergeKeeps ==
    ASSUME Ready, NEW x, Holds(x, stored, screen.one, Second(screen), NoRec, NoRec),
           ~Ended(x) => x.c.table[KeyOf(screen.two)] # NoEl, Merge(x)
    PROVE  Inv'
<1> DEFINE a == screen.one
           k == KeyOf(a)
           m == KeyOf(screen.two)
           T == stored \ {m}
           y == Call(x, RemoveFromCache(x.c, m))
           z == Get(y, k)
           r == Ref(z, k)
           w == Both(z)
<1>1. /\ At(Two) /\ k # m /\ stored' = T /\ stored \in SUBSET Key
      /\ Show(w, ScreenOf(k), r)
  BY DEF Merge, Merged, Removes, Ready
<1>2. k \in T /\ T \in SUBSET Key /\ m \in Key
  BY <1>1, TwoHeld
<1> HIDE DEF k, m, T
<1>3. Holds(y, T, a, Second(screen), NoRec, NoRec)
  BY <1>2, RemoveIs DEF m, T
<1> HIDE DEF y
<1>4. /\ Holds(z, T, a, Second(screen), NoRec, r)
      /\ ~Ended(z) => r \in Rec /\ KeyOf(r) = k
  BY <1>2, <1>3, GetIs
<1> HIDE DEF z, r
<1>5. Holds(w, T, NoRec, NoRec, NoRec, r) /\ (~Ended(w) => ~Ended(z))
  BY <1>4, BothIs
<1> HIDE DEF w
<1>6. Holds(w, T, r, NoRec, NoRec, NoRec)
  BY <1>5, HoldsSwaps
<1> QED  BY <1>1, <1>2, <1>4, <1>5, <1>6, ShowKeyIs

LEMMA BrowseNewListKeeps ==
    ASSUME Ready, NEW x, Holds(x, stored, screen.one, Second(screen), NoRec, NoRec), BrowseNewList(x)
    PROVE  Inv'
<1> DEFINE y == Both(x)
<1>1. Holds(y, stored, NoRec, NoRec, NoRec, NoRec)
  BY BothIs
<1>2. ShowList(y) /\ stored' = stored /\ stored \subseteq Key /\ Tidy
  BY DEF BrowseNewList, Unchanged, Ready
<1> HIDE DEF y
<1> QED  BY <1>1, <1>2, ShowListIs

LEMMA QuitTwoKeeps ==
    ASSUME Ready, NEW x, Holds(x, stored, screen.one, Second(screen), NoRec, NoRec), QuitTwo(x)
    PROVE  Inv'
<1> DEFINE y == Both(x)
<1>1. Holds(y, stored, NoRec, NoRec, NoRec, NoRec)
  BY BothIs
<1>2. Commit(y, Blank) /\ stored' = stored /\ stored \in SUBSET Key
  BY DEF QuitTwo, Unchanged, Ready
<1> HIDE DEF y
<1> QED  BY <1>1, <1>2, BlankIs

\* both are forgotten, and the screen for what was got begins
LEMMA BothShow ==
    ASSUME NEW S \in SUBSET Key, NEW x, NEW r, Holds(x, S, screen.one, Second(screen), NoRec, r),
           NEW code \in One, ~Ended(x) => r \in Rec /\ KeyOf(r) \in S /\ Fits(code, r),
           Show(Both(x), code, r), stored' = S
    PROVE  Inv'
<1> DEFINE y == Both(x)
<1>1. Holds(y, S, NoRec, NoRec, NoRec, r) /\ (~Ended(y) => ~Ended(x)) /\ Show(y, code, r)
  BY BothIs
<1> HIDE DEF y
<1>2. Holds(y, S, r, NoRec, NoRec, NoRec)
  BY <1>1, HoldsSwaps
<1> QED  BY <1>1, <1>2, ShowIs

LEMMA AddFamilyKeeps ==
    ASSUME Ready, NEW x, Holds(x, stored, screen.one, Second(screen), NoRec, NoRec),
           NEW k \in Key \ stored, NEW y, y = New(x, k), AddFamily(k, y)
    PROVE  Inv'
<1> DEFINE r == Ref(y, k)
           T == stored \cup {k}
<1>1. /\ stored' = T /\ T \in SUBSET Key /\ k \in Families /\ k \in T /\ stored \subseteq Key
      /\ Show(Both(y), "fam", r)
  BY DEF AddFamily, Stores, Ready
<1>2. /\ Holds(y, T, screen.one, Second(screen), NoRec, r)
      /\ ~Ended(y) => r \in Rec /\ KeyOf(r) = k
  BY <1>1, NewIs
<1> HIDE DEF r, T
<1>3. ~Ended(y) => r \in Rec /\ KeyOf(r) \in T /\ Fits("fam", r)
  BY <1>1, <1>2 DEF Fits
<1> QED  BY <1>1, <1>2, <1>3, BothShow DEF One

\* what a command of a screen of two has got
HasToo(x, k) ==
    /\ Holds(x, stored, screen.one, Second(screen), NoRec, Ref(x, k))
    /\ ~Ended(x) => Ref(x, k) \in Rec /\ KeyOf(Ref(x, k)) = k

LEMMA BrowseNewKeeps ==
    ASSUME Ready, NEW k \in stored, NEW x, HasToo(x, k), BrowseNew(k, x)
    PROVE  Inv'
<1> DEFINE r == Ref(x, k)
<1>1. /\ stored' = stored /\ stored \in SUBSET Key
      /\ IF k \in Persons THEN Show(Both(x), "indi", r)
         ELSE Commit(Call(x, Die(x.c, "assert")), screen) /\ strayed'
  BY DEF BrowseNew, Ready
<1>2. /\ Holds(x, stored, screen.one, Second(screen), NoRec, r)
      /\ ~Ended(x) => r \in Rec /\ KeyOf(r) = k
  BY DEF HasToo
<1> HIDE DEF r
<1>3. CASE k \in Persons
  <2>1. ~Ended(x) => r \in Rec /\ KeyOf(r) \in stored /\ Fits("indi", r)
    BY <1>2, <1>3 DEF Fits
  <2> QED  BY <1>1, <1>2, <1>3, <2>1, BothShow DEF One
<1>4. CASE k \notin Persons
  BY <1>1, <1>2, <1>4, DiesIs
<1> QED  BY <1>3, <1>4

LEMMA OneParentKeeps ==
    ASSUME Ready, NEW k \in stored, NEW x, HasToo(x, k), OneParent(k, x)
    PROVE  Inv'
<1> DEFINE r == Ref(x, k)
           y == Leak(x, r)
           a == screen.one
           b == Second(screen)
<1>1. /\ stored' = stored /\ stored \subseteq Key /\ Formed(screen, stored) /\ At(Two)
      /\ Commit(y, screen)
  BY DEF OneParent, Unchanged, Ready, At, Two
<1>2. Holds(x, stored, r, b, NoRec, a)
  BY HoldsSwaps DEF HasToo
<1> HIDE DEF r, a, b
<1>3. Holds(y, stored, NoRec, b, NoRec, a)
  BY <1>2, LeakIs
<1> HIDE DEF y
<1>4. Holds(y, stored, a, b, NoRec, NoRec)
  BY <1>3, HoldsSwaps
<1>5. screen.save = NoRec
  BY <1>1, TwoHeld
<1> QED  BY <1>1, <1>4, <1>5, AsBefore DEF a, b

LEMMA BothParentsKeeps ==
    ASSUME Ready, NEW k \in stored, NEW x, HasToo(x, k), ~Ended(x) => Latest(x, k),
           NEW m \in stored, NEW y, y = Get(x, m), BothParents(k, m, y)
    PROVE  Inv'
<1> DEFINE r == Ref(y, k)
           q == Ref(y, m)
           z == Both(y)
<1>1. /\ stored' = stored /\ stored \in SUBSET Key /\ {k, m} \subseteq Persons
      /\ ShowTwo(z, "tandem", r, q)
  BY DEF BothParents, Unchanged, Ready
<1>2. /\ Holds(x, stored, screen.one, Second(screen), Ref(x, k), NoRec)
      /\ ~Ended(x) => Ref(x, k) \in Rec /\ KeyOf(Ref(x, k)) = k
  BY HoldsSwaps DEF HasToo
<1>3. /\ Holds(y, stored, screen.one, Second(screen), r, q)
      /\ ~Ended(y) => r \in Rec /\ KeyOf(r) = k /\ q \in Rec /\ KeyOf(q) = m
  BY <1>1, <1>2, GetTwoIs
<1> HIDE DEF r, q
<1>4. Holds(z, stored, NoRec, NoRec, r, q) /\ (~Ended(z) => ~Ended(y))
  BY <1>3, BothIs
<1> HIDE DEF z
<1>5. Holds(z, stored, r, NoRec, NoRec, q)
  BY <1>4, HoldsSwaps
<1>6. Holds(z, stored, r, q, NoRec, NoRec)
  BY <1>5, HoldsSwaps
<1>7. KeyOf(r) = k /\ KeyOf(q) = m => Fits("tandem", r) /\ Fits("tandem", q)
  BY <1>1 DEF Fits
<1> QED  BY <1>1, <1>3, <1>4, <1>6, <1>7, ShowTwoIs DEF Two

-----------------------------------------------------------------------------
(* The commands of a list. *)

LEMMA SeenTooIs ==
    ASSUME stored \in SUBSET Key, NEW seen \in stored, NEW x, NEW r, Holds(x, stored, NoRec, NoRec, NoRec, r),
           NEW y, y = SeenToo(x, seen)
    PROVE  /\ Holds(y, stored, NoRec, NoRec, NoRec, r)
           /\ ~Ended(y) => ~Ended(x) /\ y.got = x.got
<1>1. y = Call(x, KeyToCacheel(x.c, seen))
  BY DEF SeenToo, Seen, Call, Ended
<1> QED  BY <1>1, ReadIs

LEMMA LineIs ==
    ASSUME Ready, At({"list"}), NEW k \in stored, NEW seen \in stored, NEW x, x = Line(k, seen)
    PROVE  Has(x, stored, NoRec, k)
<1> DEFINE g == Get(Now, k)
           r == Ref(g, k)
<1>1. Holds(Now, stored, NoRec, NoRec, NoRec, NoRec) /\ stored \in SUBSET Key
  BY EmptyHanded DEF At, Ready
<1>2. Has(g, stored, NoRec, k)
  BY <1>1, GotIs
<1>3. x = SeenToo(g, seen)
  BY DEF Line, Find
<1>4. Holds(g, stored, NoRec, NoRec, NoRec, r) /\ (~Ended(g) => r \in Rec /\ KeyOf(r) = k)
  BY <1>2 DEF Has
<1> HIDE DEF g, r
<1>5. /\ Holds(x, stored, NoRec, NoRec, NoRec, r)
      /\ ~Ended(x) => ~Ended(g) /\ x.got = g.got
  BY <1>1, <1>3, <1>4, SeenTooIs
<1>6. ~Ended(x) => Ref(x, k) = r
  BY <1>5 DEF Ref, r
<1>7. Holds(x, stored, NoRec, NoRec, NoRec, Ref(x, k))
  BY <1>5, <1>6 DEF Holds
<1> QED  BY <1>4, <1>5, <1>6, <1>7 DEF Has

\* the record of the line is forgotten
LEMMA PastIs ==
    ASSUME NEW x, NEW k, Has(x, stored, NoRec, k), NEW y, y = Past(x, k)
    PROVE  Holds(y, stored, NoRec, NoRec, NoRec, NoRec)
<1> DEFINE r == Ref(x, k)
<1>1. Holds(x, stored, r, NoRec, NoRec, NoRec)
  BY HoldsSwaps DEF Has
<1>2. y = Leak(x, r)
  BY DEF Past
<1> HIDE DEF r
<1> QED  BY <1>1, <1>2, LeakIs

LEMMA ListStayKeeps ==
    ASSUME Ready, At({"list"}), NEW k \in stored, NEW x, Has(x, stored, NoRec, k), ListStay(k, x)
    PROVE  Inv'
<1> DEFINE y == Past(x, k)
<1>1. PICK keys \in {screen.seq, screen.seq \ {k}} \cup {screen.seq \cup more : more \in Added} :
         Commit(y, [screen EXCEPT !.seq = keys])
  BY DEF ListStay
<1>2. Holds(y, stored, NoRec, NoRec, NoRec, NoRec)
  BY PastIs
<1> DEFINE scr == [screen EXCEPT !.seq = keys]
<1>3. /\ screen.one = NoRec /\ Second(screen) = NoRec /\ screen.save = NoRec
      /\ Tidied(screen.seq, stored) /\ screen \in Layout /\ Formed(screen, stored)
      /\ stored' = stored /\ stored \in SUBSET Key
  BY AtNone DEF At, Ready, Formed, ListStay, Unchanged
<1>4. Commit(y, scr) /\ Tidied(keys, stored)
  <2>1. \A more \in Added : Tidied(more, stored)
    BY <1>3 DEF Added, Ready, Tidy, Tidied
  <2> QED  BY <1>1, <1>3, <2>1 DEF Tidied
<1>5. /\ scr.at = screen.at /\ scr.one = NoRec /\ scr.two = screen.two /\ scr.shared = screen.shared
      /\ scr.save = NoRec /\ scr.seq = keys /\ scr \in Layout
  BY <1>3, <1>4 DEF Layout, Tidied
<1> HIDE DEF scr, y
<1>6. Second(scr) = NoRec /\ Formed(scr, stored)
  BY <1>3, <1>4, <1>5 DEF Formed, Second
<1>7. Holds(y, stored, scr.one, Second(scr), scr.save, NoRec)
  BY <1>2, <1>5, <1>6
<1> QED  BY <1>3, <1>4, <1>6, <1>7, EndIs

LEMMA ListSelectKeeps ==
    ASSUME Ready, NEW k \in stored, NEW x, Has(x, stored, NoRec, k), ListSelect(k, x)
    PROVE  Inv'
<1> DEFINE r == Ref(x, k)
<1>1. Show(x, ScreenOf(k), r) /\ stored' = stored /\ stored \in SUBSET Key
  BY DEF ListSelect, Unchanged, Ready
<1>2. Holds(x, stored, r, NoRec, NoRec, NoRec) /\ (~Ended(x) => r \in Rec /\ KeyOf(r) = k)
  BY HoldsSwaps DEF Has
<1> HIDE DEF r
<1> QED  BY <1>1, <1>2, ShowKeyIs

LEMMA ListNewKeeps ==
    ASSUME Ready, NEW k \in stored, NEW x, Has(x, stored, NoRec, k), ListNew(k, x) \/ ListQuit(k, x)
    PROVE  Inv'
<1> DEFINE y == Past(x, k)
<1>1. Holds(y, stored, NoRec, NoRec, NoRec, NoRec)
  BY PastIs
<1>2. ShowList(y) \/ Commit(y, Blank)
  BY DEF ListNew, ListQuit
<1>3. stored' = stored /\ stored \subseteq Key /\ stored \in SUBSET Key /\ Tidy
  BY DEF ListNew, ListQuit, Unchanged, Ready
<1> HIDE DEF y
<1> QED  BY <1>1, <1>2, <1>3, ShowListIs, BlankIs

LEMMA ListTandemKeeps ==
    ASSUME Ready, At({"list"}), NEW k \in stored, NEW x, Has(x, stored, NoRec, k),
           NEW m \in stored \ {k}, NEW y, y = Get(x, m), ListTandem(k, m, y)
    PROVE  Inv'
<1> DEFINE r == Ref(y, k)
           q == Ref(y, m)
           p == Past(y, k)
           z == Past(p, m)
<1>1. /\ stored' = stored /\ stored \in SUBSET Key /\ Formed(screen, stored)
      /\ \/ {k, m} \subseteq Persons /\ ShowTwo(y, "tandem", q, r)
         \/ {k, m} \subseteq Families /\ ShowTwo(y, "2fam", q, r)
         \/ Commit(z, screen)
  BY DEF ListTandem, Unchanged, Ready
<1>2. /\ Holds(x, stored, NoRec, NoRec, Ref(x, k), NoRec)
      /\ ~Ended(x) => Ref(x, k) \in Rec /\ KeyOf(Ref(x, k)) = k
  BY HoldsSwaps DEF Has
<1>3. /\ Holds(y, stored, NoRec, NoRec, r, q)
      /\ ~Ended(y) => r \in Rec /\ KeyOf(r) = k /\ q \in Rec /\ KeyOf(q) = m
  BY <1>1, <1>2, GetTwoIs
<1>4. p = Leak(y, r) /\ z = Leak(p, Ref(p, m))
  BY DEF Past
<1> HIDE DEF r, q
<1>5. Holds(y, stored, r, NoRec, NoRec, q)
  BY <1>3, HoldsSwaps
<1>6. Holds(y, stored, q, r, NoRec, NoRec)
  <2>1. Holds(y, stored, q, NoRec, NoRec, r)
    BY <1>5, HoldsSwaps
  <2> QED  BY <2>1, HoldsSwaps
<1>7. CASE {k, m} \subseteq Persons /\ ShowTwo(y, "tandem", q, r)
  <2>1. KeyOf(r) = k /\ KeyOf(q) = m => Fits("tandem", r) /\ Fits("tandem", q)
    BY <1>7 DEF Fits
  <2> QED  BY <1>1, <1>3, <1>6, <1>7, <2>1, ShowTwoIs DEF Two
<1>8. CASE {k, m} \subseteq Families /\ ShowTwo(y, "2fam", q, r)
  <2>1. KeyOf(r) = k /\ KeyOf(q) = m => Fits("2fam", r) /\ Fits("2fam", q)
    BY <1>8 DEF Fits
  <2> QED  BY <1>1, <1>3, <1>6, <1>8, <2>1, ShowTwoIs DEF Two
<1>9. CASE Commit(z, screen)
  <2> HIDE DEF p
  <2>1. Holds(p, stored, NoRec, NoRec, NoRec, q) /\ (~Ended(p) => p.got = y.got)
    BY <1>4, <1>5, LeakIs
  <2>2. ~Ended(p) => Ref(p, m) = q
    BY <2>1 DEF Ref, q
  <2> DEFINE s == Ref(p, m)
  <2>3. Holds(p, stored, NoRec, NoRec, NoRec, s)
    BY <2>1, <2>2 DEF Holds
  <2>4. Holds(p, stored, s, NoRec, NoRec, NoRec)
    BY <2>3, HoldsSwaps
  <2> HIDE DEF s, z
  <2>5. Holds(z, stored, NoRec, NoRec, NoRec, NoRec)
    BY <1>4, <2>4, LeakIs DEF s
  <2>6. screen.one = NoRec /\ Second(screen) = NoRec /\ screen.save = NoRec
    BY <1>1, AtNone DEF At
  <2> QED  BY <1>1, <1>9, <2>5, <2>6, AsBefore
<1> QED  BY <1>1, <1>7, <1>8, <1>9

\* after a line whose record is gone, every command ends the program
LEMMA NothingKept ==
    ASSUME NEW k, NEW x, Ended(x), ListCommand(k, x)
    PROVE  stored' = stored /\ \E scr : Commit(x, scr)
<1>1. \A d, r, m : Call(x, d) = x /\ Leak(x, r) = x /\ Past(x, m) = x /\ Get(x, m) = x /\ Missing(x) = x
  BY DEF Call, Leak, Past, Get, Noted, Missing
<1>2. \A m : Find(x, m) = x
  BY <1>1 DEF Find
<1>3. CASE ListStay(k, x) \/ ListSelect(k, x) \/ ListQuit(k, x) \/ NameTheList(k, x) \/ AskInVain(x)
  BY <1>1, <1>3 DEF ListStay, ListSelect, ListQuit, NameTheList, AskInVain, Unchanged, Show
<1>4. CASE ListNew(k, x)
  BY <1>1, <1>4 DEF ListNew, Unchanged, ShowList
<1>5. ASSUME NEW m, NEW y, y = x, ListTandem(k, m, y) PROVE stored' = stored /\ \E scr : Commit(x, scr)
  BY <1>1, <1>5 DEF ListTandem, Unchanged, ShowTwo
<1>6. ASSUME NEW m, NEW y, y = x, ListBrowse(m, y) PROVE stored' = stored /\ \E scr : Commit(x, scr)
  BY <1>1, <1>6 DEF ListBrowse, Show
<1> QED  BY <1>1, <1>2, <1>3, <1>4, <1>5, <1>6 DEF ListCommand

\* 't', with a marked line whose record is gone
LEMMA LostTandemKeeps ==
    ASSUME Ready, NEW k, NEW x, NEW a, NEW b, NEW d, NEW e, Holds(x, stored, a, b, d, e),
           NEW m \in screen.seq \ stored, NEW y, y = Find(x, m), ListTandem(k, m, y)
    PROVE  Inv'
<1>1. y = Missing(x)
  BY DEF Find
<1>2. Doomed(y)
  BY <1>1, MissingIs
<1>3. \A r : Leak(y, r) = y
  BY <1>2 DEF Doomed, Leak
<1>4. stored' = stored /\ \E scr : Commit(y, scr)
  BY <1>3 DEF ListTandem, Unchanged, ShowTwo, Past
<1>5. Useless(screen.seq)
  BY DEF Useless, Gone
<1> QED  BY <1>2, <1>4, <1>5, LostEnds DEF Ready

LEMMA LostLineKeeps ==
    ASSUME Ready, At({"list"}), NEW k \in screen.seq, NEW seen \in stored \cup screen.seq,
           {k, seen} \ stored # {}, NEW x, x = Line(k, seen), ListCommand(k, x)
    PROVE  Inv'
<1>1. Holds(Now, stored, NoRec, NoRec, NoRec, NoRec) /\ stored \in SUBSET Key
  BY EmptyHanded DEF At, Ready
<1> HIDE DEF Now
<1>2. Doomed(x)
  <2>1. CASE k \notin stored
    <3> DEFINE y == Missing(Now)
    <3>1. Doomed(y)
      BY <1>1, MissingIs
    <3>2. x = SeenToo(y, seen)
      BY <2>1 DEF Line, Find
    <3> HIDE DEF y
    <3>3. x = y
      BY <3>1, <3>2 DEF Doomed, SeenToo, Missing, Call
    <3> QED  BY <3>1, <3>3
  <2>2. CASE k \in stored
    <3> DEFINE y == Get(Now, k)
    <3>1. Has(y, stored, NoRec, k)
      BY <1>1, <2>2, GotIs
    <3>2. x = Missing(y)
      BY <2>2 DEF Line, Find, SeenToo
    <3> HIDE DEF y
    <3> QED  BY <3>1, <3>2, MissingIs DEF Has
  <2> QED  BY <2>1, <2>2
<1>3. stored' = stored /\ \E scr : Commit(x, scr)
  BY <1>2, NothingKept DEF Doomed
<1>4. Useless(screen.seq)
  BY DEF Useless, Gone
<1> QED  BY <1>2, <1>3, <1>4, LostEnds DEF Ready

LEMMA NameTheListKeeps ==
    ASSUME Ready, At({"list"}), NEW k \in stored, NEW x, Has(x, stored, NoRec, k), NameTheList(k, x)
    PROVE  Inv'
<1> DEFINE y == Past(x, k)
<1>1. Holds(y, stored, NoRec, NoRec, NoRec, NoRec)
  BY PastIs
<1>2. /\ screen.one = NoRec /\ Second(screen) = NoRec /\ screen.save = NoRec
      /\ stored \subseteq Key /\ Formed(screen, stored)
  BY AtNone DEF At, Ready
<1>3. Commit(y, screen) /\ stored' = stored
  BY DEF NameTheList
<1> HIDE DEF y
<1> QED  BY <1>1, <1>2, <1>3, AsBefore

LEMMA ListBrowseKeeps ==
    ASSUME Ready, NEW k \in stored, NEW x, Has(x, stored, NoRec, k), NEW m \in stored,
           NEW y, y = Get(Past(x, k), m), ListBrowse(m, y)
    PROVE  Inv'
<1> DEFINE p == Past(x, k)
           r == Ref(y, m)
<1>1. stored' = stored /\ stored \in SUBSET Key
  BY DEF ListBrowse, Ready
<1>2. Holds(p, stored, NoRec, NoRec, NoRec, NoRec)
  BY PastIs
<1> HIDE DEF p
<1>3. Has(y, stored, NoRec, m)
  BY <1>1, <1>2, GotIs DEF p
<1>4. Holds(y, stored, r, NoRec, NoRec, NoRec) /\ (~Ended(y) => r \in Rec /\ KeyOf(r) = m)
  BY <1>3, HoldsSwaps DEF Has
<1>5. IF m \in Persons THEN Show(y, "indi", r)
      ELSE Commit(Call(y, Die(y.c, "assert")), screen) /\ strayed'
  BY DEF ListBrowse
<1> HIDE DEF r
<1>6. CASE m \in Persons
  <2>1. ~Ended(y) => r \in Rec /\ KeyOf(r) \in stored /\ Fits("indi", r)
    BY <1>4, <1>6 DEF Fits
  <2> QED  BY <1>1, <1>4, <1>5, <1>6, <2>1, ShowIs DEF One
<1>7. CASE m \notin Persons
  BY <1>1, <1>4, <1>5, <1>7, DiesIs
<1> QED  BY <1>6, <1>7

-----------------------------------------------------------------------------
(* Every step. *)

LEMMA MenuKeeps ==
    ASSUME Ready, At({"menu"}), MenuCommand
    PROVE  Inv'
<1>1. CASE OpenList \/ AskInVain(Now)
  <2>1. Holds(Now, stored, NoRec, NoRec, NoRec, NoRec) \/ OpenList
    BY <1>1, EmptyHanded DEF At
  <2> QED  BY <1>1, <2>1, OpenListKeeps, AskInVainKeeps DEF Ready
<1>2. CASE \E k \in stored : \E x \in {Get(Now, k)} : Open(k, x)
  BY <1>2, OpenKeeps
<1>3. CASE \E k \in stored : \E x \in {Call(Now, KeyToCacheel(cache, k))} : DeleteRecord(k, x)
  BY <1>3, DeleteRecordKeeps
<1> QED  BY <1>1, <1>2, <1>3 DEF MenuCommand

LEMMA OneKeeps ==
    ASSUME Ready, At(One), NEW seen \in stored, NEW x, x = Shown(seen), NEW y, y = Unsaved(x),
           OneCommand(x, y)
    PROVE  Inv'
<1>1. Holds(x, stored, screen.one, Second(screen), screen.save, NoRec) /\ Second(screen) = NoRec
  BY ShownIs, AtOne DEF Ready, At
<1>2. Holds(x, stored, screen.one, NoRec, screen.save, NoRec)
  BY <1>1
<1>3. Holds(y, stored, screen.one, NoRec, NoRec, NoRec)
  <2> DEFINE s == screen.save
             a == screen.one
  <2>1. Holds(x, stored, s, NoRec, a, NoRec) /\ y = Leak(x, s)
    BY <1>2, HoldsSwaps DEF Unsaved
  <2> HIDE DEF s, a
  <2>2. Holds(y, stored, NoRec, NoRec, a, NoRec)
    BY <2>1, LeakIs
  <2>3. Holds(y, stored, a, NoRec, NoRec, NoRec)
    BY <2>2, HoldsSwaps
  <2> QED  BY <2>3 DEF a
<1>4. stored \subseteq Key /\ stored \in SUBSET Key
  BY DEF Ready
<1>5. CASE GiveUp(x) \/ UseSave(x)
  BY <1>2, <1>5, GiveUpKeeps, UseSaveKeeps
<1>6. CASE Stay(y) \/ GoToList(y) \/ Quit(y) \/ AskInVain(y)
  BY <1>3, <1>4, <1>6, StayKeeps, GoToListKeeps, QuitKeeps, AskInVainKeeps
<1>7. ASSUME NEW k \in stored, NEW z, z = Get(y, k), OneGot(k, z) PROVE Inv'
  <2>1. Has(z, stored, screen.one, k) /\ (~Ended(z) => Latest(z, k))
    BY <1>3, <1>4, <1>7, GotIs
  <2>2. CASE Go(k, z)
    BY <2>1, <2>2, GoKeeps
  <2>3. CASE GoToChild(k, z)
    BY <2>1, <2>3, GoToChildKeeps
  <2>4. CASE AuxHistory(k, z)
    BY <2>1, <2>4, AuxHistoryKeeps
  <2>5. CASE Beside(k, z)
    BY <2>1, <2>5, BesideKeeps
  <2>6. CASE RemoveSpouse(k, z)
    BY <2>1, <2>6, RemoveSpouseKeeps
  <2>7. CASE Stray(k, z)
    BY <2>1, <2>7, StrayKeeps
  <2>8. CASE \E m \in Alike(k) : \E w \in {Get(z, m)} : GoToTwo(k, m, w)
    <3>1. PICK m \in Alike(k) : GoToTwo(k, m, Get(z, m))
      BY <2>8
    <3>2. m \in stored
      BY DEF Alike
    <3> QED  BY <2>1, <3>1, <3>2, GoToTwoKeeps
  <2>9. CASE RemoveFromFamily(k, z)
    BY <2>1, <2>9, RemoveFromFamilyKeeps
  <2> QED  BY <1>7, <2>2, <2>3, <2>4, <2>5, <2>6, <2>7, <2>8, <2>9 DEF OneGot
<1>8. ASSUME NEW k \in Key \ stored, NEW z, z = New(x, k), NewFamily(k, z) PROVE Inv'
  BY <1>2, <1>8, NewFamilyKeeps
<1>9. ASSUME NEW k \in Key \ stored, NEW z, z = New(y, k),
             NewPerson(k, z) \/ NewOther(k, z) \/ EditToRefer(k, z)
      PROVE  Inv'
  <2>1. Has(z, stored \cup {k}, screen.one, k)
    BY <1>3, <1>4, <1>9, MadeIs
  <2>2. CASE NewPerson(k, z)
    BY <2>1, <2>2, NewPersonKeeps
  <2>3. CASE NewOther(k, z)
    BY <2>1, <2>3, NewOtherKeeps
  <2>4. CASE EditToRefer(k, z)
    BY <2>1, <2>4, EditToReferKeeps
  <2> QED  BY <1>9, <2>2, <2>3, <2>4
<1> QED  BY <1>5, <1>6, <1>7, <1>8, <1>9 DEF OneCommand

LEMMA TwoKeeps ==
    ASSUME Ready, At(Two), NEW seen \in stored, NEW x, x = Shown(seen), TwoCommand(x)
    PROVE  Inv'
<1>1. /\ Holds(x, stored, screen.one, Second(screen), NoRec, NoRec)
      /\ ~Ended(x) => x.c.table[KeyOf(screen.two)] # NoEl
  BY ShownIs, TwoHeld DEF Ready, At
<1>2. stored \in SUBSET Key
  BY DEF Ready
<1>3. CASE StayTwo(x) \/ Swap(x) \/ CopyTopToBottom(x) \/ GoToTop(x)
  BY <1>1, <1>3, StayTwoKeeps, SwapKeeps, CopyTopToBottomKeeps, GoToTopKeeps
<1>4. CASE Merge(x) \/ BrowseNewList(x) \/ QuitTwo(x) \/ AskInVain(x)
  BY <1>1, <1>2, <1>4, MergeKeeps, BrowseNewListKeeps, QuitTwoKeeps, AskInVainKeeps
<1>5. ASSUME NEW k \in stored, NEW y, y = Get(x, k), TwoGot(k, y) PROVE Inv'
  <2>1. /\ Holds(y, stored, screen.one, Second(screen), NoRec, Ref(y, k))
        /\ ~Ended(y) => Ref(y, k) \in Rec /\ KeyOf(Ref(y, k)) = k /\ Latest(y, k)
    BY <1>1, <1>2, <1>5, GetIs
  <2>2. HasToo(y, k)
    BY <2>1 DEF HasToo
  <2>3. CASE GoAbove(k, y)
    BY <2>1, <2>3, GoAboveKeeps
  <2>4. CASE BrowseNew(k, y) \/ OneParent(k, y)
    BY <2>2, <2>4, BrowseNewKeeps, OneParentKeeps
  <2>5. CASE \E m \in Alike(k) : \E w \in {Get(y, m)} : BothParents(k, m, w)
    <3>1. PICK m \in Alike(k) : BothParents(k, m, Get(y, m))
      BY <2>5
    <3>2. m \in stored
      BY DEF Alike
    <3> QED  BY <2>1, <2>2, <3>1, <3>2, BothParentsKeeps
  <2> QED  BY <1>5, <2>3, <2>4, <2>5 DEF TwoGot
<1>6. ASSUME NEW k \in Key \ stored, NEW y, y = New(x, k), AddFamily(k, y) PROVE Inv'
  BY <1>1, <1>6, AddFamilyKeeps
<1> QED  BY <1>3, <1>4, <1>5, <1>6 DEF TwoCommand

LEMMA ListKeeps ==
    ASSUME Ready, At({"list"}), NEW k \in screen.seq, NEW seen \in stored \cup screen.seq,
           NEW x, x = Line(k, seen), ListCommand(k, x)
    PROVE  Inv'
<1>1. CASE {k, seen} \ stored # {}
  BY <1>1, LostLineKeeps
<1>2. CASE {k, seen} \subseteq stored
  <2>1. Has(x, stored, NoRec, k) /\ stored \subseteq Key
    BY <1>2, LineIs DEF Ready
  <2>2. CASE ListStay(k, x)
    BY <1>2, <2>1, <2>2, ListStayKeeps
  <2>3. CASE ListSelect(k, x)
    BY <1>2, <2>1, <2>3, ListSelectKeeps
  <2>4. CASE ListNew(k, x) \/ ListQuit(k, x)
    BY <1>2, <2>1, <2>4, ListNewKeeps
  <2>5. CASE NameTheList(k, x)
    BY <1>2, <2>1, <2>5, NameTheListKeeps
  <2>6. CASE AskInVain(x)
    BY <2>1, <2>6, AskInVainKeeps DEF Has
  <2>7. ASSUME NEW m \in screen.seq \ {k}, NEW y, y = Find(x, m), ListTandem(k, m, y) PROVE Inv'
    <3>1. CASE m \in stored
      <4>1. y = Get(x, m) /\ m \in stored \ {k} /\ k \in stored
        BY <1>2, <2>7, <3>1 DEF Find
      <4> QED  BY <2>1, <2>7, <4>1, ListTandemKeeps
    <3>2. CASE m \notin stored
      BY <2>1, <2>7, <3>2, LostTandemKeeps DEF Has
    <3> QED  BY <3>1, <3>2
  <2>8. ASSUME NEW m \in stored, NEW y, y = Get(Past(x, k), m), ListBrowse(m, y) PROVE Inv'
    BY <1>2, <2>1, <2>8, ListBrowseKeeps
  <2> QED  BY <2>2, <2>3, <2>4, <2>5, <2>6, <2>7, <2>8 DEF ListCommand
<1> QED  BY <1>1, <1>2

(* What a step does to the lists with a name: a person who is deleted is     *)
(* taken from them all, and a list that gets a name is one that was shown.   *)
ListsStep ==
    \/ UNCHANGED <<stored, lists>>
    \/ \E k : Stores(k) \/ Removes(k)
    \/ stored' = stored /\ lists' \subseteq lists \cup {screen.seq}

LEMMA OneLists ==
    ASSUME NEW k, NEW x, OneGot(k, x)
    PROVE  ListsStep
<1>1. CASE RemoveFromFamily(k, x)
  BY <1>1 DEF RemoveFromFamily, Unchanged, ListsStep
<1>2. CASE ~RemoveFromFamily(k, x)
  BY <1>2 DEF OneGot, Go, GoToChild, AuxHistory, Beside, RemoveSpouse, Stray, GoToTwo, Unchanged, ListsStep
<1> QED  BY <1>1, <1>2

LEMMA ListsChange ==
    ASSUME Next
    PROVE  ListsStep
<1>1. CASE MenuCommand
  <2>1. CASE OpenList \/ AskInVain(Now)
    BY <2>1 DEF OpenList, AskInVain, Unchanged, ListsStep
  <2>2. ASSUME NEW k \in stored, NEW x, Open(k, x) PROVE ListsStep
    BY <2>2 DEF Open, Unchanged, ListsStep
  <2>3. ASSUME NEW k \in stored, NEW x, DeleteRecord(k, x) PROVE ListsStep
    BY <2>3 DEF DeleteRecord, ListsStep
  <2> QED  BY <1>1, <2>1, <2>2, <2>3 DEF MenuCommand
<1>2. ASSUME NEW x, NEW y, OneCommand(x, y) PROVE ListsStep
  <2>1. CASE GiveUp(x) \/ UseSave(x) \/ Stay(y) \/ GoToList(y) \/ Quit(y) \/ AskInVain(y)
    BY <2>1 DEF GiveUp, UseSave, Stay, GoToList, Quit, AskInVain, Unchanged, ListsStep
  <2>2. ASSUME NEW k \in stored, NEW z, OneGot(k, z) PROVE ListsStep
    BY <2>2, OneLists
  <2>3. ASSUME NEW k \in Key \ stored, NEW z,
               NewFamily(k, z) \/ NewPerson(k, z) \/ NewOther(k, z) \/ EditToRefer(k, z)
        PROVE  ListsStep
    BY <2>3 DEF NewFamily, NewPerson, NewOther, EditToRefer, ListsStep
  <2> QED  BY <1>2, <2>1, <2>2, <2>3 DEF OneCommand
<1>3. ASSUME NEW x, TwoCommand(x), At(Two) PROVE ListsStep
  <2>1. CASE StayTwo(x) \/ Swap(x) \/ CopyTopToBottom(x) \/ GoToTop(x) \/ BrowseNewList(x) \/ QuitTwo(x)
             \/ AskInVain(x)
    BY <2>1 DEF StayTwo, Swap, CopyTopToBottom, GoToTop, BrowseNewList, QuitTwo, AskInVain, Unchanged, ListsStep
  <2>2. CASE Merge(x)
    BY <2>2 DEF Merge, ListsStep
  <2>3. ASSUME NEW k \in stored, NEW y, TwoGot(k, y) PROVE ListsStep
    BY <2>3 DEF TwoGot, GoAbove, BrowseNew, OneParent, BothParents, Unchanged, ListsStep
  <2>4. ASSUME NEW k \in Key \ stored, NEW y, AddFamily(k, y) PROVE ListsStep
    BY <2>4 DEF AddFamily, ListsStep
  <2> QED  BY <1>3, <2>1, <2>2, <2>3, <2>4 DEF TwoCommand
<1>4. ASSUME NEW k, NEW x, ListCommand(k, x) PROVE ListsStep
  <2>1. CASE ListStay(k, x) \/ ListSelect(k, x) \/ ListNew(k, x) \/ ListQuit(k, x) \/ AskInVain(x)
    BY <2>1 DEF ListStay, ListSelect, ListNew, ListQuit, AskInVain, Unchanged, ListsStep
  <2>2. CASE NameTheList(k, x)
    BY <2>2 DEF NameTheList, ListsStep
  <2>3. ASSUME NEW m, NEW y, ListTandem(k, m, y) PROVE ListsStep
    BY <2>3 DEF ListTandem, Unchanged, ListsStep
  <2>4. ASSUME NEW m, NEW y, ListBrowse(m, y) PROVE ListsStep
    BY <2>4 DEF ListBrowse, ListsStep
  <2> QED  BY <1>4, <2>1, <2>2, <2>3, <2>4 DEF ListCommand
<1> QED  BY <1>1, <1>2, <1>3, <1>4 DEF Next

LEMMA TidyKeeps ==
    ASSUME Tidy, Tidied(screen.seq, stored), ListsStep
    PROVE  Tidy'
<1>1. CASE UNCHANGED <<stored, lists>>
  BY <1>1 DEF Tidy, Tidied, Persons
<1>2. ASSUME NEW k, Stores(k) PROVE Tidy'
  BY <1>2 DEF Tidy, Tidied, Persons, Stores
<1>3. ASSUME NEW k, Removes(k) PROVE Tidy'
  <2>1. stored' = stored \ {k}
    BY <1>3 DEF Removes
  <2>2. CASE k \in Persons
    <3>1. lists' = {keys \ {k} : keys \in lists}
      BY <1>3, <2>2 DEF Removes, RemoveFromLists
    <3>2. \A keys \in lists : Tidied(keys \ {k}, stored \ {k})
      BY DEF Tidy, Tidied
    <3>3. \A keys \in lists' : Tidied(keys, stored \ {k})
      BY <3>1, <3>2
    <3> QED  BY <2>1, <3>3 DEF Tidy, Tidied, Persons
  <2>3. CASE k \notin Persons
    <3>1. lists' = lists
      BY <1>3, <2>3 DEF Removes, RemoveFromLists
    <3> QED  BY <2>1, <2>3, <3>1 DEF Tidy, Tidied, Persons
  <2> QED  BY <2>2, <2>3
<1>4. CASE stored' = stored /\ lists' \subseteq lists \cup {screen.seq}
  BY <1>4 DEF Tidy, Tidied, Persons
<1> QED  BY <1>1, <1>2, <1>3, <1>4 DEF ListsStep

LEMMA StepKeeps ==
    ASSUME IInv, Next
    PROVE  IInv'
<1>1. Ready
  BY DEF IInv, Inv, Next, Room, Alive, Ready
<1>2. ASSUME At({"menu"}), MenuCommand PROVE Inv'
  BY <1>1, <1>2, MenuKeeps
<1>3. ASSUME NEW seen \in stored, At(One), \E x \in {Shown(seen)} : \E y \in {Unsaved(x)} : OneCommand(x, y)
      PROVE  Inv'
  BY <1>1, <1>3, OneKeeps
<1>4. ASSUME NEW seen \in stored, At(Two), \E x \in {Shown(seen)} : TwoCommand(x)
      PROVE  Inv'
  BY <1>1, <1>4, TwoKeeps
<1>5. ASSUME NEW k \in screen.seq, NEW seen \in stored \cup screen.seq, At({"list"}),
             \E x \in {Line(k, seen)} : ListCommand(k, x)
      PROVE  Inv'
  BY <1>1, <1>5, ListKeeps
<1>6. Inv'
  BY <1>2, <1>3, <1>4, <1>5 DEF Next
<1>7. Tidy'
  BY <1>1, ListsChange, TidyKeeps DEF Ready, Formed
<1> QED  BY <1>6, <1>7 DEF IInv

-----------------------------------------------------------------------------
(* The beginning, and what the invariant says of the counts and the screens. *)

LEMMA InitIs ==
    ASSUME Init
    PROVE  IInv
<1>1. cache = EmptyCaches(FreeOrder) /\ stored = Key /\ lists = {} /\ screen = Blank /\ leaked = {}
  BY DEF Init
<1>2. /\ Consistent(cache) /\ cache.dead = "alive"
      /\ \A e \in El : cache.lock[e] = 0
      /\ \A r \in Rec : cache.refs[r] = 0 /\ Own(cache, r) = 0
  BY <1>1, EmptyCachesIs, FreeOrderAssumption
<1>3. Tidied({}, stored)
  BY DEF Tidied
<1>4. Formed(screen, stored) /\ screen.one = NoRec /\ Second(screen) = NoRec /\ screen.save = NoRec
  BY <1>1, <1>3, NothingShown
<1> DEFINE o == Out(NoRec, NoRec, NoRec, NoRec, {})
<1>5. /\ o \in [Rec -> Nat]
      /\ \A r \in Rec : o[r] = Bit(NoRec = r) + Bit(NoRec = r) + Bit(NoRec = r) + Bit(NoRec = r)
                                  + Bit(r \in {})
  BY OutIs
<1>6. \A r \in Rec : Bit(NoRec = r) = 0 /\ Bit(r \in {}) = 0
  BY Constants DEF Bit
<1> HIDE DEF o
<1>7. Counted(cache, o)
  BY <1>2, <1>5, <1>6 DEF Counted
<1>8. Now \in [c : CacheType, leaked : SUBSET Rec, got : [Key -> Handle]] /\ Now.c = cache /\ Now.leaked = {}
  <2>1. cache \in CacheType /\ leaked \in SUBSET Rec /\ [k \in Key |-> NoRec] \in [Key -> Handle]
    BY <1>1, <1>2 DEF Consistent, Handle
  <2> QED  BY <1>1, <2>1 DEF Now
<1>9. Sane(Now, stored)
  <2>1. \A k \in Key : cache.table[k] # NoEl => k \in stored
    BY <1>1
  <2> QED  BY <1>2, <1>8, <2>1 DEF Sane
<1>10. Counts
  <2>1. {NoRec} \subseteq Handle
    BY DEF Handle
  <2> QED  BY <1>2, <1>4, <1>7, <1>8, <1>9, <2>1 DEF Counts, Holds, Ended, o
<1> QED  BY <1>1, <1>2, <1>4, <1>10 DEF IInv, Inv, Alive, Tidy

LEMMA StillKeeps ==
    ASSUME IInv, UNCHANGED vars
    PROVE  IInv'
<1>1. /\ cache' = cache /\ stored' = stored /\ lists' = lists /\ screen' = screen /\ leaked' = leaked
      /\ robbed' = robbed /\ strayed' = strayed
  BY DEF vars
<1>2. Now' = Now
  BY <1>1 DEF Now
<1>3. Alive' = Alive /\ (Roomy' <=> Roomy)
  BY <1>1 DEF Alive, Roomy
<1>4. Counts => Counts'
  BY <1>1, <1>2 DEF Counts, Second, Holds, Ended, Sane, Roomy
<1>5. Formed(screen, stored) => Formed(screen, stored)'
  BY <1>1 DEF Formed, Tidied, Persons
<1>6. Tidy'
  BY <1>1 DEF IInv, Tidy, Tidied, Persons
<1>7. \A keys : Useless(keys)' <=> Useless(keys)
  BY <1>1 DEF Useless, Gone
<1> QED  BY <1>1, <1>3, <1>4, <1>5, <1>6, <1>7 DEF IInv, Inv

LEMMA InvAlways == Spec => []IInv
<1>1. Init => IInv
  BY InitIs
<1>2. IInv /\ [Next]_vars => IInv'
  BY StepKeeps, StillKeeps
<1> QED  BY <1>1, <1>2, PTL DEF Spec

\* at most one element is of a record
LEMMA OwnIs ==
    ASSUME NEW c, Consistent(c), NEW r \in Rec
    PROVE  Cardinality({e \in El : c.crec[e] = r}) = Own(c, r)
<1> DEFINE U == {e \in El : c.crec[e] = r}
<1>1. \A e1, e2 \in U : e1 = e2
  BY Constants DEF Consistent, RecordsLinked
<1>2. CASE U = {}
  <2>1. Own(c, r) = 0
    BY <1>2 DEF Own
  <2> QED  BY <1>2, <2>1, FS_EmptySet
<1>3. CASE U # {}
  <2>1. PICK e \in El : c.crec[e] = r
    BY <1>3
  <2>2. U = {e}
    BY <1>1, <2>1
  <2>3. Own(c, r) = 1
    BY <2>1 DEF Own
  <2> QED  BY <2>2, <2>3, FS_Singleton
<1> QED  BY <1>2, <1>3

LEMMA OneMore ==
    ASSUME NEW S, IsFiniteSet(S), NEW x, x \notin S, NEW p, NEW T, T = IF p THEN S \cup {x} ELSE S
    PROVE  IsFiniteSet(T) /\ Cardinality(T) = Cardinality(S) + Bit(p)
<1>1. Cardinality(S) \in Nat
  BY FS_CardinalityType
<1>2. CASE p
  BY <1>1, <1>2, FS_AddElement DEF Bit
<1>3. CASE ~p
  BY <1>1, <1>3 DEF Bit
<1> QED  BY <1>2, <1>3

\* the handles of the screen on a record
LEMMA HoldersAre ==
    ASSUME NEW r \in Rec
    PROVE  Cardinality(Holders(r)) = Bit(screen.one = r) + Bit(Second(screen) = r) + Bit(screen.save = r)
<1> DEFINE p == screen.one = r
           q == Second(screen) = r
           s == screen.save = r
           A == IF p THEN {"one"} ELSE {}
           B == IF q THEN A \cup {"two"} ELSE A
           C == IF s THEN B \cup {"save"} ELSE B
<1>1. Holders(r) = C
  <2>1. "two" \in Holders(r) <=> q
    BY Constants DEF Holders, Second
  <2>2. /\ "one" \in Holders(r) <=> p
        /\ "save" \in Holders(r) <=> s
        /\ Holders(r) \subseteq {"one", "two", "save"}
    BY DEF Holders
  <2> QED  BY <2>1, <2>2
<1>2. p \in BOOLEAN /\ q \in BOOLEAN /\ s \in BOOLEAN
  OBVIOUS
<1> HIDE DEF p, q, s
<1>3. IsFiniteSet({}) /\ Cardinality({}) = 0
  BY FS_EmptySet
<1>4. IsFiniteSet(A) /\ Cardinality(A) = 0 + Bit(p)
  <2>1. A = IF p THEN {} \cup {"one"} ELSE {}
    OBVIOUS
  <2> HIDE DEF A
  <2> QED  BY <1>3, <2>1, OneMore
<1>5. IsFiniteSet(B) /\ Cardinality(B) = Cardinality(A) + Bit(q)
  <2>1. "two" \notin A
    OBVIOUS
  <2> HIDE DEF A
  <2> QED  BY <1>4, <2>1, OneMore
<1>6. IsFiniteSet(C) /\ Cardinality(C) = Cardinality(B) + Bit(s)
  <2>1. "save" \notin B
    OBVIOUS
  <2> HIDE DEF A, B
  <2> QED  BY <1>5, <2>1, OneMore
<1>7. Bit(p) \in Nat
  BY DEF Bit
<1> HIDE DEF A, B, C
<1>8. Cardinality(Holders(r)) = Bit(p) + Bit(q) + Bit(s)
  BY <1>1, <1>4, <1>5, <1>6, <1>7
<1> QED  BY <1>8 DEF p, q, s

LEMMA CountsExact ==
    ASSUME Inv
    PROVE  HandlesExact
<1> SUFFICES ASSUME Alive, ~robbed
             PROVE  /\ ElementsPlaced(cache) /\ TableExact(cache) /\ RecordsLinked(cache)
                    /\ \A e \in El : cache.lock[e] = 0
                    /\ \A r \in Rec :
                         cache.refs[r] = Cardinality({e \in El : cache.crec[e] = r}) + Cardinality(Holders(r))
                                           + Bit(r \in leaked)
  BY DEF HandlesExact
<1>1. Counts /\ Now.c = cache /\ Now.leaked = leaked
  BY DEF Inv, Now
<1> HIDE DEF Now
<1> DEFINE o == Out(screen.one, Second(screen), screen.save, NoRec, leaked)
<1>2. Consistent(cache) /\ Counted(cache, o) /\ \A e \in El : cache.lock[e] = 0
  BY <1>1 DEF Counts, Holds, Ended, Sane, Alive
<1>3. ASSUME NEW r \in Rec
      PROVE  cache.refs[r] = Cardinality({e \in El : cache.crec[e] = r}) + Cardinality(Holders(r))
                               + Bit(r \in leaked)
  <2>1. o[r] = Bit(screen.one = r) + Bit(Second(screen) = r) + Bit(screen.save = r) + Bit(NoRec = r)
                  + Bit(r \in leaked)
    BY OutIs
  <2>2. Bit(NoRec = r) = 0
    BY Constants DEF Bit
  <2>3. Cardinality(Holders(r)) = Bit(screen.one = r) + Bit(Second(screen) = r) + Bit(screen.save = r)
    BY HoldersAre
  <2>4. cache.refs[r] = Own(cache, r) + o[r] /\ Own(cache, r) \in Nat
    BY <1>2 DEF Counted, Own
  <2>5. Cardinality({e \in El : cache.crec[e] = r}) = Own(cache, r)
    BY <1>2, OwnIs
  <2>6. /\ Bit(screen.one = r) \in Nat /\ Bit(Second(screen) = r) \in Nat /\ Bit(screen.save = r) \in Nat
        /\ Bit(r \in leaked) \in Nat
    BY DEF Bit
  <2> HIDE DEF o
  <2> QED  BY <2>1, <2>2, <2>3, <2>4, <2>5, <2>6
<1> QED  BY <1>2, <1>3 DEF Consistent

(***************************************************************************)
(* Every record object is counted the references that its element, the     *)
(* screen and the forgotten handles make, after any commands on any        *)
(* records, caches and lists (setref and delref_record in browse.c,        *)
(* tandem.c and lbrowse.c), until the current record is edited right after *)
(* one was added to refer to.                                              *)
(***************************************************************************)
THEOREM HandlesAreExact == Spec => []HandlesExact
<1>1. IInv => HandlesExact
  BY CountsExact DEF IInv
<1> QED  BY <1>1, InvAlways, PTL

LEMMA ScreenHolds ==
    ASSUME IInv, Roomy
    PROVE  ScreensFit
<1>1. /\ ~Alive => \/ strayed /\ cache.dead = "assert"
                   \/ cache.dead = "missing" /\ \E keys \in lists \cup {screen.seq} : Useless(keys)
      /\ \A keys \in lists : Gone(keys) \cap Persons = {}
  BY DEF IInv, Inv, Tidy, Tidied, Gone
<1>2. ASSUME Alive, ~strayed, ~robbed
      PROVE  /\ screen.at \in One \cup Two <=> screen.one # NoRec
             /\ screen.at \in Two <=> screen.two # NoRec
             /\ screen.one # NoRec => Fits(screen.at, screen.one)
             /\ screen.two # NoRec => Fits(screen.at, screen.two)
             /\ \A r \in {screen.one, screen.two} \ {NoRec} : cache.refs[r] > 0 /\ KeyOf(r) \in stored
             /\ Gone(screen.seq) \cap Persons = {}
  <2>1. Alive /\ Formed(screen, stored) /\ Counts /\ Now.c = cache /\ Now.leaked = leaked
    BY <1>2 DEF IInv, Inv, Now
  <2> HIDE DEF Now
  <2> DEFINE o == Out(screen.one, Second(screen), screen.save, NoRec, leaked)
  <2>2. Counted(cache, o)
    BY <2>1 DEF Counts, Holds, Ended, Alive
  <2>3. ASSUME NEW r \in {screen.one, screen.two} \ {NoRec}
        PROVE  cache.refs[r] > 0 /\ KeyOf(r) \in stored
    <3>1. r \in Rec /\ KeyOf(r) \in stored
      BY <2>1 DEF Formed, Layout, Handle
    <3>2. screen.one = r \/ Second(screen) = r
      BY <2>1 DEF Formed, Second
    <3>3. o[r] > 0 /\ o[r] \in Nat
      <4>1. o[r] = Bit(screen.one = r) + Bit(Second(screen) = r) + Bit(screen.save = r) + Bit(NoRec = r)
                      + Bit(r \in leaked)
        BY <3>1, OutIs
      <4>2. /\ Bit(screen.one = r) \in Nat /\ Bit(Second(screen) = r) \in Nat /\ Bit(screen.save = r) \in Nat
            /\ Bit(NoRec = r) \in Nat /\ Bit(r \in leaked) \in Nat
            /\ Bit(screen.one = r) = 1 \/ Bit(Second(screen) = r) = 1
        BY <3>2 DEF Bit
      <4> HIDE DEF o
      <4> QED  BY <4>1, <4>2
    <3>4. cache.refs[r] = Own(cache, r) + o[r] /\ Own(cache, r) \in Nat
      BY <2>2, <3>1 DEF Counted, Own
    <3> HIDE DEF o
    <3> QED  BY <3>1, <3>3, <3>4
  <2>4. /\ screen.at \in One \cup Two <=> screen.one # NoRec
        /\ screen.at \in Two <=> screen.two # NoRec
        /\ screen.one # NoRec => Fits(screen.at, screen.one)
        /\ screen.two # NoRec => Fits(screen.at, screen.two)
        /\ Gone(screen.seq) \cap Persons = {}
    BY <2>1 DEF Formed, Tidied, Gone
  <2> QED  BY <2>3, <2>4
<1> QED  BY <1>1, <1>2 DEF ScreensFit

(***************************************************************************)
(* If there is room for two records in the caches, a screen shows living   *)
(* records of the database, of its type, as it asserts at its beginning,   *)
(* and no list, on the screen or with a name, has a person who was         *)
(* deleted, until something is taken for a person that is none             *)
(* (ask_for_indi) or a reference is robbed; and the program dies of        *)
(* nothing but the first, and a list that has the key of a deleted family, *)
(* source, event or other record, or has lost its last line (brwslist.c).  *)
(***************************************************************************)
THEOREM ScreensStayFit == Roomy => (Spec => []ScreensFit)
<1> SUFFICES ASSUME Roomy PROVE Spec => []ScreensFit
  OBVIOUS
<1>1. IInv => ScreensFit
  BY ScreenHolds
<1> QED  BY <1>1, InvAlways, PTL
================================================================================
