------------------------------ MODULE SlotsProofs ------------------------------
(***************************************************************************)
(* Proofs about Slots, for any event, hours, zones, windows and busy times *)
(* within SlotsBounds: every picker shows exactly the times that can be    *)
(* had.  The argument has three parts: what WallToUtc finds is when the    *)
(* clock first reads a time; merging busy intervals changes nothing that   *)
(* a slot can overlap; and the dates and the busy time that are read miss  *)
(* nothing the window shows.                                               *)
(***************************************************************************)
EXTENDS Slots, FiniteSetTheorems, WellFoundedInduction, TLAPS

-----------------------------------------------------------------------------
(* Numbers. *)

(* A day is where its instants are. *)
LEMMA DivIs ==
  ASSUME NEW x \in Int, NEW D \in Nat \ {0}
  PROVE  /\ x \div D \in Int
         /\ (x \div D) * D <= x
         /\ x < (x \div D) * D + D
  OBVIOUS

(* Days do not overlap. *)
LEMMA TimesMono ==
  ASSUME NEW a \in Int, NEW b \in Int, NEW D \in Nat \ {0}, a < b
  PROVE  a * D + D <= b * D
<1>1. a + 1 <= b
  OBVIOUS
<1>2. (b - (a + 1)) * D >= 0
  <2>1. b - (a + 1) \in Nat
    BY <1>1
  <2> QED BY <2>1
<1>3. (b - (a + 1)) * D = b * D - (a * D + D)
  OBVIOUS
<1>4. a * D \in Int /\ b * D \in Int
  OBVIOUS
<1> QED BY <1>2, <1>3, <1>4

LEMMA DivWithin ==
  ASSUME NEW x \in Int, NEW q \in Int, NEW D \in Nat \ {0}
  PROVE  /\ x < q * D + D => x \div D <= q
         /\ q * D <= x => q <= x \div D
<1> DEFINE d == x \div D
<1>1. d \in Int /\ d * D <= x /\ x < d * D + D
  BY DivIs
<1>2. q * D \in Int /\ d * D \in Int
  BY <1>1
<1> HIDE DEF d
<1>3. q < d => q * D + D <= d * D
  BY <1>1, TimesMono
<1>4. d < q => d * D + D <= q * D
  BY <1>1, TimesMono
<1> QED BY <1>1, <1>2, <1>3, <1>4 DEF d

(* A set of numbers has a least one. *)
LEMMA NatMin ==
  ASSUME NEW T, T \subseteq Nat, T # {}
  PROVE  \E x \in T : \A y \in T : x <= y
<1>1. PICK x \in T : \A y \in T : ~ (<<y, x>> \in OpToRel(<, Nat))
  BY NatLessThanWellFounded, WFMin
<1>2. \A y \in T : ~ (y < x)
  BY <1>1 DEF OpToRel
<1> QED
  BY <1>2

-----------------------------------------------------------------------------
(* The clock. *)

Ready == SlotsBounds /\ event \in Events /\ zone \in Zones

(* u is when the clock first reads w, or has passed it. *)
First(w, u) ==
    /\ u \in Int /\ w - DayLen <= u /\ u <= w + DayLen
    /\ Local(u) >= w
    /\ \A v \in Int : v < u => Local(v) < w

LEMMA ZoneType ==
  ASSUME Ready
  PROVE  /\ DayLen \in Nat \ {0} /\ MaxInstant \in Nat /\ zone.at \in Int
         /\ zone.before \in 1 - DayLen .. DayLen - 1 /\ zone.after \in 1 - DayLen .. DayLen - 1
         /\ \A u \in Int : Offset(u) \in 1 - DayLen .. DayLen - 1 /\ Local(u) \in Int
<1>1. /\ DayLen \in Nat \ {0} /\ MaxInstant \in Nat /\ zone.at \in Int
      /\ zone.before \in 1 - DayLen .. DayLen - 1 /\ zone.after \in 1 - DayLen .. DayLen - 1
  BY DEF Ready, SlotsBounds
<1> QED BY <1>1 DEF Offset, Local

(* WallToUtc finds it. *)
LEMMA WallFirst ==
  ASSUME Ready, NEW w \in Int
  PROVE  First(w, WallToUtc(w))
<1> DEFINE at == zone.at
           bef == zone.before
           aft == zone.after
           early == w - Greater(Offset(w - DayLen), Offset(w + DayLen))
           late == w - Lesser(Offset(w - DayLen), Offset(w + DayLen))
<1>1. /\ DayLen \in Nat \ {0} /\ at \in Int
      /\ bef \in 1 - DayLen .. DayLen - 1 /\ aft \in 1 - DayLen .. DayLen - 1
  BY ZoneType
<1>2. \A u \in Int : Local(u) = IF u < at THEN u + bef ELSE u + aft
  BY <1>1 DEF Local, Offset
<1>3. ASSUME w - DayLen >= at
      PROVE  First(w, WallToUtc(w))
  <2>1. early = w - aft
    BY <1>1, <1>3 DEF Greater, Offset
  <2>2. early >= at /\ early \in Int
    BY <1>1, <1>3, <2>1
  <2>3. Local(early) = w
    BY <1>1, <1>2, <2>1, <2>2
  <2>4. WallToUtc(w) = early
    BY <2>3 DEF WallToUtc
  <2>5. \A v \in Int : v < early => Local(v) < w
    BY <1>1, <1>2, <1>3, <2>1
  <2> QED BY <1>1, <2>1, <2>2, <2>3, <2>4, <2>5 DEF First
<1>4. ASSUME w + DayLen < at
      PROVE  First(w, WallToUtc(w))
  <2>1. early = w - bef
    BY <1>1, <1>4 DEF Greater, Offset
  <2>2. early < at /\ early \in Int
    BY <1>1, <1>4, <2>1
  <2>3. Local(early) = w
    BY <1>1, <1>2, <2>1, <2>2
  <2>4. WallToUtc(w) = early
    BY <2>3 DEF WallToUtc
  <2>5. \A v \in Int : v < early => Local(v) < w
    BY <1>1, <1>2, <1>4, <2>1, <2>2
  <2> QED BY <1>1, <2>1, <2>2, <2>3, <2>4, <2>5 DEF First
<1>5. ASSUME w - DayLen < at, at <= w + DayLen
      PROVE  First(w, WallToUtc(w))
  <2>1. Offset(w - DayLen) = bef /\ Offset(w + DayLen) = aft
    BY <1>1, <1>5 DEF Offset
  <2>2. early = w - Greater(bef, aft) /\ late = w - Lesser(bef, aft)
    BY <2>1
  <2>3. CASE bef >= aft
    <3>1. early = w - bef /\ late = w - aft
      BY <1>1, <2>2, <2>3 DEF Greater, Lesser
    <3>2. CASE early < at \/ bef = aft
      <4>1. Local(early) = w
        BY <1>1, <1>2, <3>1, <3>2
      <4>2. WallToUtc(w) = early
        BY <4>1 DEF WallToUtc
      <4>3. \A v \in Int : v < early => Local(v) < w
        BY <1>1, <1>2, <2>3, <3>1, <3>2
      <4> QED BY <1>1, <3>1, <4>1, <4>2, <4>3 DEF First
    <3>3. CASE early >= at /\ bef > aft
      <4>1. Local(early) # w /\ Local(late) = w
        BY <1>1, <1>2, <3>1, <3>3
      <4>2. WallToUtc(w) = late
        BY <4>1 DEF WallToUtc
      <4>3. \A v \in Int : v < late => Local(v) < w
        BY <1>1, <1>2, <3>1, <3>3
      <4> QED BY <1>1, <3>1, <4>1, <4>2, <4>3 DEF First
    <3> QED BY <1>1, <2>3, <3>1, <3>2, <3>3
  <2>4. CASE bef < aft
    <3>1. early = w - aft /\ late = w - bef /\ early \in Int /\ late \in Int
      BY <1>1, <2>2, <2>4 DEF Greater, Lesser
    <3>2. CASE early >= at
      <4>1. Local(early) = w
        BY <1>1, <1>2, <3>1, <3>2
      <4>2. WallToUtc(w) = early
        BY <4>1 DEF WallToUtc
      <4>3. \A v \in Int : v < early => Local(v) < w
        BY <1>1, <1>2, <2>4, <3>1, <3>2
      <4> QED BY <1>1, <3>1, <4>1, <4>2, <4>3 DEF First
    <3>3. CASE early < at /\ late < at
      <4>1. Local(early) # w /\ Local(late) = w
        BY <1>1, <1>2, <2>4, <3>1, <3>3
      <4>2. WallToUtc(w) = late
        BY <4>1 DEF WallToUtc
      <4>3. \A v \in Int : v < late => Local(v) < w
        BY <1>1, <1>2, <3>1, <3>3
      <4> QED BY <1>1, <3>1, <4>1, <4>2, <4>3 DEF First
    <3>4. CASE early < at /\ late >= at
      <4>1. Local(early) # w /\ Local(late) # w
        BY <1>1, <1>2, <2>4, <3>1, <3>4
      <4> DEFINE Turn(u) == Offset(u) = Offset(late) /\ Offset(u - 1) # Offset(late)
      <4>2. \A u \in early .. late : Turn(u) <=> u = at
        BY <1>1, <2>4, <3>1, <3>4 DEF Offset
      <4>3. at \in early .. late
        BY <1>1, <3>1, <3>4
      <4>4. WallToUtc(w) = CHOOSE u \in early .. late : Turn(u)
        BY <4>1 DEF WallToUtc
      <4> HIDE DEF Turn, early, late
      <4>5. WallToUtc(w) = at
        BY <4>2, <4>3, <4>4
      <4>6. Local(at) >= w /\ \A v \in Int : v < at => Local(v) < w
        BY <1>1, <1>2, <3>1, <3>4
      <4>7. w - DayLen <= at /\ at <= w + DayLen
        BY <1>1, <1>5
      <4> QED BY <1>1, <4>5, <4>6, <4>7 DEF First
    <3> QED BY <1>1, <3>1, <3>2, <3>3, <3>4
  <2> QED BY <1>1, <2>3, <2>4
<1> QED BY <1>1, <1>3, <1>4, <1>5

(* There is one such instant, and FirstAt is it. *)
LEMMA FirstIs ==
  ASSUME Ready, NEW w \in -DayLen .. MaxInstant + 2 * DayLen, NEW u, First(w, u)
  PROVE  FirstAt(w) = u
<1> DEFINE Span == -2 * DayLen .. MaxInstant + 3 * DayLen
           Is(x) == Local(x) >= w /\ \A v \in -2 * DayLen .. x - 1 : Local(v) < w
<1>1. DayLen \in Nat \ {0} /\ MaxInstant \in Nat
  BY ZoneType
<1>2. u \in Span /\ Is(u)
  BY <1>1 DEF First
<1>3. ASSUME NEW x \in Span, Is(x) PROVE x = u
  <2>1. x \in Int /\ u \in Int /\ Local(x) \in Int /\ Local(u) \in Int /\ w \in Int
    BY <1>1, <1>2, ZoneType
  <2>2. ~ (x < u)
    BY <1>3, <2>1 DEF First
  <2>3. u < x => u \in -2 * DayLen .. x - 1
    BY <1>1, <1>2, <2>1
  <2>4. ~ (u < x)
    BY <1>2, <1>3, <2>1, <2>3
  <2> QED BY <2>1, <2>2, <2>4
<1>4. FirstAt(w) = CHOOSE x \in Span : Is(x)
  BY DEF FirstAt
<1> HIDE DEF Span, Is
<1> QED BY <1>2, <1>3, <1>4

(* The engine's conversion is the one the property speaks of. *)
LEMMA WallIsFirst ==
  ASSUME Ready, NEW w \in -DayLen .. MaxInstant + 2 * DayLen
  PROVE  WallToUtc(w) = FirstAt(w) /\ First(w, FirstAt(w))
<1>1. w \in Int
  BY ZoneType
<1>2. First(w, WallToUtc(w))
  BY <1>1, WallFirst
<1> QED BY <1>2, FirstIs

-----------------------------------------------------------------------------
(* Busy intervals in order, and merged. *)

Stretch == [from : Nat, to : Nat]

(* One of finitely many intervals starts last: a smallest set where none does *)
(* would be one still after it lost an interval.                           *)
LEMMA OneIsLast ==
  ASSUME NEW S, S \subseteq Stretch, S # {}, IsFiniteSet(S)
  PROVE  \E x \in S : \A y \in S : y.from <= x.from
<1> DEFINE Last(U) == \E x \in U : \A y \in U : y.from <= x.from
           Bad == {U \in SUBSET S : U # {} /\ ~ Last(U)}
           Sizes == {Cardinality(U) : U \in Bad}
<1>1. \A U \in SUBSET S : IsFiniteSet(U) /\ Cardinality(U) \in Nat
  BY FS_Subset, FS_CardinalityType
<1>2. SUFFICES ASSUME Bad # {} PROVE FALSE
  OBVIOUS
<1>3. Sizes \subseteq Nat /\ Sizes # {}
  BY <1>1, <1>2
<1>4. PICK n \in Sizes : \A m \in Sizes : n <= m
  BY <1>3, NatMin
<1>5. PICK U \in Bad : n = Cardinality(U)
  BY <1>4
<1>6. PICK u \in U : TRUE
  BY <1>5
<1> DEFINE V == U \ {u}
<1>7. IsFiniteSet(V) /\ Cardinality(V) = n - 1 /\ n \in Nat /\ V \in SUBSET S
  BY <1>1, <1>3, <1>5, <1>6, FS_RemoveElement
<1>8. V \notin Bad
  <2>1. V \in Bad => n - 1 \in Sizes
    BY <1>7
  <2> HIDE DEF V, Bad, Sizes
  <2> QED BY <2>1, <1>4, <1>7
<1>9. \A y \in U : y.from \in Nat
  BY <1>5 DEF Stretch
<1>10. Last(U)
  <2>1. CASE V = {}
    <3>1. \A y \in U : y = u
      BY <2>1
    <3> QED
      BY <3>1, <1>6, <1>9
  <2>2. CASE Last(V)
    <3>1. PICK x \in V : \A y \in V : y.from <= x.from
      BY <2>2
    <3>2. x \in U /\ \A y \in U : y = u \/ y \in V
      BY <1>6, <3>1
    <3>3. CASE u.from <= x.from
      <4>1. \A y \in U : y.from <= x.from
        BY <3>1, <3>2, <3>3
      <4> QED BY <4>1, <3>2
    <3>4. CASE x.from < u.from
      <4>1. \A y \in U : y.from <= u.from
        BY <1>6, <1>9, <3>1, <3>2, <3>4
      <4> QED BY <4>1, <1>6
    <3> QED BY <1>6, <1>9, <3>2, <3>3, <3>4
  <2> QED BY <1>7, <1>8, <2>1, <2>2
<1> QED BY <1>5, <1>10

InOrder(q, S) ==
    /\ q \in [1 .. Cardinality(S) -> S]
    /\ \A i \in S : \E k \in DOMAIN q : q[k] = i
    /\ \A j, k \in DOMAIN q : j < k => q[j].from <= q[k].from

(* So they have an order: the last after an order of the others. *)
LEMMA SortedIs ==
  ASSUME NEW S, S \subseteq Stretch, IsFiniteSet(S)
  PROVE  InOrder(Sorted(S), S) /\ Cardinality(S) \in Nat
<1> DEFINE Bad == {U \in SUBSET S : \A q : ~ InOrder(q, U)}
           Sizes == {Cardinality(U) : U \in Bad}
<1>1. \A U \in SUBSET S : IsFiniteSet(U) /\ Cardinality(U) \in Nat
  BY FS_Subset, FS_CardinalityType
<1>2. ASSUME Bad # {} PROVE FALSE
  <2>1. Sizes \subseteq Nat /\ Sizes # {}
    BY <1>1, <1>2
  <2>2. PICK n \in Sizes : \A m \in Sizes : n <= m
    BY <2>1, NatMin
  <2>3. PICK U \in Bad : n = Cardinality(U)
    BY <2>2
  <2>4. n \in Nat /\ IsFiniteSet(U) /\ U \subseteq Stretch
    BY <1>1, <2>1, <2>2, <2>3
  <2>5. U # {}
    <3>1. U = {} => n = 0
      BY <2>3, FS_EmptySet
    <3>2. U = {} => InOrder([k \in 1 .. 0 |-> k], U)
      BY <2>3, <3>1 DEF InOrder
    <3> QED BY <2>3, <3>2
  <2>6. PICK x \in U : \A y \in U : y.from <= x.from
    BY <2>4, <2>5, OneIsLast
  <2> DEFINE V == U \ {x}
  <2>7. V \in SUBSET S /\ Cardinality(V) = n - 1 /\ IsFiniteSet(V)
    BY <2>3, <2>4, <2>6, FS_RemoveElement
  <2>8. n - 1 \in Nat
    BY <1>1, <2>7
  <2>9. V \notin Bad
    <3>1. V \in Bad => n - 1 \in Sizes
      BY <2>7
    <3> HIDE DEF V, Bad, Sizes
    <3> QED BY <2>2, <2>4, <3>1
  <2>10. PICK q : InOrder(q, V)
    BY <2>7, <2>9
  <2>11. /\ q \in [1 .. n - 1 -> V]
         /\ \A i \in V : \E k \in 1 .. n - 1 : q[k] = i
         /\ \A j, k \in 1 .. n - 1 : j < k => q[j].from <= q[k].from
    BY <2>7, <2>10 DEF InOrder
  <2> DEFINE p == [k \in 1 .. n |-> IF k = n THEN x ELSE q[k]]
  <2>12. \A k \in 1 .. n : k = n \/ k \in 1 .. n - 1
    BY <2>4
  <2>13. \A k \in 1 .. n - 1 : k \in 1 .. n /\ k # n /\ p[k] = q[k] /\ q[k] \in U
    BY <2>4, <2>11
  <2>14. n \in 1 .. n /\ p[n] = x
    BY <2>4, <2>8
  <2>15. p \in [1 .. n -> U]
    BY <2>6, <2>11, <2>12
  <2>16. \A i \in U : \E k \in 1 .. n : p[k] = i
    <3>1. \A i \in V : \E k \in 1 .. n : p[k] = i
      BY <2>11, <2>13
    <3> QED BY <2>14, <3>1
  <2>17. \A j, k \in 1 .. n : j < k => p[j].from <= p[k].from
    <3> SUFFICES ASSUME NEW j \in 1 .. n, NEW k \in 1 .. n, j < k
                 PROVE  p[j].from <= p[k].from
      OBVIOUS
    <3>1. j \in 1 .. n - 1
      BY <2>4
    <3>2. CASE k = n
      BY <2>6, <2>13, <2>14, <3>1, <3>2
    <3>3. CASE k \in 1 .. n - 1
      BY <2>11, <2>13, <3>1, <3>3
    <3> QED BY <2>12, <3>2, <3>3
  <2> HIDE DEF p
  <2>18. InOrder(p, U)
    BY <2>3, <2>15, <2>16, <2>17 DEF InOrder
  <2> QED BY <2>3, <2>18
<1>3. \E q : InOrder(q, S)
  BY <1>2
<1>4. Sorted(S) = CHOOSE q \in [1 .. Cardinality(S) -> S] :
        /\ \A i \in S : \E k \in DOMAIN q : q[k] = i
        /\ \A j, k \in DOMAIN q : j < k => q[j].from <= q[k].from
  BY DEF Sorted
<1>5. InOrder(Sorted(S), S)
  BY <1>3, <1>4 DEF InOrder
<1> QED BY <1>1, <1>5

(* Some interval of the first k ends after a and starts before b. *)
Meets(q, k, a, b) == \E i \in 1 .. k : q[i].to > a /\ q[i].from < b

(* What merging keeps, the first k of q merged into out. *)
Merged(out, q, k) ==
    /\ out \in Seq(Stretch)
    /\ k = 0 => out = <<>>
    /\ k > 0 => out # <<>> /\ out[Len(out)].from <= q[k].from
    /\ \A i, j \in 1 .. Len(out) : i <= j => out[i].from <= out[j].from
    /\ \A a, b \in Int : a < b => (Meets(out, Len(out), a, b) <=> Meets(q, k, a, b))

LEMMA MergeKeeps ==
  ASSUME NEW n \in Nat, NEW q \in [1 .. n -> Stretch], NEW k \in 1 .. n,
         \A i, j \in 1 .. n : i < j => q[i].from <= q[j].from,
         NEW out, Merged(out, q, k - 1)
  PROVE  Merged(MergeNext(out, q[k]), q, k)
<1> DEFINE cur == q[k]
           l == Len(out)
           new == MergeNext(out, cur)
<1>1. /\ out \in Seq(Stretch) /\ l \in Nat /\ cur \in Stretch
      /\ cur.from \in Nat /\ cur.to \in Nat /\ k - 1 \in 0 .. n
  <2>1. out \in Seq(Stretch) /\ l \in Nat
    BY DEF Merged
  <2>2. cur \in Stretch /\ k - 1 \in 0 .. n
    OBVIOUS
  <2> QED BY <2>1, <2>2 DEF Stretch
<1>2. \A i \in 1 .. l : out[i] \in Stretch /\ out[i].from \in Nat /\ out[i].to \in Nat
  <2>1. \A i \in 1 .. l : out[i] \in Stretch
    BY <1>1
  <2> QED BY <2>1 DEF Stretch
<1>3. \A i, j \in 1 .. l : i <= j => out[i].from <= out[j].from
  BY DEF Merged
<1>4. l > 0 => out[l].from <= cur.from
  <2>1. k = 1 => l = 0
    BY <1>1 DEF Merged
  <2>2. k > 1 => out[l].from <= q[k - 1].from /\ q[k - 1].from <= cur.from
    BY <1>1 DEF Merged
  <2>3. k > 1 => q[k - 1].from \in Nat
    BY <1>1 DEF Stretch
  <2>4. l > 0 => out[l].from \in Nat
    BY <1>1, <1>2
  <2> HIDE DEF l, cur
  <2> QED BY <1>1, <2>1, <2>2, <2>3, <2>4
<1>5. \A a, b \in Int : a < b => (Meets(out, l, a, b) <=> Meets(q, k - 1, a, b))
  BY DEF Merged
<1>6. \A a, b \in Int :
        Meets(q, k, a, b) <=> Meets(q, k - 1, a, b) \/ (cur.to > a /\ cur.from < b)
  <2>1. \A i \in 1 .. k : i \in 1 .. k - 1 \/ i = k
    OBVIOUS
  <2>2. k \in 1 .. k /\ \A i \in 1 .. k - 1 : i \in 1 .. k
    OBVIOUS
  <2> QED BY <2>1, <2>2 DEF Meets
<1>7. ASSUME out # <<>>, cur.from <= out[l].to
      PROVE  Merged(new, q, k)
  <2> DEFINE last == [out[l] EXCEPT !.to = Greater(out[l].to, cur.to)]
  <2>1. l > 0 /\ l \in 1 .. l
    BY <1>1, <1>7
  <2>2. /\ last \in Stretch /\ last.from = out[l].from
        /\ last.to \in Nat /\ last.to = Greater(out[l].to, cur.to)
    BY <1>1, <1>2, <2>1 DEF Stretch, Greater
  <2>3. new = [out EXCEPT ![l] = last]
    BY <1>7 DEF MergeNext
  <2> HIDE DEF last, new
  <2>4. /\ new \in Seq(Stretch) /\ Len(new) = l
        /\ new[l] = last /\ \A i \in 1 .. l : i # l => new[i] = out[i]
    BY <1>1, <2>1, <2>2, <2>3
  <2>5. \A i \in 1 .. l : new[i].from = out[i].from
    BY <2>2, <2>4
  <2>6. ASSUME NEW a \in Int, NEW b \in Int, a < b
        PROVE  Meets(new, l, a, b) <=> Meets(q, k, a, b)
    <3>1. (last.to > a /\ last.from < b)
            <=> (out[l].to > a /\ out[l].from < b) \/ (cur.to > a /\ cur.from < b)
      <4> DEFINE f == out[l].from
                 t == out[l].to
                 g == cur.from
                 u == cur.to
      <4>1. /\ f \in Int /\ t \in Int /\ g \in Int /\ u \in Int
            /\ f <= g /\ g <= t
        BY <1>1, <1>2, <1>4, <1>7, <2>1
      <4>2. last.from = f /\ last.to = Greater(t, u)
        BY <2>2
      <4> HIDE DEF f, t, g, u
      <4>3. (Greater(t, u) > a /\ f < b) <=> (t > a /\ f < b) \/ (u > a /\ g < b)
        <5>1. CASE t < u
          <6>1. Greater(t, u) = u
            BY <5>1 DEF Greater
          <6> QED BY <2>6, <4>1, <5>1, <6>1
        <5>2. CASE ~ (t < u)
          <6>1. Greater(t, u) = t
            BY <5>2 DEF Greater
          <6> QED BY <2>6, <4>1, <5>2, <6>1
        <5> QED BY <5>1, <5>2
      <4> QED BY <4>2, <4>3 DEF f, t, g, u
    <3>2. Meets(new, l, a, b) <=> Meets(out, l, a, b) \/ (last.to > a /\ last.from < b)
      <4>1. Meets(new, l, a, b) => Meets(out, l, a, b) \/ (last.to > a /\ last.from < b)
        BY <2>4 DEF Meets
      <4>2. (last.to > a /\ last.from < b) => Meets(new, l, a, b)
        BY <2>1, <2>4 DEF Meets
      <4>3. Meets(out, l, a, b) => Meets(new, l, a, b)
        <5> SUFFICES ASSUME NEW i \in 1 .. l, out[i].to > a, out[i].from < b
                     PROVE  Meets(new, l, a, b)
          BY DEF Meets
        <5>1. CASE i = l
          BY <3>1, <4>2, <5>1
        <5>2. CASE i # l
          BY <2>4, <5>2 DEF Meets
        <5> QED BY <5>1, <5>2
      <4> QED BY <4>1, <4>2, <4>3
    <3>3. (out[l].to > a /\ out[l].from < b) => Meets(out, l, a, b)
      BY <2>1 DEF Meets
    <3> QED BY <1>5, <1>6, <2>6, <3>1, <3>2, <3>3
  <2> HIDE DEF cur, l
  <2>7. new # <<>> /\ new[Len(new)].from <= cur.from
    BY <1>4, <2>1, <2>4, <2>5
  <2>8. \A i, j \in 1 .. l : i <= j => new[i].from <= new[j].from
    BY <1>3, <2>5
  <2> QED BY <2>4, <2>6, <2>7, <2>8 DEF Merged, cur
<1>8. ASSUME ~ (out # <<>> /\ cur.from <= out[l].to)
      PROVE  Merged(new, q, k)
  <2>1. new = Append(out, cur)
    BY <1>8 DEF MergeNext
  <2> HIDE DEF new, cur
  <2>2. /\ new \in Seq(Stretch) /\ Len(new) = l + 1
        /\ new[l + 1] = cur /\ \A i \in 1 .. l : new[i] = out[i]
    BY <1>1, <2>1
  <2>3. \A i \in 1 .. l + 1 : i \in 1 .. l \/ i = l + 1
    BY <1>1
  <2>4. l + 1 \in 1 .. l + 1 /\ \A i \in 1 .. l : i \in 1 .. l + 1
    BY <1>1
  <2>5. ASSUME NEW a \in Int, NEW b \in Int
        PROVE  Meets(new, l + 1, a, b) <=> Meets(out, l, a, b) \/ (cur.to > a /\ cur.from < b)
    BY <2>2, <2>3, <2>4 DEF Meets
  <2>6. \A i \in 1 .. l : out[i].from <= cur.from
    <3> SUFFICES ASSUME NEW i \in 1 .. l PROVE out[i].from <= cur.from
      OBVIOUS
    <3>1. l > 0 /\ l \in 1 .. l /\ i <= l
      BY <1>1
    <3>2. out[i].from <= out[l].from /\ out[l].from <= cur.from
      BY <1>3, <1>4, <3>1
    <3> QED BY <1>1, <1>2, <3>1, <3>2
  <2>7. \A i, j \in 1 .. l + 1 : i <= j => new[i].from <= new[j].from
    <3> SUFFICES ASSUME NEW i \in 1 .. l + 1, NEW j \in 1 .. l + 1, i <= j
                 PROVE  new[i].from <= new[j].from
      OBVIOUS
    <3>1. CASE j \in 1 .. l
      <4>1. i \in 1 .. l
        BY <1>1, <3>1
      <4> QED BY <1>3, <2>2, <3>1, <4>1
    <3>2. CASE i \in 1 .. l /\ j = l + 1
      BY <2>2, <2>6, <3>2
    <3>3. CASE i = l + 1 /\ j = l + 1
      BY <1>1, <2>2, <3>3
    <3> QED
      <4>1. i = l + 1 => j = l + 1
        BY <1>1
      <4> QED BY <2>3, <3>1, <3>2, <3>3, <4>1
  <2>8. new # <<>> /\ new[Len(new)].from <= cur.from
    BY <1>1, <2>2
  <2>9. \A a, b \in Int : a < b => (Meets(new, l + 1, a, b) <=> Meets(q, k, a, b))
    BY <1>5, <1>6, <2>5
  <2> HIDE DEF l
  <2> QED BY <2>2, <2>7, <2>8, <2>9 DEF Merged, cur
<1> QED BY <1>7, <1>8

(* Merging computes: there is a function that goes on from each prefix, since *)
(* a shortest prefix without one has one, and it keeps this at each.       *)
LEMMA MergedIs ==
  ASSUME NEW S, S \subseteq Stretch, IsFiniteSet(S)
  PROVE  Merged(MergeIntervals(S), Sorted(S), Cardinality(S))
<1> DEFINE q == Sorted(S)
           n == Cardinality(S)
           Goes(f, m) == f = [k \in 0 .. m |-> IF k = 0 THEN <<>> ELSE MergeNext(f[k - 1], q[k])]
<1>1. n \in Nat /\ q \in [1 .. n -> S] /\ InOrder(q, S)
  BY SortedIs DEF InOrder
<1>2. q \in [1 .. n -> Stretch] /\ \A i, j \in 1 .. n : i < j => q[i].from <= q[j].from
  BY <1>1 DEF InOrder
<1>3. MergeIntervals(S) = (CHOOSE f : Goes(f, n))[n]
  BY DEF MergeIntervals
<1> HIDE DEF q, n
<1>4. \E f : Goes(f, n)
  <2> DEFINE Bad == {m \in Nat : \A f : ~ Goes(f, m)}
  <2>1. SUFFICES ASSUME Bad # {} PROVE FALSE
    <3> HIDE DEF Goes
    <3> QED BY <1>1
  <2>2. PICK m \in Bad : \A x \in Bad : m <= x
    <3> HIDE DEF Goes
    <3> QED BY <2>1, NatMin
  <2>3. m # 0
    <3>1. Goes([k \in 0 .. 0 |-> <<>>], 0)
      OBVIOUS
    <3> QED BY <2>2, <3>1
  <2>4. m \in Nat /\ m - 1 \in Nat /\ m - 1 \notin Bad
    <3>1. m \in Nat /\ m - 1 \in Nat
      BY <2>2, <2>3
    <3> HIDE DEF Bad
    <3> QED BY <2>2, <3>1
  <2>5. PICK f : Goes(f, m - 1)
    BY <2>4
  <2> DEFINE g == [k \in 0 .. m |-> IF k = m THEN MergeNext(f[m - 1], q[m]) ELSE f[k]]
  <2>6. \A k \in 0 .. m - 1 : k \in 0 .. m /\ k # m /\ g[k] = f[k]
    BY <2>4
  <2>7. ASSUME NEW k \in 0 .. m
        PROVE  g[k] = IF k = 0 THEN <<>> ELSE MergeNext(g[k - 1], q[k])
    <3>1. CASE k = m
      <4>1. g[k] = MergeNext(f[m - 1], q[m])
        BY <3>1
      <4>2. m - 1 \in 0 .. m - 1 /\ k # 0
        BY <2>3, <2>4, <3>1
      <4>3. g[m - 1] = f[m - 1]
        BY <2>6, <4>2
      <4> HIDE DEF g
      <4> QED BY <3>1, <4>1, <4>2, <4>3
    <3>2. CASE k # m
      <4>1. k \in 0 .. m - 1 /\ (k = 0 \/ k - 1 \in 0 .. m - 1)
        BY <2>4, <3>2
      <4>2. f[k] = IF k = 0 THEN <<>> ELSE MergeNext(f[k - 1], q[k])
        BY <2>5, <4>1
      <4>3. g[k] = f[k] /\ (k = 0 \/ g[k - 1] = f[k - 1])
        BY <2>6, <4>1
      <4> HIDE DEF g
      <4> QED BY <4>2, <4>3
    <3> QED BY <3>1, <3>2
  <2>8. DOMAIN g = 0 .. m /\ g = [k \in 0 .. m |-> g[k]]
    OBVIOUS
  <2> HIDE DEF g
  <2>9. Goes(g, m)
    BY <2>7, <2>8
  <2> QED BY <2>2, <2>9
<1> DEFINE f == CHOOSE f : Goes(f, n)
<1>5. Goes(f, n)
  BY <1>4
<1> HIDE DEF f
<1>6. ASSUME NEW k \in 0 .. n
      PROVE  f[k] = IF k = 0 THEN <<>> ELSE MergeNext(f[k - 1], q[k])
  BY <1>5
<1> HIDE DEF Goes
<1>7. \A k \in 0 .. n : Merged(f[k], q, k)
  <2> DEFINE Bad == {m \in 0 .. n : ~ Merged(f[m], q, m)}
  <2>1. SUFFICES ASSUME Bad # {} PROVE FALSE
    OBVIOUS
  <2>2. PICK m \in Bad : \A x \in Bad : m <= x
    <3>1. Bad \subseteq Nat
      BY <1>1
    <3> HIDE DEF Bad
    <3> QED BY <2>1, <3>1, NatMin
  <2>3. Merged(<<>>, q, 0)
    BY DEF Merged, Meets
  <2>4. m # 0
    <3>1. 0 \in 0 .. n
      BY <1>1
    <3>2. f[0] = <<>>
      BY <1>6, <3>1
    <3> QED BY <2>2, <2>3, <3>2
  <2>5. m \in 1 .. n /\ m - 1 \in 0 .. n /\ m - 1 \notin Bad
    <3>1. m \in 1 .. n /\ m - 1 \in 0 .. n
      BY <1>1, <2>2, <2>4
    <3> HIDE DEF Bad
    <3> QED BY <1>1, <2>2, <3>1
  <2>6. Merged(f[m - 1], q, m - 1)
    BY <2>5
  <2>7. f[m] = MergeNext(f[m - 1], q[m])
    BY <1>6, <2>4, <2>5
  <2>8. Merged(f[m], q, m)
    BY <1>1, <1>2, <2>5, <2>6, <2>7, MergeKeeps
  <2> QED BY <2>2, <2>8
<1>8. n \in 0 .. n
  BY <1>1
<1> QED BY <1>3, <1>7, <1>8 DEF f, n, q

(* A slot overlaps what is merged if it overlaps what was to merge. *)
LEMMA OverlapsIs ==
  ASSUME NEW S, S \subseteq Stretch, IsFiniteSet(S), NEW a \in Int, NEW b \in Int, a < b
  PROVE  OverlapsBusy(a, b, MergeIntervals(S)) <=> \E i \in S : i.to > a /\ i.from < b
<1> DEFINE q == Sorted(S)
           n == Cardinality(S)
           out == MergeIntervals(S)
           l == Len(out)
<1>1. n \in Nat /\ q \in [1 .. n -> S] /\ \A i \in S : \E k \in 1 .. n : q[k] = i
  BY SortedIs DEF InOrder
<1>2. Merged(out, q, n)
  BY MergedIs
<1> HIDE DEF out, q, n
<1>3. Meets(q, n, a, b) <=> \E i \in S : i.to > a /\ i.from < b
  BY <1>1 DEF Meets
<1>4. Meets(out, l, a, b) <=> Meets(q, n, a, b)
  BY <1>2 DEF Merged
<1>5. out \in Seq(Stretch) /\ l \in Nat /\ DOMAIN out = 1 .. l
  BY <1>2 DEF Merged
<1>6. \A i \in 1 .. l : out[i].from \in Nat /\ out[i].to \in Nat
  <2>1. \A i \in 1 .. l : out[i] \in Stretch
    BY <1>5
  <2> QED BY <2>1 DEF Stretch
<1>7. \A i, j \in 1 .. l : i <= j => out[i].from <= out[j].from
  BY <1>2 DEF Merged
<1> HIDE DEF l
<1>8. OverlapsBusy(a, b, out) => Meets(out, l, a, b)
  BY <1>5 DEF OverlapsBusy, Meets
<1>9. ASSUME Meets(out, l, a, b) PROVE OverlapsBusy(a, b, out)
  <2>1. PICK i \in 1 .. l : out[i].to > a /\ out[i].from < b
    BY <1>9 DEF Meets
  <2> DEFINE Late == {j \in 1 .. l : out[j].to > a}
  <2>2. Late \subseteq Nat /\ i \in Late
    BY <1>5, <2>1
  <2>3. PICK j \in Late : \A k \in Late : j <= k
    BY <2>2, NatMin
  <2>4. j <= i /\ j \in 1 .. l
    BY <2>2, <2>3
  <2>5. out[j].from <= out[i].from
    BY <1>7, <2>4
  <2>6. out[j].to > a /\ out[j].from < b
    BY <1>6, <2>1, <2>3, <2>4, <2>5
  <2>7. \A k \in 1 .. j - 1 : out[k].to <= a
    <3> SUFFICES ASSUME NEW k \in 1 .. j - 1 PROVE out[k].to <= a
      OBVIOUS
    <3>1. k \in 1 .. l /\ k < j
      BY <1>5, <2>4
    <3>2. k \notin Late
      <4>1. k \in Nat /\ j \in Nat
        BY <2>4, <3>1
      <4> HIDE DEF Late
      <4> QED BY <2>3, <3>1, <4>1
    <3> QED BY <1>6, <3>1, <3>2
  <2> QED BY <1>5, <2>4, <2>6, <2>7 DEF OverlapsBusy
<1> QED BY <1>3, <1>4, <1>8, <1>9 DEF out

-----------------------------------------------------------------------------
(* The dates that are read. *)

Dates == -1 .. (MaxInstant \div DayLen) + 1

LEMMA EventType ==
  ASSUME Ready
  PROVE  /\ event.len \in Nat \ {0} /\ event.step \in Nat \ {0}
         /\ event.before \in Nat /\ event.after \in Nat /\ event.notice \in Nat
         /\ event.fixed \subseteq Hosts /\ event.assigned \subseteq Hosts /\ event.assigned # {}
         /\ event.days = 99 \/ (event.days \in Nat /\ now + event.days * DayLen <= MaxInstant)
         /\ now \in 0 .. MaxInstant
  BY DEF Ready, SlotsBounds

(* A wall clock on those dates is one that FirstAt looks for. *)
LEMMA WallInSpan ==
  ASSUME Ready, NEW date \in Dates, NEW r \in 0 .. DayLen
  PROVE  date * DayLen + r \in -DayLen .. MaxInstant + 2 * DayLen
<1> DEFINE M == MaxInstant \div DayLen
           d == date * DayLen
<1>1. DayLen \in Nat \ {0} /\ MaxInstant \in Nat
  BY ZoneType
<1>2. M \in Int /\ M * DayLen <= MaxInstant
  BY <1>1, DivIs
<1>3. date \in Int /\ -1 <= date /\ date <= M + 1
  BY <1>2 DEF Dates
<1> HIDE DEF M
<1>4. (-1) * DayLen = -DayLen /\ (M + 1) * DayLen = M * DayLen + DayLen
  BY <1>1, <1>2
<1>5. -DayLen <= d
  <2>1. CASE date = -1
    BY <1>1, <1>4, <2>1
  <2>2. CASE -1 < date
    <3>1. (-1) * DayLen + DayLen <= d
      BY <1>1, <1>3, <2>2, TimesMono
    <3>2. d \in Int
      BY <1>1, <1>3
    <3> QED BY <1>1, <1>4, <3>1, <3>2
  <2> QED BY <1>3, <2>1, <2>2
<1>6. d <= M * DayLen + DayLen
  <2>1. CASE date = M + 1
    BY <1>1, <1>2, <1>4, <2>1
  <2>2. CASE date < M + 1
    <3>1. d + DayLen <= (M + 1) * DayLen
      BY <1>1, <1>2, <1>3, <2>2, TimesMono
    <3>2. d \in Int /\ M * DayLen \in Int
      BY <1>1, <1>2, <1>3
    <3> QED BY <1>1, <1>4, <3>1, <3>2
  <2> QED BY <1>2, <1>3, <2>1, <2>2
<1>7. d \in Int /\ M * DayLen \in Int
  BY <1>1, <1>2, <1>3
<1> HIDE DEF d
<1>8. d + r \in -DayLen .. MaxInstant + 2 * DayLen
  BY <1>1, <1>2, <1>5, <1>6, <1>7
<1> QED BY <1>8 DEF d

LEMMA DateIs ==
  ASSUME Ready, NEW u \in 0 .. MaxInstant
  PROVE  /\ LocalDate(u) \in Dates
         /\ LocalDate(u) * DayLen \in Int
         /\ LocalDate(u) * DayLen <= Local(u) /\ Local(u) < LocalDate(u) * DayLen + DayLen
<1> DEFINE M == MaxInstant \div DayLen
<1>1. DayLen \in Nat \ {0} /\ MaxInstant \in Nat /\ u \in Int /\ Local(u) \in Int
  BY ZoneType
<1>2. -DayLen < Local(u) /\ Local(u) < MaxInstant + DayLen
  BY <1>1, ZoneType DEF Local
<1>3. /\ LocalDate(u) \in Int /\ LocalDate(u) * DayLen <= Local(u)
      /\ Local(u) < LocalDate(u) * DayLen + DayLen
  BY <1>1, DivIs DEF LocalDate
<1>4. M \in Int /\ MaxInstant < M * DayLen + DayLen /\ M * DayLen \in Int
  BY <1>1, DivIs
<1> HIDE DEF M
<1>5. (-1) * DayLen = -DayLen /\ (M + 1) * DayLen = M * DayLen + DayLen
  BY <1>1, <1>4
<1>6. -1 <= LocalDate(u)
  BY <1>1, <1>2, <1>5, DivWithin DEF LocalDate
<1>7. LocalDate(u) <= M + 1
  <2>1. Local(u) < (M + 1) * DayLen + DayLen
    BY <1>1, <1>2, <1>4, <1>5
  <2>2. Local(u) \in Int /\ M + 1 \in Int
    BY <1>1, <1>4
  <2>3. Local(u) \div DayLen <= M + 1
    BY <1>1, <2>1, <2>2, DivWithin
  <2> QED BY <2>3 DEF LocalDate
<1> QED BY <1>1, <1>3, <1>6, <1>7 DEF Dates, M

(* A slot of the window is in hours of a date that is read: its block ends   *)
(* after the window starts, and starts before the window ends.             *)
LEMMA DatesRead ==
  ASSUME Ready, NEW from \in 0 .. MaxInstant, NEW to \in 0 .. MaxInstant,
         NEW date \in Dates, NEW r1 \in 0 .. DayLen, NEW r2 \in 0 .. DayLen,
         NEW s \in Cuts(FirstAt(date * DayLen + r1), FirstAt(date * DayLen + r2)),
         from <= s, s < to
  PROVE  date \in LocalDate(from) .. LocalDate(to)
<1> DEFINE d == date * DayLen
           u1 == FirstAt(d + r1)
           u2 == FirstAt(d + r2)
<1>1. /\ DayLen \in Nat \ {0} /\ MaxInstant \in Nat /\ zone.at \in Int
      /\ zone.before \in Int /\ zone.after \in Int
  BY ZoneType
<1>2. date \in Int /\ d \in Int
  BY <1>1, DivIs DEF Dates
<1>3. First(d + r1, u1) /\ First(d + r2, u2)
  <2>1. d + r1 \in -DayLen .. MaxInstant + 2 * DayLen /\ d + r2 \in -DayLen .. MaxInstant + 2 * DayLen
    BY WallInSpan
  <2> HIDE DEF d
  <2> QED BY <2>1, WallIsFirst
<1>4. u1 \in Int /\ u2 \in Int
  BY <1>3 DEF First
<1>5. s \in Int /\ u1 <= s /\ s + event.len <= u2 /\ event.len \in Nat \ {0}
  BY <1>4, EventType DEF Cuts
<1> HIDE DEF u1, u2, d
<1>6. Local(from) < d + DayLen
  <2>1. Local(from) < d + r2 /\ Local(from) \in Int
    BY <1>1, <1>3, <1>4, <1>5, ZoneType DEF First
  <2> QED BY <1>1, <1>2, <2>1
<1>7. LocalDate(from) <= date
  <2>1. Local(from) \in Int /\ Local(from) < date * DayLen + DayLen
    BY <1>6, ZoneType DEF d
  <2>2. Local(from) \div DayLen <= date
    BY <1>1, <1>2, <2>1, DivWithin
  <2> QED BY <2>2 DEF LocalDate
<1>8. Local(u1) >= d /\ Local(u1) \in Int
  <2>1. Local(u1) >= d + r1 /\ Local(u1) \in Int
    BY <1>3, <1>4, ZoneType DEF First
  <2> QED BY <1>1, <1>2, <2>1
<1>9. u1 < to /\ to \in Int
  BY <1>4, <1>5
<1>10. date <= LocalDate(to)
  <2>1. CASE ~ (u1 < zone.at /\ zone.at <= to /\ zone.after < zone.before)
    <3>1. Local(to) >= d /\ Local(to) \in Int
      BY <1>1, <1>2, <1>4, <1>8, <1>9, <2>1 DEF Local, Offset
    <3> QED BY <1>1, <1>2, <3>1, DivWithin DEF LocalDate, d
  <2>2. CASE u1 < zone.at /\ zone.at <= to /\ zone.after < zone.before
    <3> DEFINE x == zone.at - 1 + zone.before
               y == zone.at + zone.after
    <3>1. x \in Int /\ y \in Int /\ d <= x /\ y <= Local(to) /\ Local(to) \in Int
      BY <1>1, <1>2, <1>4, <1>8, <1>9, <2>2 DEF Local, Offset
    <3>2. x \div DayLen = y \div DayLen
      BY <2>2 DEF Ready, SlotsBounds
    <3>3. date <= x \div DayLen
      BY <1>1, <1>2, <3>1, DivWithin DEF d
    <3>4. y \div DayLen <= Local(to) \div DayLen
      <4> DEFINE e == y \div DayLen
      <4>1. e \in Int /\ e * DayLen <= y
        BY <1>1, <3>1, DivIs
      <4> HIDE DEF e, y
      <4>2. e * DayLen <= Local(to)
        <5>1. e * DayLen \in Int
          BY <1>1, <4>1
        <5> QED BY <3>1, <4>1, <5>1
      <4>3. e <= Local(to) \div DayLen
        BY <1>1, <3>1, <4>1, <4>2, DivWithin
      <4> QED BY <4>3 DEF e
    <3>5. x \div DayLen \in Int /\ Local(to) \div DayLen \in Int
      BY <1>1, <3>1, DivIs
    <3> HIDE DEF x, y
    <3> QED BY <1>2, <3>2, <3>3, <3>4, <3>5 DEF LocalDate
  <2> QED BY <2>1, <2>2
<1>11. LocalDate(from) \in Int /\ LocalDate(to) \in Int
  <2>1. Local(from) \in Int /\ Local(to) \in Int
    BY ZoneType
  <2> QED BY <1>1, <2>1, DivIs DEF LocalDate
<1> QED BY <1>2, <1>7, <1>10, <1>11

-----------------------------------------------------------------------------
(* What the engine finds. *)

LEMMA WindowEnd ==
  ASSUME Ready, event.days # NoLimit
  PROVE  /\ BookingWindowEnd = FirstAt((LocalDate(now) + event.days + 1) * DayLen)
         /\ BookingWindowEnd \in Int
<1> DEFINE c == LocalDate(now)
           n == event.days
<1>1. /\ DayLen \in Nat \ {0} /\ MaxInstant \in Nat /\ now \in 0 .. MaxInstant
      /\ n \in Nat /\ now + n * DayLen <= MaxInstant
  BY ZoneType, EventType DEF NoLimit
<1>2. c \in Int /\ -1 <= c /\ c * DayLen \in Int /\ c * DayLen <= Local(now)
  <2>1. c \in Dates /\ c * DayLen \in Int /\ c * DayLen <= Local(now)
    BY <1>1, DateIs
  <2>2. MaxInstant \div DayLen \in Int
    BY <1>1, DivIs
  <2> HIDE DEF c
  <2> QED BY <2>1, <2>2 DEF Dates
<1>3. Local(now) < now + DayLen /\ Local(now) \in Int
  BY <1>1, ZoneType DEF Local
<1>4. BookingWindowEnd = WallToUtc((c + n + 1) * DayLen)
  BY DEF BookingWindowEnd
<1> HIDE DEF c, n
<1>5. (c + n + 1) * DayLen = c * DayLen + n * DayLen + DayLen /\ n * DayLen \in Int
  BY <1>1, <1>2
<1>6. c + n + 1 \in Nat
  BY <1>1, <1>2
<1>7. (c + n + 1) * DayLen >= 0
  BY <1>1, <1>6
<1> DEFINE w == (c + n + 1) * DayLen
<1>8. w \in -DayLen .. MaxInstant + 2 * DayLen
  BY <1>1, <1>2, <1>3, <1>5, <1>7
<1> HIDE DEF w
<1>9. WallToUtc(w) = FirstAt(w) /\ FirstAt(w) \in Int
  BY <1>8, WallIsFirst DEF First
<1> QED BY <1>4, <1>9 DEF w, c, n

LEMMA RuleType ==
  ASSUME Ready, NEW h \in Hosts, NEW date \in Dates, NEW r \in RulesOn(h, date)
  PROVE  r[1] \in 0 .. DayLen /\ r[2] \in 0 .. DayLen
<1>1. LET rules == IF date \in DOMAIN Hours[h].override THEN Hours[h].override[date]
                   ELSE Hours[h].week
      IN \A x \in rules : {x[1], x[2]} \subseteq 0 .. DayLen
  BY DEF Ready, SlotsBounds, Dates
<1> QED BY <1>1 DEF RulesOn

(* Within its hours, from notice to the end of the booking window. *)
InReach(h, s) ==
    /\ InHours(h, s) /\ s >= now + event.notice
    /\ event.days # NoLimit => s < FirstAt((LocalDate(now) + event.days + 1) * DayLen)

LEMMA SlotsOf ==
  ASSUME Ready, NEW h \in Hosts, NEW S, S \subseteq Stretch, IsFiniteSet(S),
         NEW from \in 0 .. MaxInstant, NEW to \in 0 .. MaxInstant
  PROVE  ComputeSlots(h, from, to, S) = {s \in from .. to - 1 : InReach(h, s) /\ ClearOf(S, s)}
<1> DEFINE Block(date, r) == Cuts(WallToUtc(date * DayLen + r[1]), WallToUtc(date * DayLen + r[2]))
           blocks == UNION {{<<date, r>> : r \in RulesOn(h, date)} :
                               date \in LocalDate(from) .. LocalDate(to)}
           cuts == UNION {Cuts(WallToUtc(b[1] * DayLen + b[2][1]),
                               WallToUtc(b[1] * DayLen + b[2][2])) : b \in blocks}
           merged == MergeIntervals(S)
           On(s) == /\ s >= Greater(from, now + event.notice)
                    /\ s < Lesser(to, BookingWindowEnd)
                    /\ ~ OverlapsBusy(s - event.before, s + event.len + event.after, merged)
<1>1. ComputeSlots(h, from, to, S) = {s \in cuts : On(s)}
  BY DEF ComputeSlots
<1>2. /\ DayLen \in Nat \ {0} /\ MaxInstant \in Nat /\ now \in Nat
      /\ event.len \in Nat \ {0} /\ event.notice \in Nat
      /\ event.before \in Nat /\ event.after \in Nat
  BY ZoneType, EventType
<1>3. LocalDate(from) .. LocalDate(to) \subseteq Dates
  <2>1. LocalDate(from) \in Dates /\ LocalDate(to) \in Dates
    BY DateIs
  <2>2. MaxInstant \div DayLen \in Int
    BY <1>2, DivIs
  <2> QED BY <2>1, <2>2 DEF Dates
<1>4. ASSUME NEW date \in Dates, NEW r \in RulesOn(h, date)
      PROVE  /\ r[1] \in 0 .. DayLen /\ r[2] \in 0 .. DayLen
             /\ Block(date, r) = Cuts(FirstAt(date * DayLen + r[1]), FirstAt(date * DayLen + r[2]))
             /\ Block(date, r) \subseteq Int
  <2>1. r[1] \in 0 .. DayLen /\ r[2] \in 0 .. DayLen
    BY RuleType
  <2> DEFINE w1 == date * DayLen + r[1]
             w2 == date * DayLen + r[2]
  <2>2. w1 \in -DayLen .. MaxInstant + 2 * DayLen /\ w2 \in -DayLen .. MaxInstant + 2 * DayLen
    BY <2>1, WallInSpan
  <2> HIDE DEF w1, w2
  <2>3. WallToUtc(w1) = FirstAt(w1) /\ WallToUtc(w2) = FirstAt(w2)
    BY <2>2, WallIsFirst
  <2>4. FirstAt(w1) \in Int /\ FirstAt(w2) \in Int
    BY <2>2, WallIsFirst DEF First
  <2>5. Cuts(FirstAt(w1), FirstAt(w2)) \subseteq Int
    BY <1>2, <2>4 DEF Cuts
  <2> QED BY <2>1, <2>3, <2>5 DEF w1, w2
<1>5. \A s : s \in cuts <=> \E date \in LocalDate(from) .. LocalDate(to) :
                               \E r \in RulesOn(h, date) : s \in Block(date, r)
  <2>1. \A b : b \in blocks <=> \E date \in LocalDate(from) .. LocalDate(to) :
                                   \E r \in RulesOn(h, date) : b = <<date, r>>
    OBVIOUS
  <2> HIDE DEF blocks
  <2>2. \A s : s \in cuts <=> \E b \in blocks : s \in Block(b[1], b[2])
    OBVIOUS
  <2> HIDE DEF cuts, Block
  <2>3. ASSUME NEW s \in cuts
        PROVE  \E date \in LocalDate(from) .. LocalDate(to) :
                 \E r \in RulesOn(h, date) : s \in Block(date, r)
    <3>1. PICK b \in blocks : s \in Block(b[1], b[2])
      BY <2>2
    <3>2. PICK date \in LocalDate(from) .. LocalDate(to) :
            \E r \in RulesOn(h, date) : b = <<date, r>>
      BY <2>1
    <3>3. PICK r \in RulesOn(h, date) : b = <<date, r>>
      BY <3>2
    <3> QED BY <3>1, <3>3
  <2>4. ASSUME NEW s, NEW date \in LocalDate(from) .. LocalDate(to),
               NEW r \in RulesOn(h, date), s \in Block(date, r)
        PROVE  s \in cuts
    <3>1. <<date, r>> \in blocks
      BY <2>1
    <3>2. <<date, r>>[1] = date /\ <<date, r>>[2] = r
      OBVIOUS
    <3>3. s \in Block(<<date, r>>[1], <<date, r>>[2])
      BY <2>4, <3>2
    <3> QED BY <2>2, <3>1, <3>3
  <2> QED BY <2>3, <2>4
<1> HIDE DEF cuts, blocks
<1>6. ASSUME NEW s \in cuts PROVE s \in Int /\ InHours(h, s)
  <2>1. PICK date \in LocalDate(from) .. LocalDate(to) :
               \E r \in RulesOn(h, date) : s \in Block(date, r)
    BY <1>5
  <2>2. PICK r \in RulesOn(h, date) : s \in Block(date, r)
    BY <2>1
  <2>3. date \in Dates
    BY <1>3
  <2> HIDE DEF Block
  <2>4. s \in Cuts(FirstAt(date * DayLen + r[1]), FirstAt(date * DayLen + r[2])) /\ s \in Int
    BY <1>4, <2>2, <2>3
  <2> QED BY <2>3, <2>4 DEF InHours, Dates
<1>7. ASSUME NEW s \in Int, from <= s, s < to, InHours(h, s) PROVE s \in cuts
  <2>1. PICK date \in Dates : \E r \in RulesOn(h, date) :
          s \in Cuts(FirstAt(date * DayLen + r[1]), FirstAt(date * DayLen + r[2]))
    BY <1>7 DEF InHours, Dates
  <2>2. PICK r \in RulesOn(h, date) :
          s \in Cuts(FirstAt(date * DayLen + r[1]), FirstAt(date * DayLen + r[2]))
    BY <2>1
  <2> HIDE DEF Block
  <2>3. r[1] \in 0 .. DayLen /\ r[2] \in 0 .. DayLen /\ s \in Block(date, r)
    BY <1>4, <2>2
  <2>4. date \in LocalDate(from) .. LocalDate(to)
    BY <1>7, <2>2, <2>3, DatesRead
  <2> QED BY <1>5, <2>3, <2>4
<1>8. ASSUME NEW s \in Int
      PROVE  On(s) <=> /\ from <= s /\ s < to /\ s >= now + event.notice
                       /\ event.days # NoLimit =>
                             s < FirstAt((LocalDate(now) + event.days + 1) * DayLen)
                       /\ ClearOf(S, s)
  <2>1. OverlapsBusy(s - event.before, s + event.len + event.after, merged) <=> ~ ClearOf(S, s)
    <3> DEFINE a == s - event.before
               b == s + event.len + event.after
    <3>1. a \in Int /\ b \in Int /\ a < b
      BY <1>2
    <3>2. OverlapsBusy(a, b, merged) <=> \E i \in S : i.to > a /\ i.from < b
      <4> HIDE DEF a, b
      <4> QED BY <3>1, OverlapsIs
    <3>3. \A i \in S : i.from \in Nat /\ i.to \in Nat
      BY DEF Stretch
    <3>4. ClearOf(S, s) <=> \A i \in S : i.to <= a \/ i.from >= b
      BY DEF ClearOf
    <3> HIDE DEF a, b
    <3>5. ClearOf(S, s) <=> ~ \E i \in S : i.to > a /\ i.from < b
      BY <3>1, <3>3, <3>4
    <3> QED BY <3>2, <3>5 DEF a, b
  <2>2. s >= Greater(from, now + event.notice) <=> from <= s /\ s >= now + event.notice
    BY <1>2 DEF Greater
  <2>3. CASE event.days = NoLimit
    <3>1. BookingWindowEnd = MaxInstant + DayLen
      BY <2>3 DEF BookingWindowEnd
    <3>2. s < Lesser(to, BookingWindowEnd) <=> s < to
      BY <1>2, <3>1 DEF Lesser
    <3> QED BY <2>1, <2>2, <2>3, <3>2
  <2>4. CASE event.days # NoLimit
    <3> DEFINE e == FirstAt((LocalDate(now) + event.days + 1) * DayLen)
    <3>1. BookingWindowEnd = e /\ e \in Int
      BY <2>4, WindowEnd
    <3> HIDE DEF e
    <3>2. s < Lesser(to, BookingWindowEnd) <=> s < to /\ s < e
      BY <1>2, <3>1 DEF Lesser
    <3> QED BY <2>1, <2>2, <2>4, <3>2 DEF e
  <2> QED BY <2>3, <2>4
<1>9. \A s : s \in from .. to - 1 <=> s \in Int /\ from <= s /\ s < to
  OBVIOUS
<1> HIDE DEF On
<1> QED BY <1>1, <1>6, <1>7, <1>8, <1>9 DEF InReach

(* Busy time beyond the window's edges and the buffers cannot matter. *)
LEMMA LoadKeeps ==
  ASSUME Ready, NEW S, S \subseteq Stretch,
         NEW from \in 0 .. MaxInstant, NEW to \in 0 .. MaxInstant, NEW s \in from .. to - 1
  PROVE  ClearOf(LoadBusy(S, BusyReadSpan(from, to)), s) <=> ClearOf(S, s)
<1>1. event.len \in Nat \ {0} /\ event.before \in Nat /\ event.after \in Nat
  BY EventType
<1>2. \A i \in S : i.from \in Nat /\ i.to \in Nat
  BY DEF Stretch
<1>3. \A i \in S : i.to <= s - event.before \/ i.from >= s + event.len + event.after
                   \/ (i.from < to + event.len + event.after /\ i.to > from - event.before)
  BY <1>1, <1>2
<1>4. \A i : i \in LoadBusy(S, BusyReadSpan(from, to)) <=>
            i \in S /\ i.from < to + event.len + event.after /\ i.to > from - event.before
  BY DEF LoadBusy, BusyReadSpan, Interval
<1> QED BY <1>3, <1>4 DEF ClearOf

Kept == busy \in [Hosts -> SUBSET Engagements] /\ meeting \in Instants

LEMMA HostFree ==
  ASSUME Ready, Kept, NEW h \in Hosts, NEW moving \in BOOLEAN,
         NEW from \in 0 .. MaxInstant, NEW to \in 0 .. MaxInstant
  PROVE  HostFreeSlots(h, from, to, moving) = {s \in from .. to - 1 : Free(h, s, moving)}
<1> DEFINE own == IF moving THEN {} ELSE MeetingTime(h)
           all == busy[h] \cup own
           read == LoadBusy(all, BusyReadSpan(from, to))
<1>1. IsFiniteSet(busy[h]) /\ busy[h] \subseteq Stretch
  <2>1. IsFiniteSet(Engagements) /\ Engagements \subseteq Stretch /\ busy[h] \subseteq Engagements
    BY DEF Ready, SlotsBounds, Kept, Stretch
  <2> QED BY <2>1, FS_Subset
<1>2. IsFiniteSet(own) /\ own \subseteq Stretch
  <2>1. meeting \in Nat /\ event.len \in Nat
    BY EventType, ZoneType DEF Kept, Instants
  <2>2. MeetingTime(h) \subseteq {Interval(meeting, meeting + event.len)}
    BY DEF MeetingTime
  <2>3. IsFiniteSet({Interval(meeting, meeting + event.len)})
    BY FS_Singleton
  <2>4. Interval(meeting, meeting + event.len) \in Stretch
    BY <2>1 DEF Interval, Stretch
  <2>5. own \subseteq {Interval(meeting, meeting + event.len)}
    BY <2>2
  <2> HIDE DEF own
  <2> QED BY <2>3, <2>4, <2>5, FS_Subset
<1> HIDE DEF own
<1>3. IsFiniteSet(all) /\ all \subseteq Stretch
  BY <1>1, <1>2, FS_Union
<1> HIDE DEF all
<1>4. read \subseteq all
  BY DEF LoadBusy
<1>5. IsFiniteSet(read) /\ read \subseteq Stretch
  BY <1>3, <1>4, FS_Subset
<1>6. HostFreeSlots(h, from, to, moving) = ComputeSlots(h, from, to, read)
  BY DEF HostFreeSlots, all, own
<1>7. \A s \in from .. to - 1 : ClearOf(read, s) <=> ClearOf(all, s)
  BY <1>3, LoadKeeps
<1> HIDE DEF read
<1>8. ComputeSlots(h, from, to, read) = {s \in from .. to - 1 : InReach(h, s) /\ ClearOf(read, s)}
  BY <1>5, SlotsOf
<1>9. \A s : ClearOf(all, s) <=> ClearOf(busy[h], s) /\ (moving \/ ClearOf(MeetingTime(h), s))
  BY DEF ClearOf, all, own
<1>10. \A s : Free(h, s, moving) <=> InReach(h, s) /\ ClearOf(all, s)
  BY <1>9 DEF Free, InReach
<1> QED BY <1>6, <1>7, <1>8, <1>10

-----------------------------------------------------------------------------
(* What the pickers show. *)

Exact(for, from, to) == {s \in from .. to - 1 : CanBeHad(for, s)}

LEMMA NewIsExact ==
  ASSUME Ready, Kept, NEW from \in 0 .. MaxInstant, NEW to \in 0 .. MaxInstant
  PROVE  NewSlots(from, to) = Exact("new", from, to)
<1> DEFINE free == [h \in Hosts |-> HostFreeSlots(h, from, to, FALSE)]
           rotating == Hosts \ event.fixed
           can(h, s) == Free(h, s, FALSE)
<1>1. NewSlots(from, to) = Combine(free)
  BY DEF NewSlots
<1>2. \A h \in Hosts : free[h] = {s \in from .. to - 1 : Free(h, s, FALSE)}
  BY HostFree
<1> HIDE DEF free
<1>3. Hosts # {} /\ event.fixed \subseteq Hosts
  BY EventType DEF Ready, SlotsBounds
<1> DEFINE ofAny(hs) == UNION {free[h] : h \in hs}
           ofAll(hs) == {s \in ofAny(hs) : \A h \in hs : s \in free[h]}
<1>4. ASSUME NEW hs, hs \subseteq Hosts
      PROVE  ofAny(hs) = {s \in from .. to - 1 : \E h \in hs : Free(h, s, FALSE)}
  <2>1. \A h \in hs : free[h] = {s \in from .. to - 1 : Free(h, s, FALSE)}
    BY <1>2, <1>4
  <2>2. \A s : s \in ofAny(hs) <=> \E h \in hs : s \in free[h]
    OBVIOUS
  <2> HIDE DEF ofAny
  <2> QED BY <2>1, <2>2
<1>5. ASSUME NEW hs, hs \subseteq Hosts, hs # {}
      PROVE  ofAll(hs) = {s \in from .. to - 1 : \A h \in hs : Free(h, s, FALSE)}
  <2>1. \A h \in hs : free[h] = {s \in from .. to - 1 : Free(h, s, FALSE)}
    BY <1>2, <1>5
  <2>2. \A s : s \in ofAll(hs) <=> s \in ofAny(hs) /\ \A h \in hs : s \in free[h]
    OBVIOUS
  <2>3. \A s : s \in ofAny(hs) <=> s \in from .. to - 1 /\ \E h \in hs : Free(h, s, FALSE)
    BY <1>4, <1>5
  <2> HIDE DEF ofAny, ofAll
  <2> QED BY <1>5, <2>1, <2>2, <2>3
<1>6. Combine(free) =
        CASE event.method = "collective" -> ofAll(Hosts)
          [] event.method = "fixed_round_robin" /\ event.fixed # {} ->
               IF rotating = {} THEN ofAll(event.fixed) ELSE ofAll(event.fixed) \cap ofAny(rotating)
          [] OTHER -> ofAny(Hosts)
  BY DEF Combine
<1>7. \A s : CanBeHad("new", s) <=>
        CASE event.method = "collective" -> \A h \in Hosts : can(h, s)
          [] event.method = "fixed_round_robin" /\ event.fixed # {} ->
               /\ \A h \in event.fixed : can(h, s)
               /\ rotating # {} => \E h \in rotating : can(h, s)
          [] OTHER -> \E h \in Hosts : can(h, s)
  BY DEF CanBeHad
<1> HIDE DEF ofAny, ofAll, rotating, can
<1>8. CASE event.method = "collective"
  <2>1. Combine(free) = ofAll(Hosts)
    BY <1>6, <1>8
  <2>2. \A s : CanBeHad("new", s) <=> \A h \in Hosts : can(h, s)
    BY <1>7, <1>8
  <2> QED BY <1>1, <1>3, <1>5, <2>1, <2>2 DEF Exact, can
<1>9. CASE event.method # "collective" /\ event.method = "fixed_round_robin" /\ event.fixed # {}
  <2>1. Combine(free) =
          IF rotating = {} THEN ofAll(event.fixed) ELSE ofAll(event.fixed) \cap ofAny(rotating)
    BY <1>6, <1>9
  <2>2. \A s : CanBeHad("new", s) <=> /\ \A h \in event.fixed : can(h, s)
                                      /\ rotating # {} => \E h \in rotating : can(h, s)
    <3> SUFFICES ASSUME NEW s
                 PROVE  CanBeHad("new", s) <=> /\ \A h \in event.fixed : can(h, s)
                                               /\ rotating # {} => \E h \in rotating : can(h, s)
      OBVIOUS
    <3> DEFINE all == \A h \in Hosts : can(h, s)
               both == /\ \A h \in event.fixed : can(h, s)
                       /\ rotating # {} => \E h \in rotating : can(h, s)
               some == \E h \in Hosts : can(h, s)
    <3>1. CanBeHad("new", s) <=>
            CASE event.method = "collective" -> all
              [] event.method = "fixed_round_robin" /\ event.fixed # {} -> both
              [] OTHER -> some
      BY <1>7
    <3> HIDE DEF all, both, some
    <3>2. CanBeHad("new", s) <=> both
      BY <1>9, <3>1
    <3> QED BY <3>2 DEF both
  <2>3. ofAll(event.fixed) = {s \in from .. to - 1 : \A h \in event.fixed : can(h, s)}
    BY <1>3, <1>5, <1>9 DEF can
  <2>4. ofAny(rotating) = {s \in from .. to - 1 : \E h \in rotating : can(h, s)}
    BY <1>4 DEF can, rotating
  <2>5. CASE rotating = {}
    <3>1. NewSlots(from, to) = ofAll(event.fixed)
      BY <1>1, <2>1, <2>5
    <3>2. \A s : CanBeHad("new", s) <=> \A h \in event.fixed : can(h, s)
      BY <2>2, <2>5
    <3> QED BY <2>3, <3>1, <3>2 DEF Exact
  <2>6. CASE rotating # {}
    <3>1. NewSlots(from, to) = ofAll(event.fixed) \cap ofAny(rotating)
      BY <1>1, <2>1, <2>6
    <3>2. \A s : CanBeHad("new", s) <=> /\ \A h \in event.fixed : can(h, s)
                                        /\ \E h \in rotating : can(h, s)
      BY <2>2, <2>6
    <3> QED BY <2>3, <2>4, <3>1, <3>2 DEF Exact
  <2> QED BY <2>5, <2>6
<1>10. CASE ~ (event.method = "collective") /\ ~ (event.method = "fixed_round_robin" /\ event.fixed # {})
  <2>1. Combine(free) = ofAny(Hosts)
    BY <1>6, <1>10
  <2>2. \A s : CanBeHad("new", s) <=> \E h \in Hosts : can(h, s)
    BY <1>7, <1>10
  <2> QED BY <1>1, <1>4, <2>1, <2>2 DEF Exact, can
<1> QED BY <1>8, <1>9, <1>10

LEMMA MoveIsExact ==
  ASSUME Ready, Kept, NEW from \in 0 .. MaxInstant, NEW to \in 0 .. MaxInstant
  PROVE  MoveSlots(from, to) = Exact("move", from, to)
<1> DEFINE free == [h \in event.assigned |-> HostFreeSlots(h, from, to, TRUE)]
<1>1. event.assigned \subseteq Hosts /\ event.assigned # {}
  BY EventType
<1>2. ASSUME NEW h \in event.assigned
      PROVE  free[h] = {s \in from .. to - 1 : Free(h, s, TRUE)}
  <2>1. free[h] = HostFreeSlots(h, from, to, TRUE) /\ h \in Hosts
    BY <1>1
  <2> HIDE DEF free
  <2> QED BY <2>1, HostFree
<1>3. \A s : s \in MoveSlots(from, to) <=>
            /\ s # meeting /\ \E h \in event.assigned : s \in free[h]
            /\ \A h \in event.assigned : s \in free[h]
  BY DEF MoveSlots
<1> HIDE DEF free
<1>4. \A s : CanBeHad("move", s) <=> s # meeting /\ \A h \in event.assigned : Free(h, s, TRUE)
  BY DEF CanBeHad
<1> QED BY <1>1, <1>2, <1>3, <1>4 DEF Exact

-----------------------------------------------------------------------------
(* Nothing of what can be had changes while event, zone, busy time and the  *)
(* meeting stand still.                                                    *)
LEMMA ExactStands ==
  ASSUME UNCHANGED <<event, zone, busy, meeting>>
  PROVE  \A for, from, to : Exact(for, from, to)' = Exact(for, from, to)
  BY DEF Exact, CanBeHad, Free, InHours, RulesOn, Cuts, ClearOf, MeetingTime, LocalDate, FirstAt,
         Local, Offset

(* What is shown is exact, of the state it was shown in, which is the present *)
(* one while it is shown: with the types, an inductive invariant.          *)
PickerInv == TypeOK /\ SlotsExact

LEMMA PickerInit ==
  ASSUME SlotsBounds, Init
  PROVE  PickerInv
<1>1. 0 \in Instants
  BY DEF SlotsBounds, Instants
<1>2. shown = NotShown /\ NotShown.for = "nobody"
  BY DEF Init, NotShown
<1>3. shown \in [for : {"nobody", "new", "move"}, from : Instants, to : Instants,
                slots : SUBSET Instants]
  BY <1>1, <1>2 DEF NotShown
<1>4. event \in Events /\ zone \in Zones /\ meeting \in Instants
      /\ busy \in [Hosts -> SUBSET Engagements]
  BY DEF Init
<1> QED BY <1>2, <1>3, <1>4 DEF PickerInv, TypeOK, SlotsExact

LEMMA ShowKeeps ==
  ASSUME SlotsBounds, PickerInv, NEW for \in {"new", "move"}, NEW w \in Windows,
         Show(for, w.from, w.to, Exact(for, w.from, w.to))
  PROVE  PickerInv'
<1> DEFINE slots == Exact(for, w.from, w.to)
<1>1. w.from \in Instants /\ w.to \in Instants
  BY DEF SlotsBounds, Instants
<1>2. slots \subseteq w.from .. w.to - 1
  BY DEF Exact
<1>3. slots \subseteq Instants
  <2>1. MaxInstant \in Nat
    BY DEF SlotsBounds
  <2> HIDE DEF slots
  <2> QED BY <1>1, <1>2, <2>1 DEF Instants
<1>4. /\ shown' = [for |-> for, from |-> w.from, to |-> w.to, slots |-> slots]
      /\ UNCHANGED <<event, zone, busy, meeting>>
  BY DEF Show
<1> HIDE DEF slots
<1>5. TypeOK'
  BY <1>1, <1>3, <1>4 DEF PickerInv, TypeOK
<1>6. shown'.slots = slots /\ shown'.for = for /\ shown'.from = w.from /\ shown'.to = w.to
  BY <1>4
<1>7. Exact(for, w.from, w.to)' = slots
  BY <1>4, ExactStands DEF slots
<1>8. (shown.slots = Exact(shown.for, shown.from, shown.to))'
  BY <1>6, <1>7
<1>9. SlotsExact'
  BY <1>8 DEF SlotsExact, Exact
<1> QED BY <1>5, <1>9 DEF PickerInv

LEMMA PickerNext ==
  ASSUME SlotsBounds, PickerInv, [Next]_vars
  PROVE  PickerInv'
<1>1. Ready /\ Kept
  BY DEF PickerInv, TypeOK, Ready, Kept
<1>2. \A w \in Windows : w.from \in 0 .. MaxInstant /\ w.to \in 0 .. MaxInstant
  BY DEF SlotsBounds
<1>3. ASSUME NEW w \in Windows, Pick(w.from, w.to)
      PROVE  PickerInv'
  <2>1. NewSlots(w.from, w.to) = Exact("new", w.from, w.to)
    BY <1>1, <1>2, NewIsExact
  <2>2. Show("new", w.from, w.to, Exact("new", w.from, w.to))
    BY <1>3, <2>1 DEF Pick
  <2> QED BY <2>2, ShowKeeps
<1>4. ASSUME NEW w \in Windows, PickMove(w.from, w.to)
      PROVE  PickerInv'
  <2>1. MoveSlots(w.from, w.to) = Exact("move", w.from, w.to)
    BY <1>1, <1>2, MoveIsExact
  <2>2. Show("move", w.from, w.to, Exact("move", w.from, w.to))
    BY <1>4, <2>1 DEF PickMove
  <2> QED BY <2>2, ShowKeeps
<1>5. NotShown.for = "nobody" /\ NotShown \in
        [for : {"nobody", "new", "move"}, from : Instants, to : Instants, slots : SUBSET Instants]
  BY DEF SlotsBounds, Instants, NotShown
<1>6. ASSUME NEW s \in Instants, Move(s)
      PROVE  PickerInv'
  <2>1. meeting' = s /\ shown' = NotShown /\ UNCHANGED <<event, zone, busy>>
    BY <1>6 DEF Move
  <2> QED BY <1>5, <2>1 DEF PickerInv, TypeOK, SlotsExact
<1>7. ASSUME NEW h \in Hosts, NEW i \in Engagements, Engage(h, i)
      PROVE  PickerInv'
  <2>1. /\ busy' = [busy EXCEPT ![h] = busy[h] \cup {i}] /\ shown' = NotShown
        /\ UNCHANGED <<event, zone, meeting>>
    BY <1>7 DEF Engage
  <2>2. busy' \in [Hosts -> SUBSET Engagements]
    BY <1>1, <2>1 DEF Kept
  <2> QED BY <1>5, <2>1, <2>2 DEF PickerInv, TypeOK, SlotsExact
<1>8. ASSUME UNCHANGED vars
      PROVE  PickerInv'
  <2>1. UNCHANGED <<event, zone, busy, meeting>> /\ shown' = shown
    BY <1>8 DEF vars
  <2>2. TypeOK'
    BY <2>1 DEF PickerInv, TypeOK
  <2>3. shown.for # "nobody" => shown.slots = Exact(shown.for, shown.from, shown.to)
    BY DEF PickerInv, SlotsExact, Exact
  <2>4. (shown.for # "nobody" => shown.slots = Exact(shown.for, shown.from, shown.to))'
    BY <2>1, <2>3, ExactStands
  <2>5. SlotsExact'
    BY <2>4 DEF SlotsExact, Exact
  <2> QED BY <2>2, <2>5 DEF PickerInv
<1> QED BY <1>3, <1>4, <1>6, <1>7, <1>8 DEF Next

LEMMA PickerInductive ==
  ASSUME SlotsBounds
  PROVE  Spec => []PickerInv
<1>1. Init => PickerInv
  BY PickerInit
<1>2. PickerInv /\ [Next]_vars => PickerInv'
  BY PickerNext
<1> QED BY <1>1, <1>2, PTL DEF Spec

(* The type invariant, for every event, hours, zone, busy time and window    *)
(* within SlotsBounds.                                                     *)
THEOREM SlotsTyped ==
  ASSUME SlotsBounds
  PROVE  Spec => []TypeOK
<1>1. PickerInv => TypeOK
  BY DEF PickerInv
<1> QED BY <1>1, PickerInductive, PTL

(* And every picker, of a new booking or of a move, shows exactly the times  *)
(* that can be had, across a turn of the clock too.                        *)
THEOREM PickersExact ==
  ASSUME SlotsBounds
  PROVE  Spec => []SlotsExact
<1>1. PickerInv => SlotsExact
  BY DEF PickerInv
<1> QED BY <1>1, PickerInductive, PTL
=============================================================================
