----------------------------- MODULE SeriesProofs -----------------------------
(***************************************************************************)
(* Proofs about Series, for any callers, horizon, period and bounds.  What  *)
(* a call planned is stale when it writes; the invariant says what of it   *)
(* still holds while the series' revision is the one it read (Planful),    *)
(* and that the dates written stay on the rule and behind the date up to   *)
(* which the series is materialized (Follows).  LastInv is what NoDateLost *)
(* needs besides: every date owed has its row, and a plan leaves out none. *)
(***************************************************************************)
EXTENDS Series, SequenceTheorems, FiniteSetTheorems, WellFoundedInduction, TLAPS

Bounds ==
    /\ Last \in Nat /\ Period \in Nat \ {0} /\ Horizon \in Nat /\ Slack \in Nat
    /\ Firsts \subseteq Slots /\ Untils \subseteq Slots
    /\ MaxSeries \in Nat /\ MaxSeriesCalls \in Nat /\ MaxSingles \in Nat

-----------------------------------------------------------------------------
(* The invariant. *)

CallT == [pc : {"idle", "read", "write"}, kind : Kinds, id : 0 .. MaxSeries, row : Nat,
          scope : Scopes, to : 0 .. Last, until : 0 .. Last, at : 0 .. Last, tries : Nat,
          seen : SeriesRow \cup {NoCall.seen}, replacing : SUBSET Nat, kept : SUBSET Slots,
          skipped : SUBSET Slots]

Typed ==
    /\ seriesNow \in 0 .. Last
    /\ series \in Seq(SeriesRow) /\ Len(series) <= MaxSeries
    /\ row \in Seq(Booking)
    /\ seriesCall \in [Callers -> CallT]

(* A row is of a series there is. *)
Owned == \A i \in DOMAIN row : row[i].series # NoSeries => row[i].series \in DOMAIN series

(* d is a date of the rule from a to u. *)
Gives(a, u, d) == a <= d /\ d <= u /\ d <= Last /\ (d - a) % Period = 0

(* d is a date that series s has and has written. *)
Fits(s, d) == s.status # "cancelled" /\ Gives(s.start, s.until, d) /\ d < s.mat

(* The dates to come of rows rw at time t, and the rule they follow. *)
OnIn(rw) == {i \in DOMAIN rw : rw[i].status = "on"}

Ahead(rw, t) ==
    {i \in OnIn(rw) : rw[i].series # NoSeries /\ rw[i].at > t /\ ~ rw[i].alone}

FollowsIn(sr, rw, t) ==
    \A i \in Ahead(rw, t) :
        /\ Fits(sr[rw[i].series], rw[i].orig)
        /\ \A j \in Ahead(rw, t) \ {i} : rw[j].series = rw[i].series => rw[j].orig # rw[i].orig

Follows == FollowsIn(series, row, seriesNow)

(* The dates call q is to write are its rule's, none of them written when  *)
(* it read the series; a move replaces every date still to come.           *)
PlannedDate(q, d) ==
    CASE q.kind = "create" -> Gives(q.to, q.until, d) /\ d < Later(q.at, q.to) + Horizon
      [] q.kind = "extend" -> /\ Gives(q.seen.start, q.seen.until, d)
                              /\ q.seen.mat <= d /\ d < q.at + Horizon
      [] q.kind = "move"   -> Gives(q.to, q.seen.until, d) /\ d < Later(q.at, q.to) + Horizon
      [] OTHER -> FALSE

SeenCovers(q, rw) ==
    \A i \in DOMAIN rw :
        /\ rw[i].status = "on" /\ rw[i].series = q.id /\ rw[i].at > q.at /\ ~ rw[i].alone
        /\ rw[i].orig >= CutFor(q.seen, q.scope, rw[q.row].orig, q.at)
        => i \in q.replacing

PlanOf(q, sr, rw) ==
    /\ \A d \in q.kept : PlannedDate(q, d)
    /\ q.kind \in {"create", "move"} => q.to \in Slots
    /\ q.kind # "create" => /\ q.seen \in SeriesRow
                            /\ q.seen.rev <= sr[q.id].rev
                            /\ q.seen.rev = sr[q.id].rev => q.seen = sr[q.id]
    /\ q.kind = "extend" => q.seen.mat <= q.at + Horizon /\ q.seen.status # "cancelled"
    /\ q.kind = "move" => /\ q.seen.status # "cancelled"
                          /\ CutFor(q.seen, q.scope, rw[q.row].orig, q.at) # NoCut
                          /\ q.seen.rev = sr[q.id].rev => SeenCovers(q, rw)

CallOK(q, sr, rw, t) ==
    q.pc # "idle" =>
        /\ q.at <= t
        /\ q.pc = "read" => q.kind \in {"cancel", "move"}
        /\ q.kind # "create" => q.id \in DOMAIN sr
        /\ q.kind \in {"cancel", "move"} => q.row \in DOMAIN rw /\ rw[q.row].series = q.id
        /\ q.kind \in {"create", "move"} => q.to \in Slots
        /\ q.pc = "write" => PlanOf(q, sr, rw)

Planful == \A c \in Callers : CallOK(seriesCall[c], series, row, seriesNow)

SeriesInv == Typed /\ Owned /\ Follows /\ Planful /\ NoOverlap

-----------------------------------------------------------------------------
(* The dates of a rule. *)

LEMMA DatesGive ==
  ASSUME Bounds, NEW s, s.start \in Slots, s.until \in 0 .. Last, NEW a, NEW b, a \in Nat, b \in Nat,
         NEW d, d \in Dates(s, a, b)
  PROVE  d \in Slots /\ Gives(s.start, s.until, d) /\ a <= d /\ d < b
<1>1. d \in s.start .. s.until /\ (d - s.start) % Period = 0 /\ a <= d /\ d < b
  BY DEF Dates
<1>2. d \in Slots
  BY <1>1 DEF Bounds, Slots
<1> QED
  BY <1>1, <1>2 DEF Gives, Slots, Bounds

LEMMA GivesDate ==
  ASSUME Bounds, NEW s, s.start \in Slots, s.until \in 0 .. Last, NEW d \in Slots,
         Gives(s.start, s.until, d)
  PROVE  d \in AllDates(s)
<1>1. d \in s.start .. s.until /\ 0 <= d /\ d < Last + 1
  BY DEF Gives, Slots, Bounds
<1> QED
  BY <1>1 DEF Gives, AllDates, Dates

LEMMA LeastOf ==
  ASSUME NEW T \in SUBSET Nat, T # {}
  PROVE  Min(T) \in T /\ \A y \in T : Min(T) <= y
<1>1. PICK x \in T : \A y \in T : ~ (<<y, x>> \in OpToRel(<, Nat))
  BY WFMin, NatLessThanWellFounded
<1>2. \A y \in T : ~ (y < x)
  BY <1>1 DEF OpToRel
<1>3. \A y \in T : x <= y
  BY <1>2
<1> QED
  BY <1>3 DEF Min

(* The cut of a cancel or a move is a slot, or there is none. *)
LEMMA CutIsSlot ==
  ASSUME Bounds, NEW s \in SeriesRow, NEW scope, NEW orig \in Slots, NEW at \in 0 .. Last
  PROVE  CutFor(s, scope, orig, at) \in Slots \cup {NoCut}
<1> DEFINE left == Dates(s, at + 1, Last + 1)
<1>1. s.start \in Slots /\ s.until \in 0 .. Last /\ at + 1 \in Nat /\ Last + 1 \in Nat
  BY DEF SeriesRow, Bounds
<1>2. left \subseteq Slots
  BY <1>1, DatesGive
<1>3. left # {} => Min(left) \in Slots
  <2> HIDE DEF left
  <2>1. left \in SUBSET Nat
    BY <1>2 DEF Slots
  <2> QED
    BY <1>2, <2>1, LeastOf
<1> QED
  BY <1>3 DEF CutFor

-----------------------------------------------------------------------------
(* Dates appended to the rows, in order. *)

Below(S, d) == {e \in S : e < d}

LEMMA BelowCounts ==
  ASSUME Bounds, NEW S \in SUBSET Slots
  PROVE  /\ IsFiniteSet(S) /\ Cardinality(S) \in Nat
         /\ \A d \in S : Cardinality(Below(S, d)) \in 0 .. Cardinality(S) - 1
         /\ \A d, e \in S : d < e => Cardinality(Below(S, d)) < Cardinality(Below(S, e))
<1>1. IsFiniteSet(S)
  <2>1. IsFiniteSet(Slots)
    BY FS_Interval DEF Slots, Bounds
  <2> QED
    BY <2>1, FS_Subset
<1>2. Cardinality(S) \in Nat
  BY <1>1, FS_CardinalityType
<1>3. S \in SUBSET Nat
  BY DEF Slots
<1>4. \A d \in S : IsFiniteSet(Below(S, d)) /\ Cardinality(Below(S, d)) \in Nat
  <2> TAKE d \in S
  <2>1. Below(S, d) \in SUBSET S
    BY DEF Below
  <2>2. IsFiniteSet(Below(S, d))
    BY <1>1, <2>1, FS_Subset
  <2> QED
    BY <2>2, FS_CardinalityType
<1>5. \A d \in S : Cardinality(Below(S, d)) \in 0 .. Cardinality(S) - 1
  <2> TAKE d \in S
  <2>1. Below(S, d) \in SUBSET (S \ {d})
    BY <1>3 DEF Below
  <2>2. IsFiniteSet(S \ {d}) /\ Cardinality(S \ {d}) = Cardinality(S) - 1
    BY <1>1, FS_RemoveElement
  <2>3. Cardinality(Below(S, d)) <= Cardinality(S \ {d})
    BY <2>1, <2>2, FS_Subset
  <2>4. Cardinality(Below(S, d)) \in Nat
    BY <1>4
  <2> QED
    BY <1>2, <2>2, <2>3, <2>4
<1>6. \A d, e \in S : d < e => Cardinality(Below(S, d)) < Cardinality(Below(S, e))
  <2> TAKE d, e \in S
  <2> HAVE d < e
  <2>0. d \in Nat /\ e \in Nat
    BY <1>3
  <2>1. Below(S, d) \in SUBSET Below(S, e)
    <3>1. ASSUME NEW x \in S, x < d
          PROVE  x < e
      <4>1. x \in Nat
        BY <1>3
      <4> QED
        BY <2>0, <3>1, <4>1
    <3> QED
      BY <3>1 DEF Below
  <2>2. Below(S, d) # Below(S, e)
    BY <2>0 DEF Below
  <2>3. Cardinality(Below(S, d)) <= Cardinality(Below(S, e))
        /\ Cardinality(Below(S, d)) # Cardinality(Below(S, e))
    BY <1>4, <2>1, <2>2, FS_Subset
  <2>4. Cardinality(Below(S, d)) \in Nat /\ Cardinality(Below(S, e)) \in Nat
    BY <1>4
  <2> QED
    BY <2>3, <2>4
<1> QED
  BY <1>1, <1>2, <1>5, <1>6

LEMMA InOrderOfSlots ==
  ASSUME Bounds, NEW S \in SUBSET Slots, NEW k \in 1 .. Cardinality(S)
  PROVE  \E d \in S : Cardinality(Below(S, d)) = k - 1
<1> DEFINE n == Cardinality(S)
           f == [d \in S |-> Cardinality(Below(S, d)) + 1]
<1>1. n \in Nat
  BY BelowCounts
<1>2. \A d \in S : Cardinality(Below(S, d)) \in 0 .. n - 1
  BY BelowCounts
<1>3. f \in [S -> 1 .. n]
  BY <1>1, <1>2
<1>4. \A d, e \in S : f[d] = f[e] => d = e
  <2> TAKE d, e \in S
  <2>1. d \in Nat /\ e \in Nat
    BY DEF Slots
  <2>2. Cardinality(Below(S, d)) \in Nat /\ Cardinality(Below(S, e)) \in Nat
    BY <1>1, <1>2
  <2>3. /\ d < e => Cardinality(Below(S, d)) < Cardinality(Below(S, e))
        /\ e < d => Cardinality(Below(S, e)) < Cardinality(Below(S, d))
    BY BelowCounts
  <2> QED
    BY <2>1, <2>2, <2>3
<1>5. f \in Injection(S, 1 .. n)
  <2> HIDE DEF f
  <2> QED
    BY <1>3, <1>4 DEF Injection, IsInjective
<1>6. IsFiniteSet(1 .. n) /\ Cardinality(1 .. n) = n
  BY <1>1, FS_Interval
<1>7. f \in Surjection(S, 1 .. n)
  <2> HIDE DEF f
  <2> QED
    BY <1>5, <1>6, FS_Injection
<1>8. PICK d \in S : f[d] = k
  <2> HIDE DEF f
  <2> QED
    BY <1>7 DEF Surjection
<1>9. Cardinality(Below(S, d)) + 1 = k /\ Cardinality(Below(S, d)) \in Nat
  BY <1>1, <1>2, <1>8
<1> QED
  BY <1>9

(* New rows after those of rows: dates of one series, each once. *)
Grows(rows, out, id, rev, dates) ==
    /\ out \in Seq(Booking) /\ Len(rows) <= Len(out)
    /\ \A i \in DOMAIN rows : out[i] = rows[i]
    /\ \A i \in DOMAIN out \ DOMAIN rows : \E d \in dates : out[i] = Date(id, rev, d)
    /\ \A i, j \in DOMAIN out \ DOMAIN rows : i # j => out[i].orig # out[j].orig

LEMMA DateIsBooking ==
  ASSUME NEW id \in 0 .. MaxSeries, NEW rev \in Nat, NEW d \in Slots
  PROVE  Date(id, rev, d) \in Booking
  BY DEF Date, Booking

LEMMA AppendGrows ==
  ASSUME Bounds, NEW rows \in Seq(Booking), NEW id \in 0 .. MaxSeries, NEW rev \in Nat,
         NEW dates \in SUBSET Slots
  PROVE  Grows(rows, Append1(rows, id, rev, dates), id, rev, dates)
<1> DEFINE n == Cardinality(dates)
           nth(k) == CHOOSE d \in dates : Cardinality({e \in dates : e < d}) = k - 1
           fresh == [k \in 1 .. n |-> Date(id, rev, nth(k))]
           out == rows \o fresh
<1>1. n \in Nat
  BY BelowCounts
<1>2. \A k \in 1 .. n : nth(k) \in dates /\ Cardinality(Below(dates, nth(k))) = k - 1
  <2> TAKE k \in 1 .. n
  <2>1. \E d \in dates : Cardinality({e \in dates : e < d}) = k - 1
    BY InOrderOfSlots DEF Below
  <2> QED
    BY <2>1 DEF Below
<1>3. Append1(rows, id, rev, dates) = out
  BY DEF Append1
<1>9. \A k, l \in 1 .. n : k # l => nth(k) # nth(l)
  <2> TAKE k, l \in 1 .. n
  <2>1. k - 1 # l - 1 => k # l
    OBVIOUS
  <2>2. nth(k) = nth(l) => k - 1 = l - 1
    <3> HIDE DEF nth
    <3> QED
      BY <1>2
  <2> HIDE DEF nth
  <2> QED
    BY <1>1, <2>2
<1> HIDE DEF nth, n
<1>4. fresh \in Seq(Booking) /\ Len(fresh) = n
  <2>1. \A k \in 1 .. n : Date(id, rev, nth(k)) \in Booking
    BY <1>2, DateIsBooking
  <2> QED
    BY <1>1, <2>1
<1>12. \A k \in 1 .. n : fresh[k] = Date(id, rev, nth(k))
  OBVIOUS
<1> HIDE DEF fresh
<1>5. /\ out \in Seq(Booking) /\ Len(out) = Len(rows) + n
      /\ \A i \in 1 .. Len(rows) + n : out[i] = IF i <= Len(rows) THEN rows[i]
                                                 ELSE fresh[i - Len(rows)]
  BY <1>1, <1>4, ConcatProperties
<1> HIDE DEF out
<1>6. Len(rows) \in Nat /\ DOMAIN rows = 1 .. Len(rows) /\ DOMAIN out = 1 .. Len(rows) + n
  BY <1>1, <1>5
<1>7. \A i \in DOMAIN rows : out[i] = rows[i]
  BY <1>1, <1>5, <1>6
<1>8. \A i \in DOMAIN out \ DOMAIN rows :
        i - Len(rows) \in 1 .. n /\ out[i] = Date(id, rev, nth(i - Len(rows)))
  <2> TAKE i \in DOMAIN out \ DOMAIN rows
  <2>1. i - Len(rows) \in 1 .. n /\ ~ (i <= Len(rows)) /\ i \in 1 .. Len(rows) + n
    BY <1>1, <1>6
  <2> QED
    BY <1>5, <1>12, <2>1
<1>10. \A i, j \in DOMAIN out \ DOMAIN rows : i # j => out[i].orig # out[j].orig
  <2> TAKE i, j \in DOMAIN out \ DOMAIN rows
  <2> HAVE i # j
  <2>1. /\ i - Len(rows) # j - Len(rows)
        /\ i - Len(rows) \in 1 .. n /\ j - Len(rows) \in 1 .. n
    BY <1>1, <1>6, <1>8
  <2>2. nth(i - Len(rows)) # nth(j - Len(rows))
    BY <1>9, <2>1
  <2>3. out[i].orig = nth(i - Len(rows)) /\ out[j].orig = nth(j - Len(rows))
    BY <1>8 DEF Date
  <2> QED
    BY <2>2, <2>3
<1>11. \A i \in DOMAIN out \ DOMAIN rows : \E d \in dates : out[i] = Date(id, rev, d)
  BY <1>2, <1>8
<1>13. Len(rows) <= Len(out)
  BY <1>1, <1>5, <1>6
<1> QED
  BY <1>3, <1>5, <1>7, <1>10, <1>11, <1>13 DEF Grows

-----------------------------------------------------------------------------
(* What a write does to the rows. *)

(* Each row of rows is still in out, but for its status; none of gone is on. *)
Keeps(rows, out, gone) ==
    /\ out \in Seq(Booking) /\ DOMAIN rows \subseteq DOMAIN out
    /\ \A i \in DOMAIN rows :
          /\ out[i].series = rows[i].series /\ out[i].orig = rows[i].orig
          /\ out[i].at = rows[i].at /\ out[i].alone = rows[i].alone
          /\ out[i].status = "on" => rows[i].status = "on" /\ i \notin gone

Added(rows, out) == DOMAIN out \ DOMAIN rows

(* And those added are dates of series id, each once. *)
Rewrites(rows, out, gone, id, dates) ==
    /\ Keeps(rows, out, gone)
    /\ \A i \in Added(rows, out) :
          /\ out[i].series = id /\ ~ out[i].alone
          /\ out[i].orig \in dates /\ out[i].at = out[i].orig
    /\ \A i, j \in Added(rows, out) : i # j => out[i].orig # out[j].orig

LEMMA TurnedKeeps ==
  ASSUME row \in Seq(Booking), NEW gone, NEW status \in {"off", "replaced"}
  PROVE  /\ Keeps(row, Turned(gone, status), gone)
         /\ DOMAIN Turned(gone, status) = DOMAIN row
         /\ Turned(gone, status) \in Seq(Booking)
<1> DEFINE out == Turned(gone, status)
<1>1. DOMAIN row = 1 .. Len(row) /\ Len(row) \in Nat
  OBVIOUS
<1>2. \A i \in DOMAIN row : row[i] \in Booking
  BY <1>1
<1>3. DOMAIN out = DOMAIN row
  BY DEF Turned
<1>4. \A i \in DOMAIN row :
        out[i] = IF i \in gone /\ row[i].status = "on" THEN [row[i] EXCEPT !.status = status]
                 ELSE row[i]
  BY DEF Turned
<1>10. out = [i \in 1 .. Len(row) |-> out[i]]
  BY <1>1 DEF Turned
<1> HIDE DEF out
<1>11. ASSUME NEW x \in Booking
       PROVE  [x EXCEPT !.status = status] \in Booking
  BY DEF Booking
<1>5. \A i \in DOMAIN row : out[i] \in Booking
  BY <1>2, <1>4, <1>11
<1>6. out \in Seq(Booking)
  BY <1>1, <1>5, <1>10
<1>7. \A i \in DOMAIN row :
          /\ out[i].series = row[i].series /\ out[i].orig = row[i].orig
          /\ out[i].at = row[i].at /\ out[i].alone = row[i].alone
          /\ out[i].status = "on" => row[i].status = "on" /\ i \notin gone
  BY <1>2, <1>4 DEF Booking
<1>8. Keeps(row, out, gone)
  BY <1>3, <1>6, <1>7 DEF Keeps
<1> QED
  BY <1>3, <1>6, <1>8 DEF out

LEMMA SameKeeps ==
  ASSUME row \in Seq(Booking)
  PROVE  Keeps(row, row, {})
  BY DEF Keeps

(* Rows kept, and others added after them. *)
LEMMA KeptThenMore ==
  ASSUME NEW rows \in Seq(Booking), NEW mid \in Seq(Booking), NEW out \in Seq(Booking), NEW gone,
         Keeps(rows, mid, gone), DOMAIN mid = DOMAIN rows, Len(mid) <= Len(out),
         \A i \in DOMAIN mid : out[i] = mid[i]
  PROVE  Keeps(rows, out, gone)
<1>1. DOMAIN mid \subseteq DOMAIN out
  <2>1. DOMAIN mid = 1 .. Len(mid) /\ DOMAIN out = 1 .. Len(out) /\ Len(mid) \in Nat /\ Len(out) \in Nat
    OBVIOUS
  <2> QED
    BY <2>1
<1> QED
  BY <1>1 DEF Keeps

LEMMA GrownRewrites ==
  ASSUME NEW rows \in Seq(Booking), NEW mid \in Seq(Booking), NEW gone,
         Keeps(rows, mid, gone), DOMAIN mid = DOMAIN rows,
         NEW out, NEW id, NEW rev, NEW dates, Grows(mid, out, id, rev, dates)
  PROVE  Rewrites(rows, out, gone, id, dates)
<1>1. Keeps(rows, out, gone)
  BY KeptThenMore DEF Grows
<1>2. \A i \in Added(rows, out) : \E d \in dates : out[i] = Date(id, rev, d)
  BY DEF Grows, Added
<1>3. \A i \in Added(rows, out) :
          /\ out[i].series = id /\ ~ out[i].alone
          /\ out[i].orig \in dates /\ out[i].at = out[i].orig
  <2> TAKE i \in Added(rows, out)
  <2>1. PICK d \in dates : out[i] = Date(id, rev, d)
    BY <1>2
  <2> QED
    BY <2>1 DEF Date
<1> QED
  BY <1>1, <1>3 DEF Rewrites, Grows, Added

LEMMA WriteRewrites ==
  ASSUME Bounds, row \in Seq(Booking), NEW gone, NEW status \in {"off", "replaced"},
         NEW id \in 0 .. MaxSeries, NEW rev \in Nat, NEW dates \in SUBSET Slots
  PROVE  /\ Rewrites(row, Append1(row, id, rev, dates), {}, id, dates)
         /\ Rewrites(row, Append1(Turned(gone, status), id, rev, dates), gone, id, dates)
<1>1. Grows(row, Append1(row, id, rev, dates), id, rev, dates)
  BY AppendGrows
<1>2. Keeps(row, row, {})
  BY SameKeeps
<1>3. Rewrites(row, Append1(row, id, rev, dates), {}, id, dates)
  BY <1>1, <1>2, GrownRewrites
<1> DEFINE mid == Turned(gone, status)
<1>4. Keeps(row, mid, gone) /\ DOMAIN mid = DOMAIN row /\ mid \in Seq(Booking)
  BY TurnedKeeps
<1> HIDE DEF mid
<1>5. Grows(mid, Append1(mid, id, rev, dates), id, rev, dates)
  BY <1>4, AppendGrows
<1>6. Rewrites(row, Append1(mid, id, rev, dates), gone, id, dates)
  BY <1>4, <1>5, GrownRewrites
<1> QED
  BY <1>3, <1>6 DEF mid

LEMMA TurnedRewrites ==
  ASSUME row \in Seq(Booking), NEW gone, NEW status \in {"off", "replaced"}, NEW id
  PROVE  Rewrites(row, Turned(gone, status), gone, id, {})
  BY TurnedKeeps DEF Rewrites, Added

(* At most one row added, which is b. *)
Joins(rows, out, gone, b) ==
    Keeps(rows, out, gone) /\ \A i, j \in Added(rows, out) : i = j /\ out[i] = b

LEMMA OneMore ==
  ASSUME NEW rows \in Seq(Booking), NEW mid \in Seq(Booking), NEW gone,
         Keeps(rows, mid, gone), DOMAIN mid = DOMAIN rows, NEW b \in Booking
  PROVE  Joins(rows, Append(mid, b), gone, b)
<1> DEFINE out == Append(mid, b)
<1>1. /\ out \in Seq(Booking) /\ Len(out) = Len(mid) + 1 /\ out[Len(mid) + 1] = b
      /\ \A i \in 1 .. Len(mid) : out[i] = mid[i]
  BY AppendProperties
<1> HIDE DEF out
<1>2. DOMAIN mid = 1 .. Len(mid) /\ DOMAIN out = 1 .. Len(mid) + 1 /\ Len(mid) \in Nat
  BY <1>1
<1>3. \A i \in Added(rows, out) : i = Len(mid) + 1
  <2>1. \A i \in DOMAIN out : i \notin DOMAIN mid => i = Len(mid) + 1
    BY <1>2
  <2> QED
    BY <2>1 DEF Added
<1>4. Keeps(rows, out, gone)
  <2>1. Len(mid) <= Len(out) /\ \A i \in DOMAIN mid : out[i] = mid[i]
    BY <1>1, <1>2
  <2> QED
    BY <1>1, <2>1, KeptThenMore
<1> QED
  BY <1>1, <1>3, <1>4 DEF out, Joins

-----------------------------------------------------------------------------
(* What each part of the invariant needs of a write. *)

Apart(rw) == \A i, j \in OnIn(rw) : i # j => rw[i].at # rw[j].at

LEMMA ApartKept ==
  ASSUME NEW rows, NEW out, NEW gone, Keeps(rows, out, gone), Apart(rows),
         \A i \in Added(rows, out) : \A k \in OnIn(rows) \ gone : rows[k].at # out[i].at,
         \A i, j \in Added(rows, out) : i # j => out[i].at # out[j].at
  PROVE  Apart(out)
<1> SUFFICES ASSUME NEW i \in OnIn(out), NEW j \in OnIn(out), i # j
             PROVE  out[i].at # out[j].at
  BY DEF Apart
<1>1. \A k \in OnIn(out) : \/ k \in Added(rows, out)
                           \/ k \in OnIn(rows) \ gone /\ out[k].at = rows[k].at
  BY DEF Keeps, OnIn, Added
<1> QED
  BY <1>1 DEF Apart

LEMMA RuleKept ==
  ASSUME NEW sr, NEW sr2, NEW rows, NEW out, NEW gone, NEW id, NEW dates, NEW t,
         Rewrites(rows, out, gone, id, dates), FollowsIn(sr, rows, t),
         \A i \in Ahead(rows, t) \ gone : Fits(sr2[rows[i].series], rows[i].orig),
         \A d \in dates : Fits(sr2[id], d),
         \A i \in Ahead(rows, t) \ gone : rows[i].series = id => rows[i].orig \notin dates
  PROVE  FollowsIn(sr2, out, t)
<1>1. \A k \in Ahead(out, t) :
         \/ k \in Added(rows, out)
         \/ /\ k \in Ahead(rows, t) \ gone
            /\ out[k].series = rows[k].series /\ out[k].orig = rows[k].orig
  BY DEF Rewrites, Keeps, Ahead, OnIn, Added
<1>2. \A k \in Added(rows, out) : out[k].series = id /\ out[k].orig \in dates
  BY DEF Rewrites
<1>3. \A k, l \in Added(rows, out) : k # l => out[k].orig # out[l].orig
  BY DEF Rewrites
<1>4. \A k, l \in Ahead(rows, t) : k # l /\ rows[k].series = rows[l].series
                                   => rows[k].orig # rows[l].orig
  BY DEF FollowsIn
<1>5. \A k \in Ahead(out, t) : Fits(sr2[out[k].series], out[k].orig)
  BY <1>1, <1>2
<1>6. \A k, l \in Ahead(out, t) : k # l /\ out[k].series = out[l].series
                                  => out[k].orig # out[l].orig
  BY <1>1, <1>2, <1>3, <1>4
<1> QED
  BY <1>5, <1>6 DEF FollowsIn

LEMMA RuleKeptAlone ==
  ASSUME NEW sr, NEW rows, NEW out, NEW gone, NEW t, Keeps(rows, out, gone), FollowsIn(sr, rows, t),
         \A i \in Added(rows, out) : out[i].alone
  PROVE  FollowsIn(sr, out, t)
<1>1. \A k \in Ahead(out, t) :
         k \in Ahead(rows, t) /\ out[k].series = rows[k].series /\ out[k].orig = rows[k].orig
  BY DEF Keeps, Ahead, OnIn, Added
<1> QED
  BY <1>1 DEF FollowsIn

(* A series changes only with its revision. *)
Revised(sr, sr2) ==
    /\ DOMAIN sr \subseteq DOMAIN sr2
    /\ \A k \in DOMAIN sr : sr2[k] = sr[k] \/ sr[k].rev < sr2[k].rev

LEMMA PlanKept ==
  ASSUME NEW q, NEW sr \in Seq(SeriesRow), NEW sr2 \in Seq(SeriesRow), NEW rows, NEW out, NEW gone,
         NEW t \in Nat, NEW t2 \in Nat, t <= t2, q.at \in Nat,
         CallOK(q, sr, rows, t), Keeps(rows, out, gone), Revised(sr, sr2),
         \A i \in Added(rows, out) :
            \/ out[i].alone \/ out[i].series \notin DOMAIN sr
            \/ sr[out[i].series].rev < sr2[out[i].series].rev
  PROVE  CallOK(q, sr2, out, t2)
<1> SUFFICES ASSUME q.pc # "idle"
             PROVE  CallOK(q, sr2, out, t2)
  BY DEF CallOK
<1>1. q.at <= t2
  BY DEF CallOK
<1>2. q.kind # "create" => q.id \in DOMAIN sr /\ q.id \in DOMAIN sr2
  BY DEF CallOK, Revised
<1>3. q.kind \in {"cancel", "move"} =>
         /\ q.row \in DOMAIN rows /\ q.row \in DOMAIN out
         /\ out[q.row].series = q.id /\ out[q.row].orig = rows[q.row].orig
  BY DEF CallOK, Keeps
<1>4. ASSUME q.pc = "write"
      PROVE  PlanOf(q, sr2, out)
  <2>1. PlanOf(q, sr, rows)
    BY <1>4 DEF CallOK
  <2>2. ASSUME q.kind # "create"
        PROVE  /\ q.seen \in SeriesRow /\ q.seen.rev <= sr2[q.id].rev
               /\ q.seen.rev = sr2[q.id].rev => /\ sr2[q.id] = sr[q.id] /\ q.seen = sr[q.id]
                                                /\ ~ (sr[q.id].rev < sr2[q.id].rev)
    <3>1. q.seen \in SeriesRow /\ q.seen.rev <= sr[q.id].rev
          /\ (q.seen.rev = sr[q.id].rev => q.seen = sr[q.id])
      BY <2>1, <2>2 DEF PlanOf
    <3>2. sr[q.id] \in SeriesRow /\ sr2[q.id] \in SeriesRow
      BY <1>2, <2>2
    <3>3. q.seen.rev \in Nat /\ sr[q.id].rev \in Nat /\ sr2[q.id].rev \in Nat
      BY <3>1, <3>2 DEF SeriesRow
    <3>4. sr2[q.id] = sr[q.id] \/ sr[q.id].rev < sr2[q.id].rev
      BY <1>2, <2>2 DEF Revised
    <3>5. CASE sr2[q.id] = sr[q.id]
      BY <3>1, <3>3, <3>5
    <3>6. CASE sr[q.id].rev < sr2[q.id].rev
      <4>1. q.seen.rev <= sr2[q.id].rev /\ q.seen.rev # sr2[q.id].rev
        BY <3>1, <3>3, <3>6
      <4> QED
        BY <3>1, <4>1
    <3> QED
      BY <3>4, <3>5, <3>6
  <2>3. ASSUME q.kind = "move", q.seen.rev = sr2[q.id].rev
        PROVE  SeenCovers(q, out)
    <3>1. SeenCovers(q, rows)
      BY <2>1, <2>2, <2>3 DEF PlanOf
    <3> SUFFICES ASSUME NEW i \in DOMAIN out,
                        out[i].status = "on", out[i].series = q.id, out[i].at > q.at, ~ out[i].alone,
                        out[i].orig >= CutFor(q.seen, q.scope, out[q.row].orig, q.at)
                 PROVE  i \in q.replacing
      BY DEF SeenCovers
    <3>2. i \in DOMAIN rows
      BY <1>2, <2>2, <2>3 DEF Added
    <3>3. /\ rows[i].status = "on" /\ rows[i].series = q.id /\ rows[i].at > q.at /\ ~ rows[i].alone
          /\ rows[i].orig >= CutFor(q.seen, q.scope, rows[q.row].orig, q.at)
      BY <1>3, <2>3, <3>2 DEF Keeps
    <3> QED
      BY <3>1, <3>2, <3>3 DEF SeenCovers
  <2>4. q.kind = "move" =>
          /\ q.seen.status # "cancelled"
          /\ CutFor(q.seen, q.scope, out[q.row].orig, q.at) # NoCut
    <3>1. q.kind = "move" => out[q.row].orig = rows[q.row].orig
      BY <1>3
    <3> QED
      BY <2>1, <3>1 DEF PlanOf
  <2> QED
    BY <2>1, <2>2, <2>3, <2>4 DEF PlanOf
<1> QED
  BY <1>1, <1>2, <1>3, <1>4 DEF CallOK

-----------------------------------------------------------------------------
(* Planning: the call's plan is right when it is made. *)

Ready(q, seen, plan, replacing) ==
    [q EXCEPT !.pc = "write", !.seen = seen, !.replacing = replacing,
              !.kept = plan.kept, !.skipped = plan.skipped]

LEMMA ReadyFields ==
  ASSUME NEW q \in CallT, NEW seen \in SeriesRow \cup {NoCall.seen}, NEW plan,
         plan.kept \in SUBSET Slots, plan.skipped \in SUBSET Slots, NEW replacing \in SUBSET Nat
  PROVE  LET n == Ready(q, seen, plan, replacing) IN
         /\ n \in CallT /\ n.pc = "write" /\ n.kind = q.kind /\ n.id = q.id /\ n.row = q.row
         /\ n.scope = q.scope /\ n.to = q.to /\ n.until = q.until /\ n.at = q.at
         /\ n.seen = seen /\ n.replacing = replacing /\ n.kept = plan.kept
  BY DEF Ready, CallT

LEMMA NoCallIsCall ==
  ASSUME Bounds
  PROVE  NoCall \in CallT /\ NoCall.pc = "idle"
<1>1. 0 \in 0 .. Last /\ 0 \in 0 .. MaxSeries /\ NoCall.seen \in SeriesRow \cup {NoCall.seen}
  BY DEF Bounds
<1> QED
  BY <1>1 DEF NoCall, CallT, Kinds, Scopes, NoSeries

LEMMA CallFiled ==
  ASSUME SeriesInv, UNCHANGED <<seriesNow, series, row>>, NEW c \in Callers, NEW n \in CallT,
         seriesCall' = [seriesCall EXCEPT ![c] = n], CallOK(n, series, row, seriesNow)
  PROVE  SeriesInv'
<1>1. Typed'
  BY DEF SeriesInv, Typed
<1>2. Owned' /\ NoOverlap'
  BY DEF SeriesInv, Owned, NoOverlap, On
<1>3. Follows'
  BY DEF SeriesInv, Follows, FollowsIn, Ahead, OnIn
<1>4. Planful'
  <2> SUFFICES ASSUME NEW e \in Callers
               PROVE  CallOK(seriesCall'[e], series, row, seriesNow)
    BY DEF Planful
  <2>1. CallOK(seriesCall[e], series, row, seriesNow)
    BY DEF SeriesInv, Planful
  <2>2. seriesCall'[e] = IF e = c THEN n ELSE seriesCall[e]
    BY DEF SeriesInv, Typed
  <2> QED
    BY <2>1, <2>2
<1> QED
  BY <1>1, <1>2, <1>3, <1>4 DEF SeriesInv

LEMMA CallEnded ==
  ASSUME Bounds, SeriesInv, UNCHANGED <<seriesNow, series, row>>, NEW c \in Callers, CallEnds(c)
  PROVE  SeriesInv'
<1>1. NoCall \in CallT /\ NoCall.pc = "idle"
  BY NoCallIsCall
<1>2. CallOK(NoCall, series, row, seriesNow)
  BY <1>1 DEF CallOK
<1> QED
  BY <1>1, <1>2, CallFiled DEF CallEnds

(* The dates of a plan are the rule's, before the horizon. *)
LEMMA PlanDates ==
  ASSUME Bounds, NEW start \in Slots, NEW until \in 0 .. Last, NEW at \in 0 .. Last, NEW replacing
  PROVE  LET p == Plan([start |-> start, until |-> until], at, replacing) IN
         /\ p.kept \in SUBSET Slots /\ p.skipped \in SUBSET Slots
         /\ \A d \in p.kept : Gives(start, until, d) /\ d < Later(at, start) + Horizon
<1> DEFINE rule == [start |-> start, until |-> until]
           dates == Dates(rule, 0, Later(at, start) + Horizon)
           p == Plan(rule, at, replacing)
<1>1. rule.start = start /\ rule.until = until
  OBVIOUS
<1>2. Later(at, start) + Horizon \in Nat
  BY DEF Later, Slots, Bounds
<1>3. \A d \in dates : d \in Slots /\ Gives(start, until, d) /\ d < Later(at, start) + Horizon
  <2> TAKE d \in dates
  <2> HIDE DEF rule
  <2> QED
    BY <1>1, <1>2, DatesGive
<1>4. p.kept \in SUBSET dates /\ p.skipped \in SUBSET dates
  BY <1>1 DEF Plan
<1> HIDE DEF p, dates
<1>5. /\ p.kept \in SUBSET Slots /\ p.skipped \in SUBSET Slots
      /\ \A d \in p.kept : Gives(start, until, d) /\ d < Later(at, start) + Horizon
  BY <1>3, <1>4
<1> QED
  BY <1>5 DEF p

LEMMA CreatePlans ==
  ASSUME Bounds, SeriesInv, UNCHANGED <<seriesNow, series, row>>, NEW c \in Callers, NEW q \in CallT,
         q.kind = "create", q.to \in Slots, q.at <= seriesNow, PlanCreate(c, q)
  PROVE  SeriesInv'
<1> DEFINE plan == Plan([start |-> q.to, until |-> q.until], q.at, {})
           n == Ready(q, NoCall.seen, plan, {})
<1>1. q.until \in 0 .. Last /\ q.at \in 0 .. Last
  BY DEF CallT
<1>2. /\ plan.kept \in SUBSET Slots /\ plan.skipped \in SUBSET Slots
      /\ \A d \in plan.kept : Gives(q.to, q.until, d) /\ d < Later(q.at, q.to) + Horizon
  BY <1>1, PlanDates
<1>3. seriesCall' = [seriesCall EXCEPT ![c] = n]
  BY DEF PlanCreate, Planned, Ready
<1> HIDE DEF plan
<1>4. /\ n \in CallT /\ n.pc = "write" /\ n.kind = "create" /\ n.to = q.to /\ n.until = q.until
      /\ n.at = q.at /\ n.kept = plan.kept
  BY <1>2, ReadyFields
<1> HIDE DEF n
<1>5. PlanOf(n, series, row)
  BY <1>2, <1>4 DEF PlanOf, PlannedDate
<1>6. CallOK(n, series, row, seriesNow)
  BY <1>4, <1>5 DEF CallOK
<1> QED
  BY <1>3, <1>4, <1>6, CallFiled

LEMMA SeriesTyped ==
  ASSUME Bounds, Typed, NEW id \in DOMAIN series
  PROVE  /\ series[id] \in SeriesRow /\ id \in 1 .. MaxSeries /\ id # NoSeries
         /\ series[id].start \in Slots /\ series[id].until \in 0 .. Last
         /\ series[id].mat \in 0 .. Last + Horizon /\ series[id].rev \in Nat
         /\ series[id].end \in 0 .. Last
<1>1. series \in Seq(SeriesRow) /\ Len(series) <= MaxSeries
  BY DEF Typed
<1>2. series[id] \in SeriesRow /\ id \in 1 .. Len(series) /\ Len(series) \in Nat
  BY <1>1
<1>3. id \in 1 .. MaxSeries
  BY <1>1, <1>2 DEF Bounds
<1> QED
  BY <1>2, <1>3 DEF SeriesRow, NoSeries

LEMMA ExtendPlans ==
  ASSUME Bounds, SeriesInv, UNCHANGED <<seriesNow, series, row>>, NEW c \in Callers, NEW q \in CallT,
         q.kind = "extend", q.id \in DOMAIN series, q.at <= seriesNow, q.pc = "idle", PlanExtend(c, q)
  PROVE  SeriesInv'
<1> DEFINE s == series[q.id]
           dates == Dates(s, Later(s.mat, q.at), q.at + Horizon)
           plan == [kept |-> dates, skipped |-> {}]
           n == Ready(q, s, plan, {})
<1>0. Typed
  BY DEF SeriesInv
<1>1. /\ s \in SeriesRow /\ s.start \in Slots /\ s.until \in 0 .. Last
      /\ s.mat \in 0 .. Last + Horizon /\ s.rev \in Nat
  BY <1>0, SeriesTyped
<1>2. q.at \in 0 .. Last
  BY DEF CallT
<1>3. seriesCall' = [seriesCall EXCEPT ![c] = n] /\ Due(s, q.at)
  BY DEF PlanExtend, Planned, Ready
<1> HIDE DEF s
<1>4. Later(s.mat, q.at) \in Nat /\ q.at + Horizon \in Nat /\ s.mat <= Later(s.mat, q.at)
  BY <1>1, <1>2 DEF Later, Bounds
<1>5. \A d \in dates : /\ d \in Slots /\ Gives(s.start, s.until, d)
                       /\ Later(s.mat, q.at) <= d /\ d < q.at + Horizon
  BY <1>1, <1>4, DatesGive
<1> HIDE DEF dates
<1>6. \A d \in dates : Gives(s.start, s.until, d) /\ s.mat <= d /\ d < q.at + Horizon
  <2> TAKE d \in dates
  <2>1. d \in Nat
    BY <1>5 DEF Slots
  <2> QED
    BY <1>1, <1>4, <1>5, <2>1
<1>7. plan.kept = dates /\ plan.kept \in SUBSET Slots /\ plan.skipped \in SUBSET Slots
  BY <1>5
<1> HIDE DEF plan
<1>8. /\ n \in CallT /\ n.pc = "write" /\ n.kind = "extend" /\ n.id = q.id
      /\ n.at = q.at /\ n.kept = dates /\ n.seen = s
  BY <1>1, <1>7, ReadyFields
<1> HIDE DEF n
<1>9. s.mat <= q.at + Horizon /\ s.status = "active"
  BY <1>1, <1>2, <1>3 DEF Due, Bounds
<1>10. PlanOf(n, series, row)
  <2>1. \A d \in n.kept : PlannedDate(n, d)
    BY <1>6, <1>8 DEF PlannedDate
  <2>2. n.seen.rev <= series[n.id].rev /\ n.seen = series[n.id]
    BY <1>1, <1>8 DEF s
  <2> QED
    BY <1>1, <1>8, <1>9, <2>1, <2>2 DEF PlanOf
<1>11. CallOK(n, series, row, seriesNow)
  BY <1>8, <1>10 DEF CallOK
<1> QED
  BY <1>3, <1>8, <1>11, CallFiled

LEMMA CancelPlans ==
  ASSUME Bounds, SeriesInv, UNCHANGED <<seriesNow, series, row>>, NEW c \in Callers, NEW q \in CallT,
         q.kind = "cancel", q.id \in DOMAIN series, q.row \in DOMAIN row, row[q.row].series = q.id,
         q.at <= seriesNow, PlanCancel(c, q)
  PROVE  SeriesInv'
<1> DEFINE s == series[q.id]
           plan == [kept |-> {}, skipped |-> {}]
           n == Ready(q, s, plan, {})
<1>0. Typed
  BY DEF SeriesInv
<1>1. s \in SeriesRow /\ s.rev \in Nat
  BY <1>0, SeriesTyped
<1>3. seriesCall' = [seriesCall EXCEPT ![c] = n]
  BY DEF PlanCancel, Planned, Ready
<1> HIDE DEF s
<1>7. plan.kept = {} /\ plan.kept \in SUBSET Slots /\ plan.skipped \in SUBSET Slots
  OBVIOUS
<1> HIDE DEF plan
<1>8. /\ n \in CallT /\ n.pc = "write" /\ n.kind = "cancel" /\ n.id = q.id /\ n.row = q.row
      /\ n.at = q.at /\ n.kept = {} /\ n.seen = s
  BY <1>1, <1>7, ReadyFields
<1> HIDE DEF n
<1>10. PlanOf(n, series, row)
  <2>2. n.seen.rev <= series[n.id].rev /\ n.seen = series[n.id]
    BY <1>1, <1>8 DEF s
  <2> QED
    BY <1>1, <1>8, <2>2 DEF PlanOf
<1>11. CallOK(n, series, row, seriesNow)
  BY <1>8, <1>10 DEF CallOK
<1> QED
  BY <1>3, <1>8, <1>11, CallFiled

LEMMA MovePlans ==
  ASSUME Bounds, SeriesInv, UNCHANGED <<seriesNow, series, row>>, NEW c \in Callers, NEW q \in CallT,
         q.kind = "move", q.id \in DOMAIN series, q.row \in DOMAIN row, row[q.row].series = q.id,
         q.to \in Slots, q.at <= seriesNow, PlanMove(c, q)
  PROVE  SeriesInv'
<1> DEFINE s == series[q.id]
           replacing == Replacing(q, s)
           plan == Plan([start |-> q.to, until |-> s.until], q.at, replacing)
           n == Ready(q, s, plan, replacing)
<1>0. Typed
  BY DEF SeriesInv
<1>1. s \in SeriesRow /\ s.rev \in Nat /\ s.until \in 0 .. Last
  BY <1>0, SeriesTyped
<1>2. q.at \in 0 .. Last
  BY DEF CallT
<1>3. /\ seriesCall' = [seriesCall EXCEPT ![c] = n] /\ s.status # "cancelled" /\ Pivot(q, s) # NoCut
  BY DEF PlanMove, Planned, Ready
<1>4. replacing \in SUBSET Nat
  <2>1. DOMAIN row = 1 .. Len(row) /\ Len(row) \in Nat
    BY <1>0 DEF Typed
  <2> QED
    BY <2>1 DEF Replacing, On
<1>5. \A i \in DOMAIN row :
        row[i].status = "on" /\ row[i].series = q.id /\ row[i].at > q.at /\ row[i].orig >= Pivot(q, s)
        => i \in replacing
  BY DEF Replacing, On
<1>11. series[q.id] = s
  OBVIOUS
<1> HIDE DEF s, replacing
<1>6. /\ plan.kept \in SUBSET Slots /\ plan.skipped \in SUBSET Slots
      /\ \A d \in plan.kept : Gives(q.to, s.until, d) /\ d < Later(q.at, q.to) + Horizon
  BY <1>1, <1>2, PlanDates
<1> HIDE DEF plan
<1>8. /\ n \in CallT /\ n.pc = "write" /\ n.kind = "move" /\ n.id = q.id /\ n.row = q.row
      /\ n.scope = q.scope /\ n.to = q.to /\ n.at = q.at /\ n.kept = plan.kept /\ n.seen = s
      /\ n.replacing = replacing
  BY <1>1, <1>4, <1>6, ReadyFields
<1> HIDE DEF n
<1>7. Pivot(q, s) = CutFor(n.seen, n.scope, row[n.row].orig, n.at)
  BY <1>8 DEF Pivot
<1>9. PlanOf(n, series, row)
  <2>1. \A d \in n.kept : PlannedDate(n, d)
    BY <1>6, <1>8 DEF PlannedDate
  <2>2. n.seen.rev <= series[n.id].rev /\ n.seen = series[n.id]
    BY <1>1, <1>8, <1>11
  <2>3. SeenCovers(n, row)
    BY <1>5, <1>7, <1>8 DEF SeenCovers
  <2> QED
    BY <1>1, <1>3, <1>7, <1>8, <2>1, <2>2, <2>3 DEF PlanOf
<1>10. CallOK(n, series, row, seriesNow)
  BY <1>8, <1>9 DEF CallOK
<1> QED
  BY <1>3, <1>8, <1>10, CallFiled

CreateArgs(q, to, until) == [q EXCEPT !.to = to, !.until = until]
CancelArgs(q, id, i, scope) == [q EXCEPT !.id = id, !.row = i, !.scope = scope]
MoveArgs(q, id, i, scope, to) == [q EXCEPT !.id = id, !.row = i, !.scope = scope, !.to = to]

LEMMA ArgsFields ==
  ASSUME NEW q \in CallT, NEW id \in 0 .. MaxSeries, NEW i \in Nat, NEW scope \in Scopes,
         NEW to \in 0 .. Last, NEW until \in 0 .. Last
  PROVE  /\ LET m == CreateArgs(q, to, until) IN
            m \in CallT /\ m.kind = q.kind /\ m.at = q.at /\ m.to = to
         /\ LET m == CancelArgs(q, id, i, scope) IN
            m \in CallT /\ m.kind = q.kind /\ m.at = q.at /\ m.id = id /\ m.row = i
         /\ LET m == MoveArgs(q, id, i, scope, to) IN
            /\ m \in CallT /\ m.kind = q.kind /\ m.at = q.at /\ m.id = id /\ m.row = i
            /\ m.to = to
<1>1. LET m == CreateArgs(q, to, until) IN
      m \in CallT /\ m.kind = q.kind /\ m.at = q.at /\ m.to = to
  BY DEF CallT, CreateArgs
<1>2. LET m == CancelArgs(q, id, i, scope) IN
      m \in CallT /\ m.kind = q.kind /\ m.at = q.at /\ m.id = id /\ m.row = i
  BY DEF CallT, CancelArgs
<1>3. LET m == MoveArgs(q, id, i, scope, to) IN
      m \in CallT /\ m.kind = q.kind /\ m.at = q.at /\ m.id = id /\ m.row = i /\ m.to = to
  BY DEF CallT, MoveArgs
<1> QED
  BY <1>1, <1>2, <1>3

(* A call whose write was stale reads again. *)
Retry(q, tries) == [q EXCEPT !.pc = "read", !.tries = tries]

LEMMA RetryFields ==
  ASSUME NEW q \in CallT, NEW tries \in Nat
  PROVE  LET n == Retry(q, tries) IN
         /\ n \in CallT /\ n.pc = "read" /\ n.kind = q.kind /\ n.id = q.id /\ n.row = q.row
         /\ n.at = q.at /\ n.to = q.to
  BY DEF CallT, Retry

(* A call that gets as far as planning, with what it is about. *)
IsOf(q) == q.id \in DOMAIN series /\ q.row \in DOMAIN row /\ row[q.row].series = q.id

PlansAs(c, q) ==
    \/ q.kind = "create" /\ q.to \in Slots /\ PlanCreate(c, q)
    \/ q.kind = "extend" /\ q.pc = "idle" /\ q.id \in DOMAIN series /\ PlanExtend(c, q)
    \/ q.kind = "cancel" /\ IsOf(q) /\ PlanCancel(c, q)
    \/ q.kind = "move" /\ q.to \in Slots /\ IsOf(q) /\ PlanMove(c, q)

LEMMA PlanKeeps ==
  ASSUME Bounds, SeriesInv, UNCHANGED <<seriesNow, series, row>>, NEW c \in Callers, NEW q \in CallT,
         q.at <= seriesNow, PlansAs(c, q)
  PROVE  SeriesInv'
<1>1. CASE q.kind = "create" /\ q.to \in Slots /\ PlanCreate(c, q)
  BY <1>1, CreatePlans
<1>2. CASE q.kind = "extend" /\ q.pc = "idle" /\ q.id \in DOMAIN series /\ PlanExtend(c, q)
  BY <1>2, ExtendPlans
<1>3. CASE q.kind = "cancel" /\ IsOf(q) /\ PlanCancel(c, q)
  BY <1>3, CancelPlans DEF IsOf
<1>4. CASE q.kind = "move" /\ q.to \in Slots /\ IsOf(q) /\ PlanMove(c, q)
  BY <1>4, MovePlans DEF IsOf
<1> QED
  BY <1>1, <1>2, <1>3, <1>4 DEF PlansAs

LEMMA StartPlans ==
  ASSUME Bounds, SeriesInv, NEW c \in Callers, StartCall(c)
  PROVE  /\ UNCHANGED <<seriesNow, series, row>>
         /\ \E q \in CallT : q.at <= seriesNow /\ PlansAs(c, q)
<1>0. Typed /\ seriesNow \in 0 .. Last /\ UNCHANGED <<seriesNow, series, row>>
  BY DEF SeriesInv, Typed, StartCall, StartCreate, StartExtend, StartCancel, StartMove, CallStarts
<1>1. ASSUME NEW i \in DOMAIN row, row[i].series # NoSeries
      PROVE  row[i].series \in DOMAIN series /\ row[i].series \in 0 .. MaxSeries /\ i \in Nat
  <2>1. i \in Nat
    BY <1>0, <1>1 DEF Typed
  <2> QED
    BY <1>0, <1>1, <2>1, SeriesTyped DEF SeriesInv, Owned
<1>2. NoCall \in CallT /\ NoCall.pc = "idle" /\ NoCall.kind = "create"
  BY NoCallIsCall DEF NoCall
<1>3. \A kind \in Kinds : /\ Args(kind) \in CallT /\ Args(kind).pc = "idle"
                          /\ Args(kind).kind = kind /\ Args(kind).at = seriesNow
  <2> HIDE DEF NoCall
  <2> QED
    BY <1>0, <1>2 DEF Args, CallT
<1>4. "create" \in Kinds /\ "extend" \in Kinds /\ "cancel" \in Kinds /\ "move" \in Kinds
  BY DEF Kinds
<1>5. seriesNow <= seriesNow
  BY <1>0 DEF Bounds
<1> HIDE DEF Args
<1>6. CASE StartCreate(c)
  <2>1. PICK start \in Firsts, until \in Untils :
          PlanCreate(c, [Args("create") EXCEPT !.to = start, !.until = until])
    BY <1>6 DEF StartCreate
  <2> DEFINE q == CreateArgs(Args("create"), start, until)
  <2>2. start \in Slots /\ until \in Slots /\ start \in 0 .. Last /\ until \in 0 .. Last
    BY DEF Bounds, Slots
  <2>5. Args("create") \in CallT /\ Args("create").kind = "create" /\ Args("create").at = seriesNow
    BY <1>3, <1>4
  <2>3. q \in CallT /\ q.kind = "create" /\ q.to = start /\ q.at = seriesNow
    <3>1. 0 \in 0 .. MaxSeries /\ 0 \in Nat /\ "series" \in Scopes
      BY DEF Bounds, Scopes
    <3> QED
      BY <2>2, <2>5, <3>1, ArgsFields
  <2>4. PlanCreate(c, q)
    BY <2>1 DEF CreateArgs
  <2> HIDE DEF q
  <2> QED
    BY <1>0, <1>5, <2>2, <2>3, <2>4 DEF PlansAs, IsOf
<1>7. CASE StartExtend(c)
  <2>1. PICK id \in DOMAIN series : PlanExtend(c, [Args("extend") EXCEPT !.id = id])
    BY <1>7 DEF StartExtend
  <2> DEFINE q == [Args("extend") EXCEPT !.id = id]
  <2>2. id \in 0 .. MaxSeries
    BY <1>0, SeriesTyped
  <2>3. q \in CallT /\ q.kind = "extend" /\ q.id = id /\ q.at = seriesNow /\ q.pc = "idle"
    BY <1>3, <1>4, <2>2 DEF CallT
  <2>4. PlanExtend(c, q)
    BY <2>1
  <2> HIDE DEF q
  <2> QED
    BY <1>0, <1>5, <2>3, <2>4 DEF PlansAs, IsOf
<1>8. CASE StartCancel(c)
  <2>1. PICK i \in DOMAIN row, scope \in Scopes :
          /\ row[i].series # NoSeries
          /\ PlanCancel(c, [Args("cancel") EXCEPT !.id = row[i].series, !.row = i, !.scope = scope])
    BY <1>8 DEF StartCancel
  <2> DEFINE q == CancelArgs(Args("cancel"), row[i].series, i, scope)
  <2>2. row[i].series \in DOMAIN series /\ row[i].series \in 0 .. MaxSeries /\ i \in Nat
    BY <1>1, <2>1
  <2>5. Args("cancel") \in CallT /\ Args("cancel").kind = "cancel" /\ Args("cancel").at = seriesNow
    BY <1>3, <1>4
  <2>3. /\ q \in CallT /\ q.kind = "cancel" /\ q.id = row[i].series /\ q.row = i /\ q.at = seriesNow
    <3>1. 0 \in 0 .. Last
      BY DEF Bounds
    <3> QED
      BY <2>2, <2>5, <3>1, ArgsFields
  <2>4. PlanCancel(c, q)
    BY <2>1 DEF CancelArgs
  <2> HIDE DEF q
  <2> QED
    BY <1>0, <1>5, <2>2, <2>3, <2>4 DEF PlansAs, IsOf
<1>9. CASE StartMove(c)
  <2>1. PICK i \in DOMAIN row, scope \in Scopes, to \in Slots :
          /\ row[i].series # NoSeries
          /\ PlanMove(c, [Args("move") EXCEPT !.id = row[i].series, !.row = i,
                                              !.scope = scope, !.to = to])
    BY <1>9 DEF StartMove
  <2> DEFINE q == MoveArgs(Args("move"), row[i].series, i, scope, to)
  <2>2. /\ row[i].series \in DOMAIN series /\ row[i].series \in 0 .. MaxSeries /\ i \in Nat
        /\ to \in 0 .. Last
    BY <1>1, <2>1 DEF Slots, Bounds
  <2>5. Args("move") \in CallT /\ Args("move").kind = "move" /\ Args("move").at = seriesNow
    BY <1>3, <1>4
  <2>3. /\ q \in CallT /\ q.kind = "move" /\ q.id = row[i].series /\ q.row = i /\ q.at = seriesNow
        /\ q.to = to
    BY <2>2, <2>5, ArgsFields
  <2>4. PlanMove(c, q)
    BY <2>1 DEF MoveArgs
  <2> HIDE DEF q
  <2> QED
    BY <1>0, <1>5, <2>2, <2>3, <2>4 DEF PlansAs, IsOf
<1> QED
  BY <1>6, <1>7, <1>8, <1>9 DEF StartCall

LEMMA AgainPlans ==
  ASSUME Bounds, SeriesInv, NEW c \in Callers, Again(c)
  PROVE  /\ UNCHANGED <<seriesNow, series, row>>
         /\ CallEnds(c) \/ \E q \in CallT : q.at <= seriesNow /\ PlansAs(c, q)
<1> DEFINE q == seriesCall[c]
<1>1. /\ q.pc = "read" /\ UNCHANGED <<seriesNow, series, row>>
      /\ \/ q.kind = "cancel" /\ PlanCancel(c, q)
         \/ q.kind # "cancel" /\ PlanMove(c, q)
         \/ CallEnds(c)
  BY DEF Again, Call
<1>2. q \in CallT /\ CallOK(q, series, row, seriesNow)
  BY DEF SeriesInv, Typed, Planful
<1>3. /\ q.kind \in {"cancel", "move"} /\ q.id \in DOMAIN series
      /\ q.row \in DOMAIN row /\ row[q.row].series = q.id /\ q.at <= seriesNow
      /\ q.kind = "move" => q.to \in Slots
  BY <1>1, <1>2 DEF CallOK
<1> HIDE DEF q
<1>4. CASE q.kind = "cancel" /\ PlanCancel(c, q)
  BY <1>1, <1>2, <1>3, <1>4 DEF PlansAs, IsOf
<1>5. CASE q.kind # "cancel" /\ PlanMove(c, q)
  BY <1>1, <1>2, <1>3, <1>5 DEF PlansAs, IsOf
<1> QED
  BY <1>1, <1>3, <1>4, <1>5

LEMMA CallKeeps ==
  ASSUME Bounds, SeriesInv, NEW c \in Callers, StartCall(c) \/ Again(c)
  PROVE  SeriesInv'
<1>1. UNCHANGED <<seriesNow, series, row>>
  BY StartPlans, AgainPlans
<1>2. CASE CallEnds(c)
  BY <1>1, <1>2, CallEnded
<1>3. CASE \E q \in CallT : q.at <= seriesNow /\ PlansAs(c, q)
  BY <1>1, <1>3, PlanKeeps
<1> QED
  BY <1>2, <1>3, StartPlans, AgainPlans

(* A stale write changes only its call. *)
LEMMA StaleKeeps ==
  ASSUME Bounds, SeriesInv, UNCHANGED seriesNow, NEW c \in Callers, seriesCall[c].kind \in {"cancel", "move"},
         seriesCall[c].pc = "write", Stale(c)
  PROVE  SeriesInv'
<1> DEFINE q == seriesCall[c]
           n == Retry(q, q.tries + 1)
<1>1. UNCHANGED <<seriesNow, series, row>> /\ (CallEnds(c) \/ seriesCall' = [seriesCall EXCEPT ![c] = n])
  <2>1. CASE q.tries < 3
    BY <2>1 DEF Stale, Call, Retry
  <2>2. CASE ~ (q.tries < 3)
    BY <2>2 DEF Stale, Call, CallEnds
  <2> QED
    BY <2>1, <2>2 DEF Stale
<1>2. q \in CallT /\ CallOK(q, series, row, seriesNow)
  BY DEF SeriesInv, Typed, Planful
<1> HIDE DEF q
<1>3. /\ n \in CallT /\ n.pc = "read" /\ n.kind = q.kind /\ n.id = q.id /\ n.row = q.row
      /\ n.at = q.at /\ n.to = q.to
  <2>1. q.tries + 1 \in Nat
    BY <1>2 DEF CallT
  <2> QED
    BY <1>2, <2>1, RetryFields
<1> HIDE DEF n
<1>4. CallOK(n, series, row, seriesNow)
  <2>1. q.kind \in {"cancel", "move"} /\ q.pc = "write"
    BY DEF q
  <2> QED
    BY <1>2, <1>3, <2>1 DEF CallOK
<1>5. CASE CallEnds(c)
  BY <1>1, <1>5, CallEnded
<1>6. CASE seriesCall' = [seriesCall EXCEPT ![c] = n]
  BY <1>1, <1>3, <1>4, <1>6, CallFiled
<1> QED
  BY <1>1, <1>5, <1>6

-----------------------------------------------------------------------------
(* Writing: the dates written are on the rule, apart from every booking, and *)
(* no other call's plan is taken for the present one.                      *)

(* What a write of dates of series id, in place of the rows of gone, must be. *)
WriteOK(gone, id, dates) ==
    /\ series' \in Seq(SeriesRow) /\ Len(series') <= MaxSeries /\ Revised(series, series')
    /\ id \in DOMAIN series' /\ Rewrites(row, row', gone, id, dates)
    /\ id \in DOMAIN series => series[id].rev < series'[id].rev
    /\ \A d \in dates : Fits(series'[id], d) /\ \A k \in OnIn(row) \ gone : row[k].at # d
    /\ \A i \in Ahead(row, seriesNow) \ gone :
          /\ Fits(series'[row[i].series], row[i].orig)
          /\ row[i].series = id => row[i].orig \notin dates

LEMMA WriteKeeps ==
  ASSUME Bounds, SeriesInv, seriesNow' = seriesNow, NEW c \in Callers, CallEnds(c),
         NEW gone, NEW id, NEW dates, WriteOK(gone, id, dates)
  PROVE  SeriesInv'
<1>0. Typed /\ Owned /\ Follows /\ Planful /\ NoOverlap
  BY DEF SeriesInv
<1>8. /\ series' \in Seq(SeriesRow) /\ Len(series') <= MaxSeries /\ Revised(series, series')
      /\ id \in DOMAIN series' /\ Rewrites(row, row', gone, id, dates)
      /\ id \in DOMAIN series => series[id].rev < series'[id].rev
  BY DEF WriteOK
<1>9. /\ \A d \in dates : Fits(series'[id], d) /\ \A k \in OnIn(row) \ gone : row[k].at # d
      /\ \A i \in Ahead(row, seriesNow) \ gone :
            /\ Fits(series'[row[i].series], row[i].orig)
            /\ row[i].series = id => row[i].orig \notin dates
  BY DEF WriteOK
<1>1. Keeps(row, row', gone) /\ row' \in Seq(Booking)
  BY <1>8 DEF Rewrites, Keeps
<1>2. Typed'
  <2>1. NoCall \in CallT
    BY NoCallIsCall
  <2>2. seriesCall' \in [Callers -> CallT]
    BY <1>0, <2>1 DEF Typed, CallEnds
  <2> QED
    BY <1>0, <1>1, <1>8, <2>2 DEF Typed
<1>3. \A i \in Added(row, row') :
         /\ row'[i].series = id /\ ~ row'[i].alone
         /\ row'[i].orig \in dates /\ row'[i].at = row'[i].orig
  BY <1>8 DEF Rewrites
<1>4. Owned'
  <2> SUFFICES ASSUME NEW i \in DOMAIN row', row'[i].series # NoSeries
               PROVE  row'[i].series \in DOMAIN series'
    BY DEF Owned
  <2>1. CASE i \in DOMAIN row
    BY <1>0, <1>1, <1>8, <2>1 DEF Keeps, Owned, Revised
  <2>2. CASE i \notin DOMAIN row
    BY <1>3, <1>8, <2>2 DEF Added
  <2> QED
    BY <2>1, <2>2
<1>5. Follows'
  <2>1. FollowsIn(series, row, seriesNow)
    BY <1>0 DEF Follows
  <2>2. FollowsIn(series', row', seriesNow)
    BY <1>8, <1>9, <2>1, RuleKept
  <2> QED
    BY <2>2 DEF Follows, FollowsIn, Ahead, OnIn
<1>6. NoOverlap'
  <2>1. Apart(row)
    BY <1>0 DEF NoOverlap, Apart, On, OnIn
  <2>2. \A i \in Added(row, row') : \A k \in OnIn(row) \ gone : row[k].at # row'[i].at
    BY <1>3, <1>9
  <2>3. \A i, j \in Added(row, row') : i # j => row'[i].at # row'[j].at
    BY <1>3, <1>8 DEF Rewrites
  <2>4. Apart(row')
    BY <1>1, <2>1, <2>2, <2>3, ApartKept
  <2> QED
    BY <2>4 DEF NoOverlap, Apart, On, OnIn
<1>7. Planful'
  <2> SUFFICES ASSUME NEW e \in Callers
               PROVE  CallOK(seriesCall'[e], series', row', seriesNow')
    BY DEF Planful
  <2>1. CASE e = c
    <3>1. seriesCall'[e] = NoCall /\ NoCall.pc = "idle"
      BY <1>0, <2>1, NoCallIsCall DEF Typed, CallEnds
    <3> QED
      BY <3>1 DEF CallOK
  <2>2. CASE e # c
    <3>1. seriesCall'[e] = seriesCall[e] /\ CallOK(seriesCall[e], series, row, seriesNow) /\ seriesCall[e] \in CallT
      BY <1>0, <2>2 DEF Typed, Planful, CallEnds
    <3>2. seriesCall[e].at \in Nat /\ seriesNow \in Nat /\ seriesNow <= seriesNow'
      BY <1>0, <3>1 DEF CallT, Typed, Bounds
    <3>3. \A i \in Added(row, row') :
             \/ row'[i].alone \/ row'[i].series \notin DOMAIN series
             \/ series[row'[i].series].rev < series'[row'[i].series].rev
      BY <1>3, <1>8
    <3>4. series \in Seq(SeriesRow)
      BY <1>0 DEF Typed
    <3>5. CallOK(seriesCall[e], series', row', seriesNow')
      BY <1>1, <1>8, <3>1, <3>2, <3>3, <3>4, PlanKept
    <3> QED
      BY <3>1, <3>5
  <2> QED
    BY <2>1, <2>2
<1> QED
  BY <1>2, <1>4, <1>5, <1>6, <1>7 DEF SeriesInv

(* Dates found clear are those still free. *)
LEMMA ClearIsFree ==
  ASSUME NEW dates, NEW id, NEW rev, NEW gone
  PROVE  /\ Clear(dates, id, rev, gone) \in SUBSET dates
         /\ \A d \in Clear(dates, id, rev, gone) : \A k \in OnIn(row) \ gone : row[k].at # d
  BY DEF Clear, Taken, On, OnIn

(* The dates to come, and the series they are of. *)
LEMMA AheadFits ==
  ASSUME Bounds, SeriesInv, NEW i \in Ahead(row, seriesNow)
  PROVE  /\ i \in DOMAIN row /\ row[i].series \in DOMAIN series /\ ~ row[i].alone
         /\ row[i].status = "on" /\ row[i].at > seriesNow /\ row[i].at \in Nat
         /\ row[i].orig \in Slots /\ Fits(series[row[i].series], row[i].orig)
<1>1. i \in DOMAIN row /\ row \in Seq(Booking)
  BY DEF Ahead, OnIn, SeriesInv, Typed
<1>2. row[i] \in Booking
  BY <1>1
<1>3. row[i].at \in Nat /\ row[i].orig \in Slots
  BY <1>2 DEF Booking, Slots
<1>4. row[i].series \in DOMAIN series
  BY <1>1 DEF SeriesInv, Owned, Ahead
<1> QED
  BY <1>1, <1>3, <1>4 DEF SeriesInv, Follows, FollowsIn, Ahead, OnIn

(* A series written in place of itself. *)
LEMMA SeriesChanged ==
  ASSUME Bounds, Typed, NEW id \in DOMAIN series, NEW s \in SeriesRow, series[id].rev < s.rev,
         series' = [series EXCEPT ![id] = s]
  PROVE  /\ series' \in Seq(SeriesRow) /\ Len(series') <= MaxSeries /\ Revised(series, series')
         /\ DOMAIN series' = DOMAIN series /\ series'[id] = s
         /\ \A k \in DOMAIN series : k # id => series'[k] = series[k]
<1>1. series \in Seq(SeriesRow) /\ Len(series) <= MaxSeries
  BY DEF Typed
<1>2. /\ DOMAIN series' = DOMAIN series /\ series'[id] = s
      /\ \A k \in DOMAIN series : k # id => series'[k] = series[k]
  BY <1>1
<1>3. series' \in Seq(SeriesRow) /\ Len(series') = Len(series)
  BY <1>1, ExceptSeq
<1> QED
  BY <1>1, <1>2, <1>3 DEF Revised

(* A series added after those of sr. *)
LEMMA SeriesAdded ==
  ASSUME Bounds, NEW sr \in Seq(SeriesRow), NEW s \in SeriesRow, Len(sr) + 1 <= MaxSeries
  PROVE  /\ Append(sr, s) \in Seq(SeriesRow) /\ Len(Append(sr, s)) <= MaxSeries
         /\ Len(sr) + 1 \in DOMAIN Append(sr, s) /\ Len(sr) + 1 \notin DOMAIN sr
         /\ Len(sr) + 1 \in 0 .. MaxSeries
         /\ DOMAIN sr \subseteq DOMAIN Append(sr, s)
         /\ Append(sr, s)[Len(sr) + 1] = s
         /\ \A k \in DOMAIN sr : Append(sr, s)[k] = sr[k]
<1> DEFINE out == Append(sr, s)
<1>1. /\ out \in Seq(SeriesRow) /\ Len(out) = Len(sr) + 1 /\ out[Len(sr) + 1] = s
      /\ \A k \in 1 .. Len(sr) : out[k] = sr[k]
  BY AppendProperties
<1>2. DOMAIN sr = 1 .. Len(sr) /\ Len(sr) \in Nat
  OBVIOUS
<1> HIDE DEF out
<1>3. DOMAIN out = 1 .. Len(sr) + 1
  BY <1>1
<1>4. /\ out \in Seq(SeriesRow) /\ Len(out) <= MaxSeries
      /\ Len(sr) + 1 \in DOMAIN out /\ Len(sr) + 1 \notin DOMAIN sr
      /\ Len(sr) + 1 \in 0 .. MaxSeries
      /\ DOMAIN sr \subseteq DOMAIN out
      /\ out[Len(sr) + 1] = s
      /\ \A k \in DOMAIN sr : out[k] = sr[k]
  BY <1>1, <1>2, <1>3 DEF Bounds
<1> QED
  BY <1>4 DEF out

LEMMA CreateKeeps ==
  ASSUME Bounds, SeriesInv, NEW c \in Callers, WriteCreate(c)
  PROVE  SeriesInv'
<1> DEFINE q == seriesCall[c]
           id == Len(series) + 1
           clear == Clear(q.kept, id, 0, {})
           s == [status |-> "active", start |-> q.to, until |-> q.until, end |-> q.until,
                 mat |-> Later(q.at, q.to) + Horizon,
                 skipped |-> q.skipped \cup (q.kept \ clear), rev |-> 0]
<1>1. q.pc = "write" /\ q.kind = "create" /\ seriesNow' = seriesNow
  BY DEF WriteCreate, Writes
<1>2. Typed /\ q \in CallT /\ PlanOf(q, series, row) /\ q.to \in Slots
  BY <1>1 DEF SeriesInv, Typed, Planful, CallOK
<1>3. CASE MustRefuse(c, clear) /\ GivesUp(c)
  BY <1>1, <1>3, CallEnded DEF GivesUp
<1>4. ASSUME id <= MaxSeries, row' = Append1(row, id, 0, clear), series' = Append(series, s), CallEnds(c)
      PROVE  SeriesInv'
  <2>0. clear \in SUBSET q.kept /\ \A d \in clear : \A k \in OnIn(row) \ {} : row[k].at # d
    BY ClearIsFree
  <2>1. /\ q.kept \in SUBSET Slots /\ q.skipped \in SUBSET Slots /\ q.until \in 0 .. Last
        /\ q.at \in 0 .. Last
    BY <1>2 DEF CallT
  <2> HIDE DEF clear, id
  <2>2. s \in SeriesRow
    <3>1. Later(q.at, q.to) + Horizon \in 0 .. Last + Horizon
      BY <1>2, <2>1 DEF Later, Slots, Bounds
    <3> HIDE DEF q
    <3> QED
      BY <1>2, <2>1, <3>1 DEF SeriesRow
  <2>3. /\ s.start = q.to /\ s.until = q.until /\ s.mat = Later(q.at, q.to) + Horizon
        /\ s.status # "cancelled"
    OBVIOUS
  <2> HIDE DEF s
  <2>4. series \in Seq(SeriesRow)
    BY <1>2 DEF Typed
  <2>5. /\ series' \in Seq(SeriesRow) /\ Len(series') <= MaxSeries
        /\ id \in DOMAIN series' /\ id \notin DOMAIN series /\ id \in 0 .. MaxSeries
        /\ DOMAIN series \subseteq DOMAIN series' /\ series'[id] = s
        /\ \A k \in DOMAIN series : series'[k] = series[k]
    BY <1>4, <2>2, <2>4, SeriesAdded DEF id
  <2>6. Revised(series, series')
    BY <2>5 DEF Revised
  <2>7. Rewrites(row, row', {}, id, clear)
    <3>1. row \in Seq(Booking) /\ 0 \in Nat /\ clear \in SUBSET Slots
      BY <1>2, <2>0, <2>1 DEF Typed
    <3> QED
      BY <1>4, <2>5, <3>1, WriteRewrites
  <2>8. \A d \in clear : Fits(series'[id], d)
    <3>1. \A d \in q.kept : Gives(q.to, q.until, d) /\ d < Later(q.at, q.to) + Horizon
      BY <1>1, <1>2 DEF PlanOf, PlannedDate
    <3> QED
      BY <2>0, <2>3, <2>5, <3>1 DEF Fits
  <2>9. \A i \in Ahead(row, seriesNow) : /\ row[i].series \in DOMAIN series
                                         /\ Fits(series[row[i].series], row[i].orig)
    BY AheadFits
  <2>10. \A i \in Ahead(row, seriesNow) \ {} : Fits(series'[row[i].series], row[i].orig)
    BY <2>5, <2>9
  <2>11. \A i \in Ahead(row, seriesNow) \ {} : row[i].series = id => row[i].orig \notin clear
    BY <2>5, <2>9
  <2> HIDE DEF q
  <2>12. WriteOK({}, id, clear)
    BY <2>0, <2>5, <2>6, <2>7, <2>8, <2>10, <2>11 DEF WriteOK
  <2> QED
    BY <1>1, <1>4, <2>12, WriteKeeps
<1> QED
  BY <1>3, <1>4 DEF WriteCreate, Call

LEMMA ExtendKeeps ==
  ASSUME Bounds, SeriesInv, NEW c \in Callers, WriteExtend(c)
  PROVE  SeriesInv'
<1> DEFINE q == seriesCall[c]
           id == q.id
           s == q.seen
           target == q.at + Horizon
           clear == Clear(q.kept, id, s.rev + 1, {})
           status == IF Dates(s, target, Last + 1) = {} THEN "ended" ELSE "active"
           skipped == s.skipped \cup (q.kept \ clear)
           n == [series[id] EXCEPT !.mat = target, !.rev = s.rev + 1, !.skipped = skipped,
                                   !.status = status]
<1>1. q.pc = "write" /\ q.kind = "extend" /\ seriesNow' = seriesNow
  BY DEF WriteExtend, Writes
<1>2. Typed /\ q \in CallT /\ PlanOf(q, series, row) /\ id \in DOMAIN series
  BY <1>1 DEF SeriesInv, Typed, Planful, CallOK
<1>3. CASE GivesUp(c)
  BY <1>1, <1>3, CallEnded DEF GivesUp
<1>4. ASSUME SameRevision(c), row' = Append1(row, id, s.rev + 1, clear),
             series' = [series EXCEPT ![id] = n], CallEnds(c)
      PROVE  SeriesInv'
  <2>0. clear \in SUBSET q.kept /\ \A d \in clear : \A k \in OnIn(row) \ {} : row[k].at # d
    BY ClearIsFree
  <2>1. /\ q.kept \in SUBSET Slots /\ q.at \in 0 .. Last
    BY <1>2 DEF CallT
  <2>2. s = series[id] /\ s.status # "cancelled" /\ s.mat <= target
    <3>1. s.rev = series[id].rev
      BY <1>4 DEF SameRevision, Call
    <3> QED
      BY <1>1, <1>2, <3>1 DEF PlanOf
  <2>3. /\ s \in SeriesRow /\ id \in 0 .. MaxSeries /\ s.rev \in Nat /\ s.mat \in 0 .. Last + Horizon
        /\ s.skipped \in SUBSET Slots
    <3>1. s \in SeriesRow /\ id \in 0 .. MaxSeries
      BY <1>2, <2>2, SeriesTyped
    <3> QED
      BY <3>1 DEF SeriesRow
  <2>4. target \in 0 .. Last + Horizon /\ s.rev + 1 \in Nat /\ s.rev < s.rev + 1
    BY <2>1, <2>3 DEF Bounds
  <2>13. status \in {"ended", "active"} /\ skipped \in SUBSET Slots
    <3> HIDE DEF clear, q
    <3> QED
      BY <2>1, <2>3
  <2> HIDE DEF clear, target, status, skipped
  <2>5. /\ n \in SeriesRow /\ n.rev = s.rev + 1 /\ n.mat = target /\ n.start = s.start
        /\ n.until = s.until /\ n.status # "cancelled"
    <3> DEFINE u == series[id]
               m == [u EXCEPT !.mat = target, !.rev = s.rev + 1, !.skipped = skipped,
                              !.status = status]
    <3>1. u \in SeriesRow /\ u = s
      BY <2>2, <2>3
    <3>2. /\ m \in SeriesRow /\ m.rev = s.rev + 1 /\ m.mat = target /\ m.start = u.start
          /\ m.until = u.until /\ m.status # "cancelled"
      <4> HIDE DEF u, q
      <4> QED
        BY <2>4, <2>13, <3>1 DEF SeriesRow
    <3> QED
      BY <3>1, <3>2
  <2> HIDE DEF n
  <2>6. /\ series' \in Seq(SeriesRow) /\ Len(series') <= MaxSeries /\ Revised(series, series')
        /\ DOMAIN series' = DOMAIN series /\ series'[id] = n /\ series[id].rev < n.rev
        /\ \A k \in DOMAIN series : k # id => series'[k] = series[k]
    <3>1. series[id].rev < n.rev
      BY <2>2, <2>4, <2>5
    <3> HIDE DEF q
    <3> QED
      BY <1>2, <1>4, <2>5, <3>1, SeriesChanged
  <2>7. Rewrites(row, row', {}, id, clear)
    <3>1. row \in Seq(Booking) /\ clear \in SUBSET Slots
      BY <1>2, <2>0, <2>1 DEF Typed
    <3> QED
      BY <1>4, <2>3, <2>4, <3>1, WriteRewrites
  <2>8. \A d \in q.kept : Gives(s.start, s.until, d) /\ s.mat <= d /\ d < target
    BY <1>1, <1>2 DEF PlanOf, PlannedDate, target
  <2>9. \A d \in clear : Fits(series'[id], d)
    BY <2>0, <2>5, <2>6, <2>8 DEF Fits
  <2>10. \A i \in Ahead(row, seriesNow) : /\ row[i].series \in DOMAIN series /\ row[i].orig \in Slots
                                          /\ Fits(series[row[i].series], row[i].orig)
    BY AheadFits
  <2>11. \A i \in Ahead(row, seriesNow) \ {} : Fits(series'[row[i].series], row[i].orig)
    <3> SUFFICES ASSUME NEW i \in Ahead(row, seriesNow)
                 PROVE  Fits(series'[row[i].series], row[i].orig)
      OBVIOUS
    <3>1. CASE row[i].series # id
      BY <2>6, <2>10, <3>1
    <3>2. CASE row[i].series = id
      <4>1. Fits(s, row[i].orig) /\ row[i].orig \in Nat
        BY <2>2, <2>10, <3>2 DEF Slots
      <4>2. Gives(s.start, s.until, row[i].orig) /\ row[i].orig < s.mat
        BY <4>1 DEF Fits
      <4>3. row[i].orig < target
        BY <2>2, <2>3, <2>4, <4>1, <4>2
      <4> QED
        BY <2>5, <2>6, <3>2, <4>2, <4>3 DEF Fits
    <3> QED
      BY <3>1, <3>2
  <2>12. \A i \in Ahead(row, seriesNow) \ {} : row[i].series = id => row[i].orig \notin clear
    <3> SUFFICES ASSUME NEW i \in Ahead(row, seriesNow), row[i].series = id, row[i].orig \in q.kept
                 PROVE  FALSE
      BY <2>0
    <3>1. row[i].orig < s.mat /\ s.mat <= row[i].orig /\ row[i].orig \in Nat
      BY <2>2, <2>8, <2>10 DEF Fits, Slots
    <3> QED
      BY <2>3, <3>1
  <2> HIDE DEF q, id
  <2>14. WriteOK({}, id, clear)
    BY <1>2, <2>0, <2>6, <2>7, <2>9, <2>11, <2>12 DEF WriteOK
  <2> QED
    BY <1>1, <1>4, <2>14, WriteKeeps
<1>5. \/ GivesUp(c)
      \/ /\ SameRevision(c) /\ row' = Append1(row, id, s.rev + 1, clear)
         /\ series' = [series EXCEPT ![id] = n] /\ CallEnds(c)
  BY DEF WriteExtend, Call
<1> QED
  BY <1>3, <1>4, <1>5

LEMMA CancelKeeps ==
  ASSUME Bounds, SeriesInv, NEW c \in Callers, WriteCancel(c)
  PROVE  SeriesInv'
<1> DEFINE q == seriesCall[c]
           id == q.id
           s == q.seen
           cut == Pivot(q, s)
           whole == s.start > q.at /\ cut <= s.start
           trims == ~ whole /\ cut # NoCut /\ cut - 1 < s.until /\ Dates(s, cut, Last + 1) # {}
           gone == {i \in On : /\ row[i].series = id /\ row[i].at > q.at
                               /\ \/ whole \/ q.scope = "series"
                                  \/ cut # NoCut /\ row[i].orig >= cut}
           u == series[id]
           n1 == [u EXCEPT !.status = "cancelled", !.rev = s.rev + 1]
           n2 == [u EXCEPT !.until = cut - 1, !.rev = s.rev + 1, !.end = Earlier(s.end, cut - 1),
                           !.status = IF u.mat >= cut THEN "ended" ELSE u.status]
           n3 == [u EXCEPT !.rev = s.rev + 1]
           n == IF whole THEN n1 ELSE IF trims THEN n2 ELSE n3
<1>1. q.pc = "write" /\ q.kind = "cancel" /\ seriesNow' = seriesNow
  BY DEF WriteCancel, Writes
<1>2. /\ Typed /\ q \in CallT /\ PlanOf(q, series, row) /\ id \in DOMAIN series /\ q.at <= seriesNow
      /\ q.row \in DOMAIN row
  BY <1>1 DEF SeriesInv, Typed, Planful, CallOK
<1>3. \/ Stale(c)
      \/ GivesUp(c)
      \/ /\ SameRevision(c) /\ row' = Turned(gone, "off")
         /\ series' = [series EXCEPT ![id] = n] /\ CallEnds(c)
  BY DEF WriteCancel, Call
<1>4. CASE Stale(c)
  BY <1>1, <1>4, StaleKeeps
<1>5. CASE GivesUp(c)
  BY <1>1, <1>5, CallEnded DEF GivesUp
<1>6. ASSUME SameRevision(c), row' = Turned(gone, "off"), series' = [series EXCEPT ![id] = n], CallEnds(c)
      PROVE  SeriesInv'
  <2>1. s = u
    <3>1. s.rev = series[id].rev
      BY <1>6 DEF SameRevision, Call
    <3> QED
      BY <1>1, <1>2, <3>1 DEF PlanOf
  <2>2. /\ u \in SeriesRow /\ u.rev \in Nat /\ u.start \in Slots /\ u.until \in 0 .. Last
        /\ u.mat \in 0 .. Last + Horizon /\ row \in Seq(Booking) /\ u.end \in 0 .. Last
    BY <1>2, SeriesTyped DEF Typed
  <2>3. cut \in Slots \cup {NoCut}
    <3>1. row[q.row] \in Booking /\ q.at \in 0 .. Last
      BY <1>2, <2>2 DEF CallT
    <3>2. row[q.row].orig \in Slots
      BY <3>1 DEF Booking
    <3> QED
      BY <2>1, <2>2, <3>1, <3>2, CutIsSlot DEF Pivot
  <2>4. \A i \in Ahead(row, seriesNow) \ gone : row[i].series = id =>
          /\ ~ whole
          /\ cut # NoCut => ~ (row[i].orig >= cut)
    <3> SUFFICES ASSUME NEW i \in Ahead(row, seriesNow), i \notin gone, row[i].series = id
                 PROVE  ~ whole /\ (cut # NoCut => ~ (row[i].orig >= cut))
      OBVIOUS
    <3>1. i \in On /\ row[i].at > seriesNow /\ row[i].at \in Nat
      BY AheadFits DEF On
    <3>2. q.at \in Nat /\ seriesNow \in Nat
      BY <1>2 DEF CallT, Typed, Bounds
    <3>3. row[i].at > q.at
      BY <1>2, <3>1, <3>2
    <3> HIDE DEF whole, cut, q
    <3> QED
      BY <3>1, <3>3
  <2>5. trims => cut # NoCut
    OBVIOUS
  <2>15. row' = Turned(gone, "off") /\ series' = [series EXCEPT ![id] = n]
    BY <1>6
  <2> HIDE DEF u, cut, whole, trims, gone
  <2>6. s.rev + 1 \in Nat /\ u.rev < s.rev + 1
    BY <2>1, <2>2
  <2>7. n1 \in SeriesRow /\ n1.rev = s.rev + 1
    <3> HIDE DEF q
    <3> QED
      BY <2>2, <2>6 DEF SeriesRow
  <2>8. /\ n3 \in SeriesRow /\ n3.rev = s.rev + 1 /\ n3.start = u.start /\ n3.until = u.until
        /\ n3.mat = u.mat /\ n3.status = u.status
    <3> HIDE DEF q
    <3> QED
      BY <2>2, <2>6 DEF SeriesRow
  <2>9. cut # NoCut =>
          /\ n2 \in SeriesRow /\ n2.rev = s.rev + 1 /\ n2.start = u.start /\ n2.until = cut - 1
          /\ n2.mat = u.mat /\ n2.status \in {"ended", u.status}
    <3>1. cut # NoCut => cut - 1 \in 0 .. Last /\ Earlier(s.end, cut - 1) \in 0 .. Last
      BY <2>1, <2>2, <2>3 DEF Slots, Bounds, Earlier
    <3> HIDE DEF q
    <3> QED
      BY <2>2, <2>6, <3>1 DEF SeriesRow
  <2>10. n \in SeriesRow /\ n.rev = s.rev + 1
    <3> HIDE DEF n1, n2, n3
    <3> QED
      BY <2>5, <2>7, <2>8, <2>9
  <2>11. \A d \in Slots : Fits(u, d) /\ ~ whole /\ (cut # NoCut => ~ (d >= cut)) => Fits(n, d)
    <3> SUFFICES ASSUME NEW d \in Slots, Fits(u, d), ~ whole, cut # NoCut => ~ (d >= cut)
                 PROVE  Fits(n, d)
      OBVIOUS
    <3>1. d \in Nat
      BY DEF Slots
    <3>2. CASE trims
      <4>1. n = n2
        BY <3>2
      <4>2. d <= cut - 1
        BY <2>3, <2>5, <3>1, <3>2 DEF Slots
      <4> HIDE DEF n, n2
      <4> QED
        BY <2>5, <2>9, <3>2, <4>1, <4>2 DEF Fits, Gives
    <3>3. CASE ~ trims
      <4>1. n = n3
        BY <3>3
      <4> HIDE DEF n, n3
      <4> QED
        BY <2>8, <4>1 DEF Fits, Gives
    <3> QED
      BY <3>2, <3>3
  <2> HIDE DEF n, n1, n2, n3
  <2>12. /\ series' \in Seq(SeriesRow) /\ Len(series') <= MaxSeries /\ Revised(series, series')
         /\ DOMAIN series' = DOMAIN series /\ series'[id] = n /\ series[id].rev < n.rev
         /\ \A k \in DOMAIN series : k # id => series'[k] = series[k]
    <3>1. series[id].rev < n.rev
      BY <2>6, <2>10 DEF u
    <3> HIDE DEF q
    <3> QED
      BY <1>2, <2>10, <2>15, <3>1, SeriesChanged
  <2>13. Rewrites(row, row', gone, id, {})
    BY <2>2, <2>15, TurnedRewrites
  <2>14. \A i \in Ahead(row, seriesNow) \ gone : Fits(series'[row[i].series], row[i].orig)
    <3> SUFFICES ASSUME NEW i \in Ahead(row, seriesNow) \ gone
                 PROVE  Fits(series'[row[i].series], row[i].orig)
      OBVIOUS
    <3>0. /\ row[i].series \in DOMAIN series /\ row[i].orig \in Slots
          /\ Fits(series[row[i].series], row[i].orig)
      BY AheadFits
    <3>1. CASE row[i].series # id
      BY <2>12, <3>0, <3>1
    <3>2. CASE row[i].series = id
      <4>1. Fits(u, row[i].orig)
        BY <3>0, <3>2 DEF u
      <4> QED
        BY <2>4, <2>11, <2>12, <3>0, <3>2, <4>1
    <3> QED
      BY <3>1, <3>2
  <2>16. id \in DOMAIN series'
    BY <1>2, <2>12
  <2> HIDE DEF q, id
  <2>17. WriteOK(gone, id, {})
    BY <2>12, <2>13, <2>14, <2>16 DEF WriteOK
  <2> QED
    BY <1>1, <1>6, <2>17, WriteKeeps
<1> QED
  BY <1>3, <1>4, <1>5, <1>6

LEMMA MoveKeeps ==
  ASSUME Bounds, SeriesInv, NEW c \in Callers, WriteMove(c)
  PROVE  SeriesInv'
<1> DEFINE q == seriesCall[c]
           s == q.seen
           pivot == Pivot(q, s)
           whole == pivot = s.start /\ s.start > q.at
           id == IF whole THEN q.id ELSE Len(series) + 1
           rev == IF whole THEN s.rev + 1 ELSE 0
           clear == Clear(q.kept, id, rev, q.replacing)
           skipped == q.skipped \cup (q.kept \ clear)
           moved == [status |-> "active", start |-> q.to, until |-> s.until, end |-> s.until,
                     mat |-> Later(q.at, q.to) + Horizon, skipped |-> skipped, rev |-> rev]
           cut == [series EXCEPT ![q.id].until = pivot - 1, ![q.id].status = "ended",
                                 ![q.id].rev = s.rev + 1,
                                 ![q.id].end = Earlier(s.end, pivot - 1)]
<1>1. q.pc = "write" /\ q.kind = "move" /\ seriesNow' = seriesNow
  BY DEF WriteMove, Writes
<1>2. /\ Typed /\ q \in CallT /\ PlanOf(q, series, row) /\ q.id \in DOMAIN series /\ q.at <= seriesNow
      /\ q.row \in DOMAIN row /\ q.to \in Slots
  BY <1>1 DEF SeriesInv, Typed, Planful, CallOK
<1>3. \/ Stale(c)
      \/ GivesUp(c)
      \/ /\ SameRevision(c) /\ id <= MaxSeries /\ CallEnds(c)
         /\ row' = Append1(Turned(q.replacing, "replaced"), id, rev, clear)
         /\ series' = IF whole THEN [series EXCEPT ![id] = moved] ELSE Append(cut, moved)
  BY DEF WriteMove, Call
<1>4. CASE Stale(c)
  BY <1>1, <1>4, StaleKeeps
<1>5. CASE GivesUp(c)
  BY <1>1, <1>5, CallEnded DEF GivesUp
<1>6. ASSUME SameRevision(c), id <= MaxSeries, CallEnds(c),
             row' = Append1(Turned(q.replacing, "replaced"), id, rev, clear),
             series' = IF whole THEN [series EXCEPT ![id] = moved] ELSE Append(cut, moved)
      PROVE  SeriesInv'
  <2>1. /\ s = series[q.id] /\ s.status # "cancelled" /\ pivot # NoCut /\ SeenCovers(q, row)
    <3>1. s.rev = series[q.id].rev
      BY <1>6 DEF SameRevision, Call
    <3> QED
      BY <1>1, <1>2, <3>1 DEF PlanOf, Pivot
  <2>2. /\ s \in SeriesRow /\ s.rev \in Nat /\ s.start \in Slots /\ s.until \in 0 .. Last
        /\ s.mat \in 0 .. Last + Horizon /\ row \in Seq(Booking) /\ series \in Seq(SeriesRow)
        /\ q.id \in 0 .. MaxSeries /\ s.end \in 0 .. Last
    BY <1>2, <2>1, SeriesTyped DEF Typed
  <2>3. pivot \in Slots
    <3>1. row[q.row] \in Booking /\ q.at \in 0 .. Last
      BY <1>2, <2>2 DEF CallT
    <3>2. row[q.row].orig \in Slots
      BY <3>1 DEF Booking
    <3> QED
      BY <2>1, <2>2, <3>1, <3>2, CutIsSlot DEF Pivot
  <2>4. \A i \in Ahead(row, seriesNow) \ q.replacing : row[i].series = q.id => row[i].orig < pivot
    <3> SUFFICES ASSUME NEW i \in Ahead(row, seriesNow), i \notin q.replacing, row[i].series = q.id
                 PROVE  row[i].orig < pivot
      OBVIOUS
    <3>1. /\ i \in DOMAIN row /\ row[i].status = "on" /\ ~ row[i].alone
          /\ row[i].at > seriesNow /\ row[i].at \in Nat /\ row[i].orig \in Slots
      BY AheadFits
    <3>2. q.at \in Nat /\ seriesNow \in Nat
      BY <1>2 DEF CallT, Typed, Bounds
    <3>3. row[i].at > q.at
      BY <1>2, <3>1, <3>2
    <3>4. ~ (row[i].orig >= pivot)
      BY <2>1, <3>1, <3>3 DEF SeenCovers, Pivot
    <3>5. row[i].orig \in Nat /\ pivot \in Nat
      BY <2>3, <3>1 DEF Slots
    <3> HIDE DEF pivot
    <3> QED
      BY <3>4, <3>5
  <2>5. /\ q.kept \in SUBSET Slots /\ q.skipped \in SUBSET Slots /\ q.at \in 0 .. Last
    BY <1>2 DEF CallT
  <2>6. /\ clear \in SUBSET q.kept
        /\ \A d \in clear : \A k \in OnIn(row) \ q.replacing : row[k].at # d
    BY ClearIsFree
  <2>7. \A d \in q.kept : Gives(q.to, s.until, d) /\ d < Later(q.at, q.to) + Horizon
    BY <1>1, <1>2 DEF PlanOf, PlannedDate
  <2>8. rev \in Nat /\ s.rev + 1 \in Nat /\ s.rev < s.rev + 1
    BY <2>2
  <2>9. moved \in SeriesRow
    <3>1. Later(q.at, q.to) + Horizon \in 0 .. Last + Horizon
      BY <1>2, <2>5 DEF Later, Slots, Bounds
    <3>2. skipped \in SUBSET Slots
      <4> HIDE DEF clear
      <4> QED
        BY <2>5
    <3> HIDE DEF skipped, rev, q
    <3>3. s.until \in 0 .. Last /\ q.to \in Slots
      BY <1>2, <2>2
    <3> HIDE DEF s
    <3> QED
      BY <2>8, <3>1, <3>2, <3>3 DEF SeriesRow
  <2>10. /\ moved.rev = rev /\ moved.status # "cancelled" /\ moved.start = q.to
         /\ moved.until = s.until /\ moved.mat = Later(q.at, q.to) + Horizon
    OBVIOUS
  <2>11. \A d \in clear : Fits(moved, d)
    <3> HIDE DEF moved, clear
    <3> QED
      BY <2>6, <2>7, <2>10 DEF Fits
  <2>12. \A i \in Ahead(row, seriesNow) : /\ row[i].series \in DOMAIN series /\ row[i].orig \in Slots
                                          /\ Fits(series[row[i].series], row[i].orig)
    BY AheadFits
  <2>13. id \in 0 .. MaxSeries => Rewrites(row, row', q.replacing, id, clear)
    <3>1. clear \in SUBSET Slots
      BY <2>5, <2>6
    <3> HIDE DEF clear, rev, id
    <3> QED
      BY <1>6, <2>2, <2>8, <3>1, WriteRewrites
  <2>14. CASE whole
    <3>1. id = q.id /\ rev = s.rev + 1 /\ series' = [series EXCEPT ![q.id] = moved]
      BY <1>6, <2>14
    <3>2. /\ series' \in Seq(SeriesRow) /\ Len(series') <= MaxSeries /\ Revised(series, series')
          /\ DOMAIN series' = DOMAIN series /\ series'[q.id] = moved /\ series[q.id].rev < moved.rev
          /\ \A k \in DOMAIN series : k # q.id => series'[k] = series[k]
      <4>1. series[q.id].rev < moved.rev
        BY <2>1, <2>8, <2>10, <3>1
      <4> HIDE DEF q, moved
      <4> QED
        BY <1>2, <2>9, <3>1, <4>1, SeriesChanged
    <3>3. \A i \in Ahead(row, seriesNow) \ q.replacing : row[i].series # q.id
      <4> SUFFICES ASSUME NEW i \in Ahead(row, seriesNow), i \notin q.replacing, row[i].series = q.id
                   PROVE  FALSE
        OBVIOUS
      <4>1. row[i].orig < pivot /\ pivot = s.start /\ row[i].orig \in Slots /\ Fits(s, row[i].orig)
        BY <2>1, <2>4, <2>12, <2>14
      <4>2. s.start <= row[i].orig /\ row[i].orig \in Nat /\ s.start \in Nat
        BY <2>2, <4>1 DEF Fits, Gives, Slots
      <4> HIDE DEF pivot, s
      <4> QED
        BY <4>1, <4>2
    <3>4. \A i \in Ahead(row, seriesNow) \ q.replacing : Fits(series'[row[i].series], row[i].orig)
      BY <2>12, <3>2, <3>3
    <3>5. Rewrites(row, row', q.replacing, q.id, clear)
      BY <2>2, <2>13, <3>1
    <3>6. q.id \in DOMAIN series'
      BY <1>2, <3>2
    <3> HIDE DEF q, clear, moved
    <3>7. WriteOK(q.replacing, q.id, clear)
      BY <2>6, <2>11, <3>2, <3>3, <3>4, <3>5, <3>6 DEF WriteOK
    <3> QED
      BY <1>1, <1>6, <3>7, WriteKeeps
  <2>15. CASE ~ whole
    <3>0. id = Len(series) + 1 /\ series' = Append(cut, moved) /\ id <= MaxSeries
      BY <1>6, <2>15
    <3> DEFINE u == series[q.id]
               e == [u EXCEPT !.until = pivot - 1, !.status = "ended", !.rev = s.rev + 1,
                              !.end = Earlier(s.end, pivot - 1)]
    <3>1. /\ e \in SeriesRow /\ e.rev = s.rev + 1 /\ e.start = s.start /\ e.until = pivot - 1
          /\ e.status = "ended" /\ e.mat = s.mat
      <4>1. pivot - 1 \in 0 .. Last /\ Earlier(s.end, pivot - 1) \in 0 .. Last
        BY <2>2, <2>3 DEF Slots, Bounds, Earlier
      <4>2. u = s
        BY <2>1
      <4> HIDE DEF u, pivot, q
      <4> QED
        BY <2>2, <2>8, <4>1, <4>2 DEF SeriesRow
    <3>2. /\ cut \in Seq(SeriesRow) /\ Len(cut) = Len(series) /\ DOMAIN cut = DOMAIN series
          /\ cut[q.id] = e /\ \A k \in DOMAIN series : k # q.id => cut[k] = series[k]
      <4>1. cut = [series EXCEPT ![q.id] = e]
        <5> HIDE DEF pivot, s
        <5> QED
          BY <1>2, <2>2
      <4> HIDE DEF cut, e, q
      <4> QED
        BY <1>2, <2>2, <3>1, <4>1, ExceptSeq
    <3> HIDE DEF cut, e, u
    <3>3. /\ series' \in Seq(SeriesRow) /\ Len(series') <= MaxSeries
          /\ id \in DOMAIN series' /\ id \notin DOMAIN series /\ id \in 0 .. MaxSeries
          /\ DOMAIN series \subseteq DOMAIN series' /\ series'[id] = moved
          /\ \A k \in DOMAIN series : series'[k] = cut[k]
      <4> HIDE DEF moved, id
      <4> QED
        BY <2>9, <3>0, <3>2, SeriesAdded
    <3>4. Revised(series, series')
      <4>1. series[q.id].rev < e.rev
        BY <2>1, <2>8, <3>1
      <4> QED
        BY <3>2, <3>3, <4>1 DEF Revised
    <3>5. \A i \in Ahead(row, seriesNow) \ q.replacing : Fits(series'[row[i].series], row[i].orig)
      <4> SUFFICES ASSUME NEW i \in Ahead(row, seriesNow) \ q.replacing
                   PROVE  Fits(series'[row[i].series], row[i].orig)
        OBVIOUS
      <4>1. /\ row[i].series \in DOMAIN series /\ row[i].orig \in Slots
            /\ Fits(series[row[i].series], row[i].orig)
        BY <2>12
      <4>2. CASE row[i].series # q.id
        BY <3>2, <3>3, <4>1, <4>2
      <4>3. CASE row[i].series = q.id
        <5>1. row[i].orig < pivot /\ row[i].orig \in Nat /\ pivot \in Nat /\ Fits(s, row[i].orig)
          BY <2>1, <2>3, <2>4, <4>1, <4>3 DEF Slots
        <5> HIDE DEF pivot, s, q
        <5>2. row[i].orig <= pivot - 1
          BY <5>1
        <5>3. Fits(e, row[i].orig)
          BY <3>1, <5>1, <5>2 DEF Fits, Gives
        <5> QED
          BY <3>2, <3>3, <4>1, <4>3, <5>3
      <4> QED
        BY <4>2, <4>3
    <3>6. \A i \in Ahead(row, seriesNow) : row[i].series # id
      BY <2>12, <3>3
    <3>7. Rewrites(row, row', q.replacing, id, clear)
      BY <2>13, <3>3
    <3> HIDE DEF q, clear, moved, id
    <3>8. WriteOK(q.replacing, id, clear)
      BY <2>6, <2>11, <3>3, <3>4, <3>5, <3>6, <3>7 DEF WriteOK
    <3> QED
      BY <1>1, <1>6, <3>8, WriteKeeps
  <2> QED
    BY <2>14, <2>15
<1> QED
  BY <1>3, <1>4, <1>5, <1>6

-----------------------------------------------------------------------------
(* Single bookings, and time. *)

LEMMA SingleKeeps ==
  ASSUME Bounds, SeriesInv, UNCHANGED <<seriesNow, series, seriesCall>>, NEW gone, NEW b,
         Joins(row, row', gone, b), b.alone, b.series # NoSeries => b.series \in DOMAIN series,
         \A k \in OnIn(row) \ gone : row[k].at # b.at
  PROVE  SeriesInv'
<1>0. Typed /\ Owned /\ Follows /\ Planful /\ NoOverlap
  BY DEF SeriesInv
<1>6. Keeps(row, row', gone) /\ \A i, j \in Added(row, row') : i = j /\ row'[i] = b
  BY DEF Joins
<1>1. Typed'
  BY <1>0, <1>6 DEF Typed, Keeps
<1>2. Owned'
  <2> SUFFICES ASSUME NEW i \in DOMAIN row', row'[i].series # NoSeries
               PROVE  row'[i].series \in DOMAIN series
    BY DEF Owned
  <2>1. CASE i \in DOMAIN row
    BY <1>0, <1>6, <2>1 DEF Keeps, Owned
  <2>2. CASE i \notin DOMAIN row
    BY <1>6, <2>2 DEF Added
  <2> QED
    BY <2>1, <2>2
<1>3. Follows'
  <2>1. FollowsIn(series, row, seriesNow)
    BY <1>0 DEF Follows
  <2>2. FollowsIn(series, row', seriesNow)
    BY <1>6, <2>1, RuleKeptAlone
  <2>3. FollowsIn(series', row', seriesNow')
    BY <2>2
  <2> QED
    BY <2>3 DEF Follows, FollowsIn, Ahead, OnIn
<1>4. NoOverlap'
  <2>1. Apart(row)
    BY <1>0 DEF NoOverlap, Apart, On, OnIn
  <2>2. Apart(row')
    BY <1>6, <2>1, ApartKept
  <2> QED
    BY <2>2 DEF NoOverlap, Apart, On, OnIn
<1>5. Planful'
  <2> SUFFICES ASSUME NEW e \in Callers
               PROVE  CallOK(seriesCall[e], series, row', seriesNow)
    BY DEF Planful
  <2>1. CallOK(seriesCall[e], series, row, seriesNow) /\ seriesCall[e] \in CallT /\ series \in Seq(SeriesRow)
    BY <1>0 DEF Planful, Typed
  <2>2. seriesCall[e].at \in Nat /\ seriesNow \in Nat /\ seriesNow <= seriesNow
    BY <1>0, <2>1 DEF CallT, Typed, Bounds
  <2>3. Revised(series, series)
    BY DEF Revised
  <2> QED
    BY <1>6, <2>1, <2>2, <2>3, PlanKept
<1> QED
  BY <1>1, <1>2, <1>3, <1>4, <1>5 DEF SeriesInv

LEMMA BookOtherKeeps ==
  ASSUME Bounds, SeriesInv, BookOther
  PROVE  SeriesInv'
<1>1. PICK slot \in Slots :
        /\ ~ Taken(slot, {}) /\ UNCHANGED <<seriesNow, series, seriesCall>>
        /\ row' = Append(row, [Date(NoSeries, 0, slot) EXCEPT !.alone = TRUE])
  BY DEF BookOther, Single
<1> DEFINE b == [Date(NoSeries, 0, slot) EXCEPT !.alone = TRUE]
<1>2. row \in Seq(Booking)
  BY DEF SeriesInv, Typed
<1>3. b \in Booking /\ b.alone /\ b.series = NoSeries /\ b.at = slot
  <2>1. NoSeries \in 0 .. MaxSeries
    BY DEF NoSeries, Bounds
  <2> QED
    BY <2>1 DEF Date, Booking
<1>4. row' = Append(row, b)
  BY <1>1
<1> HIDE DEF b
<1>5. Keeps(row, row, {})
  BY <1>2, SameKeeps
<1>6. Joins(row, row', {}, b)
  BY <1>2, <1>3, <1>4, <1>5, OneMore
<1>7. \A k \in OnIn(row) \ {} : row[k].at # slot
  BY <1>1 DEF Taken, On, OnIn
<1> QED
  BY <1>1, <1>3, <1>6, <1>7, SingleKeeps

LEMMA CancelOneKeeps ==
  ASSUME Bounds, SeriesInv, NEW i, CancelOne(i)
  PROVE  SeriesInv'
<1>1. UNCHANGED <<seriesNow, series, seriesCall>> /\ row' = Turned({i}, "off")
  BY DEF CancelOne, Single
<1>2. row \in Seq(Booking)
  BY DEF SeriesInv, Typed
<1>6. i \in On /\ row[i] \in Booking
  BY <1>2 DEF CancelOne, On
<1>7. \A k \in OnIn(row) \ {i} : row[k].at # row[i].at
  BY <1>6 DEF SeriesInv, NoOverlap, On, OnIn
<1>3. Keeps(row, row', {i}) /\ DOMAIN row' = DOMAIN row
  BY <1>1, <1>2, TurnedKeeps
<1> DEFINE b == [row[i] EXCEPT !.alone = TRUE, !.series = NoSeries]
<1>4. Joins(row, row', {i}, b)
  BY <1>3 DEF Joins, Added
<1>5. b.alone /\ b.series = NoSeries /\ b.at = row[i].at
  BY <1>6 DEF Booking
<1> QED
  BY <1>1, <1>4, <1>5, <1>7, SingleKeeps

LEMMA MoveOneKeeps ==
  ASSUME Bounds, SeriesInv, NEW i, MoveOne(i)
  PROVE  SeriesInv'
<1>1. PICK slot \in Slots :
        /\ i \in On /\ ~ Taken(slot, {i}) /\ UNCHANGED <<seriesNow, series, seriesCall>>
        /\ row' = Append(Turned({i}, "replaced"), [row[i] EXCEPT !.at = slot, !.alone = TRUE])
  BY DEF MoveOne, Single
<1> DEFINE b == [row[i] EXCEPT !.at = slot, !.alone = TRUE]
           mid == Turned({i}, "replaced")
<1>2. row \in Seq(Booking) /\ i \in DOMAIN row /\ row[i] \in Booking
  BY <1>1 DEF SeriesInv, Typed, On
<1>3. b \in Booking /\ b.alone /\ b.series = row[i].series /\ b.at = slot
  BY <1>2 DEF Booking
<1>4. row' = Append(mid, b)
  BY <1>1
<1>5. Keeps(row, mid, {i}) /\ DOMAIN mid = DOMAIN row /\ mid \in Seq(Booking)
  BY <1>2, TurnedKeeps
<1> HIDE DEF b, mid
<1>6. Joins(row, row', {i}, b)
  BY <1>2, <1>3, <1>4, <1>5, OneMore
<1>7. \A k \in OnIn(row) \ {i} : row[k].at # slot
  BY <1>1 DEF Taken, On, OnIn
<1>8. row[i].series # NoSeries => row[i].series \in DOMAIN series
  BY <1>2 DEF SeriesInv, Owned
<1> QED
  BY <1>1, <1>3, <1>6, <1>7, <1>8, SingleKeeps

LEMMA TickKeeps ==
  ASSUME Bounds, SeriesInv, SeriesTick
  PROVE  SeriesInv'
<1>0. /\ Typed /\ Owned /\ Follows /\ Planful /\ NoOverlap
      /\ UNCHANGED <<series, row, seriesCall>> /\ seriesNow' = seriesNow + 1 /\ seriesNow < Last /\ seriesNow \in Nat
  BY DEF SeriesInv, SeriesTick, Typed, Bounds
<1>1. Typed'
  BY <1>0 DEF Typed, Bounds
<1>2. Owned' /\ NoOverlap'
  BY <1>0 DEF Owned, NoOverlap, On
<1>3. Follows'
  <2>1. \A i \in Ahead(row, seriesNow + 1) : i \in Ahead(row, seriesNow)
    <3> TAKE i \in Ahead(row, seriesNow + 1)
    <3>1. i \in DOMAIN row /\ row \in Seq(Booking) /\ row[i].at > seriesNow + 1
      BY <1>0 DEF Ahead, OnIn, Typed
    <3>2. row[i].at \in Nat
      <4>1. row[i] \in Booking
        BY <3>1
      <4> QED
        BY <4>1 DEF Booking, Slots
    <3>3. row[i].at > seriesNow
      BY <1>0, <3>1, <3>2
    <3> QED
      BY <3>3 DEF Ahead
  <2>2. FollowsIn(series, row, seriesNow + 1)
    BY <1>0, <2>1 DEF Follows, FollowsIn
  <2>3. FollowsIn(series', row', seriesNow')
    BY <1>0, <2>2
  <2> QED
    BY <2>3 DEF Follows, FollowsIn, Ahead, OnIn
<1>4. Planful'
  <2> SUFFICES ASSUME NEW e \in Callers
               PROVE  CallOK(seriesCall[e], series, row, seriesNow + 1)
    BY <1>0 DEF Planful
  <2>1. CallOK(seriesCall[e], series, row, seriesNow) /\ seriesCall[e] \in CallT
    BY <1>0 DEF Planful, Typed
  <2>2. seriesCall[e].at \in Nat
    BY <2>1 DEF CallT, Bounds
  <2> QED
    BY <1>0, <2>1, <2>2 DEF CallOK
<1> QED
  BY <1>1, <1>2, <1>3, <1>4 DEF SeriesInv

-----------------------------------------------------------------------------
(* The theorems. *)

LEMMA SeriesInvHolds ==
  ASSUME Bounds
  PROVE  SeriesSpec => []SeriesInv
<1>1. SeriesInit => SeriesInv
  <2> SUFFICES ASSUME SeriesInit PROVE SeriesInv
    OBVIOUS
  <2>1. NoCall \in CallT /\ NoCall.pc = "idle"
    BY NoCallIsCall
  <2>2. Typed
    <3>1. seriesCall \in [Callers -> CallT]
      BY <2>1 DEF SeriesInit
    <3> QED
      BY <3>1 DEF SeriesInit, Typed, Bounds
  <2>3. DOMAIN row = {}
    BY DEF SeriesInit
  <2>4. Owned /\ Follows /\ NoOverlap
    BY <2>3 DEF Owned, Follows, FollowsIn, Ahead, OnIn, NoOverlap, On
  <2>5. Planful
    BY <2>1 DEF SeriesInit, Planful, CallOK
  <2> QED
    BY <2>2, <2>4, <2>5 DEF SeriesInv
<1>2. SeriesInv /\ [SeriesNext]_seriesVars => SeriesInv'
  <2> SUFFICES ASSUME SeriesInv, [SeriesNext]_seriesVars PROVE SeriesInv'
    OBVIOUS
  <2>1. ASSUME NEW c \in Callers, StartCall(c) PROVE SeriesInv'
    BY <2>1, CallKeeps
  <2>2. ASSUME NEW c \in Callers, Again(c) PROVE SeriesInv'
    BY <2>2, CallKeeps
  <2>3. ASSUME NEW c \in Callers, WriteCall(c) PROVE SeriesInv'
    BY <2>3, CreateKeeps, ExtendKeeps, CancelKeeps, MoveKeeps DEF WriteCall
  <2>4. CASE BookOther
    BY <2>4, BookOtherKeeps
  <2>5. ASSUME NEW i \in DOMAIN row, CancelOne(i) \/ MoveOne(i) PROVE SeriesInv'
    BY <2>5, CancelOneKeeps, MoveOneKeeps
  <2>6. CASE SeriesTick
    BY <2>6, TickKeeps
  <2>7. CASE UNCHANGED seriesVars
    <3>1. UNCHANGED <<seriesNow, series, row, seriesCall>>
      BY <2>7 DEF seriesVars
    <3> QED
      BY <3>1 DEF SeriesInv, Typed, Owned, Follows, FollowsIn, Ahead, OnIn, Planful, NoOverlap, On
  <2> QED
    BY <2>1, <2>2, <2>3, <2>4, <2>5, <2>6, <2>7 DEF SeriesNext
<1> QED
  BY <1>1, <1>2, PTL DEF SeriesSpec

(* The host's rows and series have their types: a series' dates stay within *)
(* its bounds, and no call's plan reaches past them.                       *)
THEOREM SeriesTypes ==
  ASSUME Bounds
  PROVE  SeriesSpec => []SeriesTypeOK
<1>1. SeriesInv => SeriesTypeOK
  BY DEF SeriesInv, Typed, SeriesTypeOK, CallT
<1> QED
  BY <1>1, SeriesInvHolds, PTL

(* The host is never in two bookings at once, although each series is       *)
(* planned outside the lock: writeOccurrences asks again under it.         *)
THEOREM SeriesNeverOverlaps ==
  ASSUME Bounds
  PROVE  SeriesSpec => []NoOverlap
<1>1. SeriesInv => NoOverlap
  BY DEF SeriesInv
<1> QED
  BY <1>1, SeriesInvHolds, PTL

(* A date to come that is on is one its series' rule gives now, once: what  *)
(* an extension, a cancel or a move read before another wrote is refused   *)
(* by the revision, and what none of them read is behind the date up to    *)
(* which the series is written.                                            *)
THEOREM SeriesFollowTheirRule ==
  ASSUME Bounds
  PROVE  SeriesSpec => []DatesFollowRule
<1>1. ASSUME SeriesInv PROVE DatesFollowRule
  <2> SUFFICES ASSUME NEW i \in Upcoming
               PROVE  LET s == series[row[i].series] IN
                      /\ s.status # "cancelled" /\ row[i].orig \in AllDates(s)
                      /\ \A j \in Upcoming \ {i} :
                            row[j].series = row[i].series => row[j].orig # row[i].orig
    BY DEF DatesFollowRule
  <2>1. Upcoming = Ahead(row, seriesNow)
    BY DEF Upcoming, Ahead, On, OnIn
  <2>2. /\ row[i].series \in DOMAIN series /\ row[i].orig \in Slots
        /\ Fits(series[row[i].series], row[i].orig)
    BY <1>1, <2>1, AheadFits
  <2>3. \A j \in Upcoming \ {i} : row[j].series = row[i].series => row[j].orig # row[i].orig
    BY <1>1, <2>1 DEF SeriesInv, Follows, FollowsIn
  <2> DEFINE s == series[row[i].series]
  <2>4. s.start \in Slots /\ s.until \in 0 .. Last
    BY <1>1, <2>2, SeriesTyped DEF SeriesInv
  <2>5. row[i].orig \in AllDates(s) /\ s.status # "cancelled"
    <3> HIDE DEF s
    <3>1. Fits(s, row[i].orig)
      BY <2>2 DEF s
    <3> QED
      BY <2>2, <2>4, <3>1, GivesDate DEF Fits
  <2> QED
    BY <2>3, <2>5
<1>2. SeriesInv => DatesFollowRule
  BY <1>1
<1> QED
  BY <1>2, SeriesInvHolds, PTL
-----------------------------------------------------------------------------
(* No date to come is lost.  A call knows all the dates it is about to      *)
(* write or leave out (PlanWhole), so what it writes up to, it has covered. *)

(* Series id has a row for d that is on, or was cancelled by itself. *)
Stands(rw, id, d) ==
    \E i \in DOMAIN rw : rw[i].series = id /\ rw[i].orig = d /\ rw[i].status \in {"on", "off"}

(* Series s owes a row for d at time t. *)
Owes(s, t, d) ==
    /\ s.status # "cancelled" /\ d \notin s.skipped
    /\ Gives(s.start, s.end, d) /\ t < d /\ d < s.mat

Lasting(sr, rw, t) == \A id \in DOMAIN sr : \A d \in Slots : Owes(sr[id], t, d) => Stands(rw, id, d)

(* The rows a move replaces are those of its series from its pivot on. *)
ReplacesFrom(q, rw) ==
    \A i \in q.replacing :
        /\ i \in DOMAIN rw /\ rw[i].series = q.id
        /\ rw[i].orig >= CutFor(q.seen, q.scope, rw[q.row].orig, q.at)

PlanWhole(q, rw) ==
    q.pc = "write" =>
        /\ q.kind = "create" => \A d \in Slots :
              Gives(q.to, q.until, d) /\ d < Later(q.at, q.to) + Horizon => d \in q.kept \cup q.skipped
        /\ q.kind = "extend" => \A d \in Slots :
              Gives(q.seen.start, q.seen.until, d) /\ q.seen.mat <= d /\ q.at < d /\ d < q.at + Horizon
              => d \in q.kept
        /\ q.kind = "cancel" => q.seen.status # "cancelled"
        /\ q.kind = "move" =>
              /\ \A d \in Slots :
                    Gives(q.to, q.seen.until, d) /\ d < Later(q.at, q.to) + Horizon
                    => d \in q.kept \cup q.skipped
              /\ ReplacesFrom(q, rw)

(* The earliest end a rule had is no later than its end. *)
EndsFirst(sr) == \A id \in DOMAIN sr : sr[id].end <= sr[id].until

PlansWhole == \A c \in Callers : PlanWhole(seriesCall[c], row)

LastInv == Lasting(series, row, seriesNow) /\ EndsFirst(series) /\ PlansWhole

(* Every date the rule gives is one that Dates finds. *)
LEMMA GivenDates ==
  ASSUME Bounds, NEW s, s.start \in Slots, s.until \in 0 .. Last, NEW a \in Nat, NEW b \in Nat,
         NEW d \in Slots, Gives(s.start, s.until, d), a <= d, d < b
  PROVE  d \in Dates(s, a, b)
<1>1. d \in s.start .. s.until
  BY DEF Gives, Slots, Bounds
<1> QED
  BY <1>1 DEF Gives, Dates

(* Each date written has its row. *)
LEMMA AppendHolds ==
  ASSUME Bounds, NEW rows \in Seq(Booking), NEW id \in 0 .. MaxSeries, NEW rev \in Nat,
         NEW dates \in SUBSET Slots, NEW d \in dates
  PROVE  Stands(Append1(rows, id, rev, dates), id, d)
<1> DEFINE n == Cardinality(dates)
           nth(k) == CHOOSE e \in dates : Cardinality({x \in dates : x < e}) = k - 1
           fresh == [k \in 1 .. n |-> Date(id, rev, nth(k))]
           out == rows \o fresh
           k == Cardinality(Below(dates, d)) + 1
<1>1. n \in Nat /\ k \in 1 .. n
  BY BelowCounts
<1>2. nth(k) = d
  <2>1. \E e \in dates : Cardinality(Below(dates, e)) = k - 1
    BY <1>1, InOrderOfSlots
  <2>2. nth(k) \in dates /\ Cardinality(Below(dates, nth(k))) = k - 1
    BY <2>1 DEF Below
  <2> DEFINE e == nth(k)
  <2>3. e \in dates /\ e \in Nat /\ d \in Nat /\ Cardinality(Below(dates, d)) \in Nat
        /\ Cardinality(Below(dates, e)) = Cardinality(Below(dates, d))
    <3>1. Cardinality(Below(dates, d)) \in 0 .. n - 1
      BY BelowCounts
    <3>2. Cardinality(Below(dates, d)) \in Nat /\ k - 1 = Cardinality(Below(dates, d))
      <4> HIDE DEF n
      <4> QED BY <1>1, <3>1
    <3>3. dates \subseteq Nat
      BY DEF Slots
    <3> HIDE DEF nth, n, k
    <3> QED
      BY <2>2, <3>2, <3>3
  <2> HIDE DEF e, k
  <2>4. ~ (e < d) /\ ~ (d < e)
    BY <2>3, BelowCounts
  <2>5. e = d
    BY <2>3, <2>4
  <2> QED
    BY <2>5 DEF e
<1>3. Append1(rows, id, rev, dates) = out
  BY DEF Append1
<1>4. fresh \in Seq(Booking) /\ Len(fresh) = n
  <2>1. \A m \in 1 .. n : nth(m) \in dates
    <3> TAKE m \in 1 .. n
    <3>1. \E e \in dates : Cardinality({x \in dates : x < e}) = m - 1
      BY InOrderOfSlots DEF Below
    <3> QED
      BY <3>1
  <2> HIDE DEF nth, n
  <2>2. \A m \in 1 .. n : Date(id, rev, nth(m)) \in Booking
    BY <2>1, DateIsBooking
  <2> QED
    BY <1>1, <2>2
<1>5. fresh[k] = Date(id, rev, d)
  <2> HIDE DEF nth, n, k
  <2> QED
    BY <1>1, <1>2
<1> HIDE DEF fresh, n, k, nth
<1>6. /\ out \in Seq(Booking) /\ Len(out) = Len(rows) + n
      /\ \A i \in 1 .. Len(rows) + n : out[i] = IF i <= Len(rows) THEN rows[i]
                                                 ELSE fresh[i - Len(rows)]
  BY <1>1, <1>4, ConcatProperties
<1> HIDE DEF out
<1>7. Len(rows) + k \in DOMAIN out /\ out[Len(rows) + k] = Date(id, rev, d)
  <2>1. Len(rows) \in Nat /\ DOMAIN out = 1 .. Len(rows) + n
    BY <1>1, <1>6
  <2> DEFINE i == Len(rows) + k
  <2>3. i \in 1 .. Len(rows) + n /\ ~ (i <= Len(rows)) /\ i - Len(rows) = k
    BY <1>1, <2>1
  <2> HIDE DEF i
  <2>4. out[i] = fresh[k] /\ i \in DOMAIN out
    BY <1>6, <2>1, <2>3
  <2> QED
    BY <1>5, <2>4 DEF i
<1> QED
  BY <1>3, <1>7 DEF Stands, Date

(* Rows kept through a write: all but those of gone stand as they did. *)
Stays(rows, out, gone) ==
    /\ DOMAIN rows \subseteq DOMAIN out
    /\ \A i \in DOMAIN rows :
          /\ out[i].series = rows[i].series /\ out[i].orig = rows[i].orig
          /\ rows[i].status \in {"on", "off"} /\ i \notin gone => out[i].status \in {"on", "off"}

LEMMA TurnedStays ==
  ASSUME row \in Seq(Booking), NEW gone
  PROVE  /\ Stays(row, Turned(gone, "off"), {}) /\ Stays(row, Turned(gone, "replaced"), gone)
         /\ Turned(gone, "off") \in Seq(Booking) /\ Turned(gone, "replaced") \in Seq(Booking)
         /\ DOMAIN Turned(gone, "replaced") = DOMAIN row
<1>1. \A i \in DOMAIN row : row[i] \in Booking
  OBVIOUS
<1>2. ASSUME NEW status \in {"off", "replaced"}
      PROVE  /\ Turned(gone, status) \in Seq(Booking) /\ DOMAIN Turned(gone, status) = DOMAIN row
             /\ \A i \in DOMAIN row :
                  /\ Turned(gone, status)[i].series = row[i].series
                  /\ Turned(gone, status)[i].orig = row[i].orig
                  /\ Turned(gone, status)[i].status =
                       IF i \in gone /\ row[i].status = "on" THEN status ELSE row[i].status
  <2>1. Turned(gone, status) \in Seq(Booking) /\ DOMAIN Turned(gone, status) = DOMAIN row
    BY TurnedKeeps
  <2>2. \A i \in DOMAIN row :
          Turned(gone, status)[i] = IF i \in gone /\ row[i].status = "on"
                                    THEN [row[i] EXCEPT !.status = status] ELSE row[i]
    BY DEF Turned
  <2> QED
    BY <1>1, <2>1, <2>2 DEF Booking
<1> QED
  BY <1>2 DEF Stays

LEMMA AppendStays ==
  ASSUME Bounds, NEW rows, NEW mid \in Seq(Booking), NEW id \in 0 .. MaxSeries, NEW rev \in Nat,
         NEW dates \in SUBSET Slots, NEW gone, Stays(rows, mid, gone)
  PROVE  Stays(rows, Append1(mid, id, rev, dates), gone)
<1> DEFINE out == Append1(mid, id, rev, dates)
<1>1. out \in Seq(Booking) /\ Len(mid) <= Len(out) /\ \A i \in DOMAIN mid : out[i] = mid[i]
  BY AppendGrows DEF Grows
<1> HIDE DEF out
<1>2. DOMAIN mid \subseteq DOMAIN out
  <2>1. DOMAIN mid = 1 .. Len(mid) /\ DOMAIN out = 1 .. Len(out) /\ Len(mid) \in Nat /\ Len(out) \in Nat
    BY <1>1
  <2> QED
    BY <1>1, <2>1
<1>3. Stays(rows, out, gone)
  BY <1>1, <1>2 DEF Stays
<1> QED
  BY <1>3 DEF out

(* A write covers what its series owes, and takes no other date's row. *)
LEMMA LastingKept ==
  ASSUME Lasting(series, row, seriesNow), NEW gone, Stays(row, row', gone),
         \A id \in DOMAIN series' : \A d \in Slots : Owes(series'[id], seriesNow', d) =>
            \/ Stands(row', id, d)
            \/ /\ id \in DOMAIN series /\ Owes(series[id], seriesNow, d)
               /\ \A i \in gone \cap DOMAIN row : row[i].series = id => row[i].orig # d
  PROVE  Lasting(series', row', seriesNow')
<1> SUFFICES ASSUME NEW id \in DOMAIN series', NEW d \in Slots, Owes(series'[id], seriesNow', d),
                    id \in DOMAIN series, Owes(series[id], seriesNow, d),
                    \A i \in gone \cap DOMAIN row : row[i].series = id => row[i].orig # d
             PROVE  Stands(row', id, d)
  BY DEF Lasting
<1>1. PICK i \in DOMAIN row :
        row[i].series = id /\ row[i].orig = d /\ row[i].status \in {"on", "off"}
  BY DEF Lasting, Stands
<1>2. i \notin gone
  BY <1>1
<1> QED
  BY <1>1, <1>2 DEF Stays, Stands

(* A plan's rows are still there after a write. *)
LEMMA WholeKept ==
  ASSUME SeriesInv, PlansWhole, NEW c \in Callers, NEW gone, Stays(row, row', gone)
  PROVE  PlanWhole(seriesCall[c], row')
<1> DEFINE q == seriesCall[c]
<1> SUFFICES ASSUME q.pc = "write", q.kind = "move"
             PROVE  ReplacesFrom(q, row')
  BY DEF PlansWhole, PlanWhole
<1>1. ReplacesFrom(q, row) /\ q.row \in DOMAIN row
  BY DEF PlansWhole, PlanWhole, SeriesInv, Planful, CallOK
<1>2. row'[q.row].orig = row[q.row].orig
  BY <1>1 DEF Stays
<1> HIDE DEF q
<1> QED
  BY <1>1, <1>2 DEF ReplacesFrom, Stays

LEMMA WritesWhole ==
  ASSUME Bounds, SeriesInv, PlansWhole, NEW c \in Callers, CallEnds(c), NEW gone, Stays(row, row', gone)
  PROVE  PlansWhole'
<1> SUFFICES ASSUME NEW e \in Callers PROVE PlanWhole(seriesCall'[e], row')
  BY DEF PlansWhole
<1>1. NoCall.pc = "idle"
  BY NoCallIsCall
<1>2. seriesCall'[e] = IF e = c THEN NoCall ELSE seriesCall[e]
  BY DEF CallEnds, SeriesInv, Typed
<1>3. CASE e = c
  BY <1>1, <1>2, <1>3 DEF PlanWhole
<1>4. CASE e # c
  BY <1>2, <1>4, WholeKept
<1> QED
  BY <1>3, <1>4

(* A call filed: nothing else changed. *)
LEMMA WholeFiled ==
  ASSUME SeriesInv, LastInv, UNCHANGED <<seriesNow, series, row>>, NEW c \in Callers, NEW n,
         seriesCall' = [seriesCall EXCEPT ![c] = n], PlanWhole(n, row)
  PROVE  LastInv'
<1>1. PlansWhole'
  <2> SUFFICES ASSUME NEW e \in Callers PROVE PlanWhole(seriesCall'[e], row)
    BY DEF PlansWhole
  <2>1. seriesCall'[e] = IF e = c THEN n ELSE seriesCall[e]
    BY DEF SeriesInv, Typed
  <2> QED
    BY <2>1 DEF LastInv, PlansWhole
<1>2. Lasting(series, row, seriesNow)'
  BY DEF LastInv, Lasting, Stands, Owes, Gives
<1> QED
  BY <1>1, <1>2 DEF LastInv, EndsFirst

LEMMA WholeEnded ==
  ASSUME Bounds, SeriesInv, LastInv, UNCHANGED <<seriesNow, series, row>>, NEW c \in Callers, CallEnds(c)
  PROVE  LastInv'
<1>1. PlanWhole(NoCall, row)
  BY NoCallIsCall DEF PlanWhole
<1> QED
  BY <1>1, WholeFiled DEF CallEnds

LEMMA ReadySkips ==
  ASSUME NEW q \in CallT, NEW seen \in SeriesRow \cup {NoCall.seen}, NEW plan,
         plan.kept \in SUBSET Slots, plan.skipped \in SUBSET Slots, NEW replacing \in SUBSET Nat
  PROVE  Ready(q, seen, plan, replacing).skipped = plan.skipped
  BY DEF Ready, CallT

(* A plan keeps or leaves out every date of the rule before the horizon. *)
LEMMA PlanCovers ==
  ASSUME Bounds, NEW start \in Slots, NEW until \in 0 .. Last, NEW at \in 0 .. Last, NEW replacing
  PROVE  LET p == Plan([start |-> start, until |-> until], at, replacing) IN
         \A d \in Slots : Gives(start, until, d) /\ d < Later(at, start) + Horizon
                          => d \in p.kept \cup p.skipped
<1> DEFINE rule == [start |-> start, until |-> until]
           dates == Dates(rule, 0, Later(at, start) + Horizon)
           p == Plan(rule, at, replacing)
<1>1. rule.start = start /\ rule.until = until
  OBVIOUS
<1>2. Later(at, start) + Horizon \in Nat /\ 0 \in Nat
  BY DEF Later, Slots, Bounds
<1>3. \A d \in Slots : Gives(start, until, d) /\ d < Later(at, start) + Horizon => d \in dates
  <2> TAKE d \in Slots
  <2> HAVE Gives(start, until, d) /\ d < Later(at, start) + Horizon
  <2>1. 0 <= d
    BY DEF Slots
  <2> HIDE DEF rule
  <2> QED
    BY <1>1, <1>2, <2>1, GivenDates
<1>4. dates \subseteq p.kept \cup p.skipped
  BY <1>1 DEF Plan
<1> HIDE DEF p, dates
<1>5. \A d \in Slots : Gives(start, until, d) /\ d < Later(at, start) + Horizon
                       => d \in p.kept \cup p.skipped
  BY <1>3, <1>4
<1> QED
  BY <1>5 DEF p

LEMMA PlanFilesWhole ==
  ASSUME Bounds, SeriesInv, LastInv, UNCHANGED <<seriesNow, series, row>>, NEW c \in Callers,
         NEW q \in CallT, q.at <= seriesNow, PlansAs(c, q)
  PROVE  LastInv'
<1>0. Typed /\ q.until \in 0 .. Last /\ q.at \in 0 .. Last
  BY DEF SeriesInv, CallT
<1>1. CASE q.kind = "create" /\ q.to \in Slots /\ PlanCreate(c, q)
  <2> DEFINE plan == Plan([start |-> q.to, until |-> q.until], q.at, {})
             n == Ready(q, NoCall.seen, plan, {})
  <2>1. /\ plan.kept \in SUBSET Slots /\ plan.skipped \in SUBSET Slots
        /\ \A d \in Slots : Gives(q.to, q.until, d) /\ d < Later(q.at, q.to) + Horizon
                             => d \in plan.kept \cup plan.skipped
    BY <1>0, <1>1, PlanDates, PlanCovers
  <2>2. seriesCall' = [seriesCall EXCEPT ![c] = n]
    BY <1>1 DEF PlanCreate, Planned, Ready
  <2> HIDE DEF plan
  <2>3. /\ n.kind = "create" /\ n.to = q.to /\ n.until = q.until /\ n.at = q.at
        /\ n.kept = plan.kept /\ n.skipped = plan.skipped
    BY <1>1, <2>1, ReadyFields, ReadySkips
  <2> HIDE DEF n
  <2>4. PlanWhole(n, row)
    BY <2>1, <2>3 DEF PlanWhole
  <2> QED
    BY <2>2, <2>4, WholeFiled
<1>2. CASE q.kind = "extend" /\ q.pc = "idle" /\ q.id \in DOMAIN series /\ PlanExtend(c, q)
  <2> DEFINE s == series[q.id]
             dates == Dates(s, Later(s.mat, q.at), q.at + Horizon)
             plan == [kept |-> dates, skipped |-> {}]
             n == Ready(q, s, plan, {})
  <2>1. s \in SeriesRow /\ s.start \in Slots /\ s.until \in 0 .. Last /\ s.mat \in 0 .. Last + Horizon
    BY <1>0, <1>2, SeriesTyped
  <2>2. seriesCall' = [seriesCall EXCEPT ![c] = n]
    BY <1>2 DEF PlanExtend, Planned, Ready
  <2> HIDE DEF s
  <2>3. Later(s.mat, q.at) \in Nat /\ q.at + Horizon \in Nat
    BY <1>0, <2>1 DEF Later, Bounds
  <2>4. dates \in SUBSET Slots
    BY <2>1, <2>3, DatesGive
  <2>5. \A d \in Slots : Gives(s.start, s.until, d) /\ s.mat <= d /\ q.at < d /\ d < q.at + Horizon
                         => d \in dates
    <3> SUFFICES ASSUME NEW d \in Slots, Gives(s.start, s.until, d), s.mat <= d, q.at < d,
                        d < q.at + Horizon
                 PROVE  d \in dates
      OBVIOUS
    <3>1. Later(s.mat, q.at) <= d
      BY <1>0, <2>1 DEF Later, Bounds, Slots
    <3> QED
      BY <2>1, <2>3, <3>1, GivenDates
  <2> HIDE DEF dates
  <2>6. plan.kept = dates /\ plan.kept \in SUBSET Slots /\ plan.skipped \in SUBSET Slots
    BY <2>4
  <2> HIDE DEF plan
  <2>7. n.kind = "extend" /\ n.seen = s /\ n.at = q.at /\ n.kept = dates
    BY <1>2, <2>1, <2>6, ReadyFields
  <2> HIDE DEF n
  <2>8. PlanWhole(n, row)
    BY <2>5, <2>7 DEF PlanWhole
  <2> QED
    BY <2>2, <2>8, WholeFiled
<1>3. CASE q.kind = "cancel" /\ IsOf(q) /\ PlanCancel(c, q)
  <2> DEFINE s == series[q.id]
             plan == [kept |-> {}, skipped |-> {}]
             n == Ready(q, s, plan, {})
  <2>1. s \in SeriesRow
    BY <1>0, <1>3, SeriesTyped DEF IsOf
  <2>2. seriesCall' = [seriesCall EXCEPT ![c] = n]
    BY <1>3 DEF PlanCancel, Planned, Ready
  <2>6. s.status # "cancelled"
    BY <1>3 DEF PlanCancel
  <2> HIDE DEF s
  <2>3. plan.kept \in SUBSET Slots /\ plan.skipped \in SUBSET Slots
    OBVIOUS
  <2> HIDE DEF plan
  <2>4. n.kind = "cancel" /\ n.seen = s
    BY <1>3, <2>1, <2>3, ReadyFields
  <2> HIDE DEF n
  <2>5. PlanWhole(n, row)
    BY <2>4, <2>6 DEF PlanWhole
  <2> QED
    BY <2>2, <2>5, WholeFiled
<1>4. CASE q.kind = "move" /\ q.to \in Slots /\ IsOf(q) /\ PlanMove(c, q)
  <2> DEFINE s == series[q.id]
             replacing == Replacing(q, s)
             plan == Plan([start |-> q.to, until |-> s.until], q.at, replacing)
             n == Ready(q, s, plan, replacing)
  <2>1. s \in SeriesRow /\ s.until \in 0 .. Last
    BY <1>0, <1>4, SeriesTyped DEF IsOf
  <2>2. seriesCall' = [seriesCall EXCEPT ![c] = n]
    BY <1>4 DEF PlanMove, Planned, Ready
  <2>3. replacing \in SUBSET Nat
    <3>1. DOMAIN row = 1 .. Len(row) /\ Len(row) \in Nat
      BY <1>0 DEF Typed
    <3> QED
      BY <3>1 DEF Replacing, On
  <2>4. \A i \in replacing : i \in DOMAIN row /\ row[i].series = q.id /\ row[i].orig >= Pivot(q, s)
    BY DEF Replacing, On
  <2> HIDE DEF s, replacing
  <2>5. /\ plan.kept \in SUBSET Slots /\ plan.skipped \in SUBSET Slots
        /\ \A d \in Slots : Gives(q.to, s.until, d) /\ d < Later(q.at, q.to) + Horizon
                             => d \in plan.kept \cup plan.skipped
    BY <1>0, <1>4, <2>1, PlanDates, PlanCovers
  <2> HIDE DEF plan
  <2>6. /\ n.kind = "move" /\ n.to = q.to /\ n.at = q.at /\ n.seen = s /\ n.id = q.id /\ n.row = q.row
        /\ n.scope = q.scope /\ n.replacing = replacing /\ n.kept = plan.kept
        /\ n.skipped = plan.skipped
    BY <1>4, <2>1, <2>3, <2>5, ReadyFields, ReadySkips
  <2> HIDE DEF n
  <2>7. ReplacesFrom(n, row)
    BY <2>4, <2>6 DEF ReplacesFrom, Pivot
  <2>8. PlanWhole(n, row)
    BY <2>5, <2>6, <2>7 DEF PlanWhole
  <2> QED
    BY <2>2, <2>8, WholeFiled
<1> QED
  BY <1>1, <1>2, <1>3, <1>4 DEF PlansAs

LEMMA CallWhole ==
  ASSUME Bounds, SeriesInv, LastInv, NEW c \in Callers, StartCall(c) \/ Again(c)
  PROVE  LastInv'
<1>1. UNCHANGED <<seriesNow, series, row>>
  BY StartPlans, AgainPlans
<1>2. CASE CallEnds(c)
  BY <1>1, <1>2, WholeEnded
<1>3. CASE \E q \in CallT : q.at <= seriesNow /\ PlansAs(c, q)
  BY <1>1, <1>3, PlanFilesWhole
<1> QED
  BY <1>2, <1>3, StartPlans, AgainPlans

LEMMA StaleWhole ==
  ASSUME Bounds, SeriesInv, LastInv, UNCHANGED seriesNow, NEW c \in Callers, Stale(c)
  PROVE  LastInv'
<1> DEFINE q == seriesCall[c]
           n == Retry(q, q.tries + 1)
<1>1. UNCHANGED <<seriesNow, series, row>> /\ (CallEnds(c) \/ seriesCall' = [seriesCall EXCEPT ![c] = n])
  <2>1. CASE q.tries < 3
    BY <2>1 DEF Stale, Call, Retry
  <2>2. CASE ~ (q.tries < 3)
    BY <2>2 DEF Stale, Call, CallEnds
  <2> QED
    BY <2>1, <2>2 DEF Stale
<1>2. n.pc = "read"
  <2>1. q \in CallT
    BY DEF SeriesInv, Typed
  <2> HIDE DEF q
  <2>2. q.tries + 1 \in Nat
    BY <2>1 DEF CallT
  <2> QED
    BY <2>1, <2>2, RetryFields
<1> HIDE DEF n
<1>3. PlanWhole(n, row)
  BY <1>2 DEF PlanWhole
<1> QED
  BY <1>1, <1>3, WholeEnded, WholeFiled

(* What a write owes it writes: the dates planned and still clear have their *)
(* rows, and the others are left out by name.                              *)
LEMMA WriteLasts ==
  ASSUME Bounds, SeriesInv, LastInv, NEW c \in Callers, CallEnds(c), UNCHANGED seriesNow,
         NEW gone, Stays(row, row', gone), EndsFirst(series'),
         \A id \in DOMAIN series' : \A d \in Slots : Owes(series'[id], seriesNow', d) =>
            \/ Stands(row', id, d)
            \/ /\ id \in DOMAIN series /\ Owes(series[id], seriesNow, d)
               /\ \A i \in gone \cap DOMAIN row : row[i].series = id => row[i].orig # d
  PROVE  LastInv'
<1>1. Lasting(series', row', seriesNow')
  BY LastingKept DEF LastInv
<1>2. PlansWhole'
  BY WritesWhole DEF LastInv
<1> QED
  BY <1>1, <1>2 DEF LastInv, EndsFirst, Lasting, Stands, Owes, Gives

(* A rule written anew: what it owes is among the dates written. *)
LEMMA AnewOwes ==
  ASSUME NEW s, NEW t, NEW kept, NEW out, NEW clear, NEW d \in Slots,
         s.skipped = out \cup (kept \ clear), Owes(s, t, d),
         Gives(s.start, s.end, d) /\ d < s.mat => d \in kept \cup out
  PROVE  d \in clear
<1>1. d \notin s.skipped /\ d \in kept \cup out
  BY DEF Owes
<1> QED
  BY <1>1

(* A write that replaces no row. *)
LEMMA WriteAdds ==
  ASSUME Bounds, SeriesInv, LastInv, NEW c \in Callers, CallEnds(c), UNCHANGED seriesNow,
         Stays(row, row', {}), EndsFirst(series'),
         \A k \in DOMAIN series' : \A d \in Slots : Owes(series'[k], seriesNow', d) =>
            Stands(row', k, d) \/ (k \in DOMAIN series /\ Owes(series[k], seriesNow, d))
  PROVE  LastInv'
<1>1. {} \cap DOMAIN row = {}
  OBVIOUS
<1>2. \A id \in DOMAIN series' : \A d \in Slots : Owes(series'[id], seriesNow', d) =>
            \/ Stands(row', id, d)
            \/ /\ id \in DOMAIN series /\ Owes(series[id], seriesNow, d)
               /\ \A i \in {} \cap DOMAIN row : row[i].series = id => row[i].orig # d
  BY <1>1
<1> QED
  BY <1>2, WriteLasts

LEMMA CreateLasts ==
  ASSUME Bounds, SeriesInv, LastInv, NEW c \in Callers, WriteCreate(c)
  PROVE  LastInv'
<1> DEFINE q == seriesCall[c]
           id == Len(series) + 1
           clear == Clear(q.kept, id, 0, {})
           s == [status |-> "active", start |-> q.to, until |-> q.until, end |-> q.until,
                 mat |-> Later(q.at, q.to) + Horizon,
                 skipped |-> q.skipped \cup (q.kept \ clear), rev |-> 0]
<1>1. q.pc = "write" /\ q.kind = "create" /\ seriesNow' = seriesNow
  BY DEF WriteCreate, Writes
<1>2. Typed /\ q \in CallT /\ q.to \in Slots
  BY <1>1 DEF SeriesInv, Typed, Planful, CallOK
<1>3. CASE MustRefuse(c, clear) /\ GivesUp(c)
  BY <1>1, <1>3, WholeEnded DEF GivesUp
<1>4. ASSUME id <= MaxSeries, row' = Append1(row, id, 0, clear), series' = Append(series, s), CallEnds(c)
      PROVE  LastInv'
  <2>0. clear \in SUBSET q.kept
    BY ClearIsFree
  <2>1. /\ q.kept \in SUBSET Slots /\ q.skipped \in SUBSET Slots /\ q.until \in 0 .. Last
        /\ q.at \in 0 .. Last
    BY <1>2 DEF CallT
  <2> HIDE DEF clear, id
  <2>2. s \in SeriesRow
    <3>1. Later(q.at, q.to) + Horizon \in 0 .. Last + Horizon
      BY <1>2, <2>1 DEF Later, Slots, Bounds
    <3> HIDE DEF q
    <3> QED
      BY <1>2, <2>1, <3>1 DEF SeriesRow
  <2>3. \A d \in Slots : Owes(s, seriesNow, d) => d \in clear
    <3> TAKE d \in Slots
    <3> HAVE Owes(s, seriesNow, d)
    <3>1. Gives(q.to, q.until, d) /\ d < Later(q.at, q.to) + Horizon => d \in q.kept \cup q.skipped
      BY <1>1 DEF LastInv, PlansWhole, PlanWhole
    <3>2. Gives(s.start, s.end, d) /\ d < s.mat => d \in q.kept \cup q.skipped
      BY <3>1
    <3>3. s.skipped = q.skipped \cup (q.kept \ clear)
      OBVIOUS
    <3> HIDE DEF s, q
    <3> QED
      BY <3>2, <3>3, AnewOwes
  <2>9. s.end <= s.until
    BY <2>1
  <2> HIDE DEF s
  <2>4. series \in Seq(SeriesRow) /\ row \in Seq(Booking) /\ clear \in SUBSET Slots
    BY <1>2, <2>0, <2>1 DEF Typed
  <2>5. /\ id \in DOMAIN series' /\ id \notin DOMAIN series /\ id \in 0 .. MaxSeries
        /\ DOMAIN series' = DOMAIN series \cup {id} /\ series'[id] = s
        /\ \A k \in DOMAIN series : series'[k] = series[k]
    <3>1. DOMAIN series = 1 .. Len(series) /\ Len(series) \in Nat /\ DOMAIN series' = 1 .. Len(series) + 1
      BY <1>4, <2>2, <2>4, AppendProperties
    <3>2. DOMAIN series' = DOMAIN series \cup {id}
      BY <3>1 DEF id
    <3> QED
      BY <1>4, <2>2, <2>4, <3>2, SeriesAdded DEF id
  <2>6. Stays(row, row', {})
    <3>1. Stays(row, row, {}) /\ 0 \in Nat
      BY DEF Stays
    <3> QED
      BY <1>4, <2>4, <2>5, <3>1, AppendStays
  <2>7. \A d \in clear : Stands(row', id, d)
    BY <1>4, <2>4, <2>5, AppendHolds
  <2>8. \A k \in DOMAIN series' : \A d \in Slots : Owes(series'[k], seriesNow', d) =>
            Stands(row', k, d) \/ (k \in DOMAIN series /\ Owes(series[k], seriesNow, d))
    BY <1>1, <2>3, <2>5, <2>7
  <2>10. EndsFirst(series')
    BY <2>5, <2>9 DEF EndsFirst, LastInv
  <2> HIDE DEF q
  <2> QED
    BY <1>1, <1>4, <2>6, <2>8, <2>10, WriteAdds
<1> QED
  BY <1>3, <1>4 DEF WriteCreate, Call

LEMMA ExtendLasts ==
  ASSUME Bounds, SeriesInv, LastInv, NEW c \in Callers, WriteExtend(c)
  PROVE  LastInv'
<1> DEFINE q == seriesCall[c]
           id == q.id
           s == q.seen
           target == q.at + Horizon
           clear == Clear(q.kept, id, s.rev + 1, {})
           status == IF Dates(s, target, Last + 1) = {} THEN "ended" ELSE "active"
           skipped == s.skipped \cup (q.kept \ clear)
           n == [series[id] EXCEPT !.mat = target, !.rev = s.rev + 1, !.skipped = skipped,
                                   !.status = status]
<1>1. q.pc = "write" /\ q.kind = "extend" /\ seriesNow' = seriesNow
  BY DEF WriteExtend, Writes
<1>2. /\ Typed /\ q \in CallT /\ PlanOf(q, series, row) /\ id \in DOMAIN series
      /\ q.at <= seriesNow
  BY <1>1 DEF SeriesInv, Typed, Planful, CallOK
<1>3. CASE GivesUp(c)
  BY <1>1, <1>3, WholeEnded DEF GivesUp
<1>4. ASSUME SameRevision(c), row' = Append1(row, id, s.rev + 1, clear),
             series' = [series EXCEPT ![id] = n], CallEnds(c)
      PROVE  LastInv'
  <2>0. clear \in SUBSET q.kept
    BY ClearIsFree
  <2>1. /\ q.kept \in SUBSET Slots /\ q.at \in 0 .. Last /\ seriesNow \in 0 .. Last
    BY <1>2 DEF CallT, Typed
  <2>2. s = series[id] /\ s.status # "cancelled"
    <3>1. s.rev = series[id].rev
      BY <1>4 DEF SameRevision, Call
    <3> QED
      BY <1>1, <1>2, <3>1 DEF PlanOf
  <2>3. /\ s \in SeriesRow /\ id \in 0 .. MaxSeries /\ s.rev \in Nat /\ s.mat \in 0 .. Last + Horizon
        /\ s.until \in 0 .. Last /\ s.end \in 0 .. Last /\ s.start \in Slots
    BY <1>2, <2>2, SeriesTyped
  <2>4. s.end <= s.until
    BY <1>2, <2>2 DEF LastInv, EndsFirst
  <2>5. \A d \in Slots : Gives(s.start, s.until, d) /\ s.mat <= d /\ q.at < d /\ d < target => d \in q.kept
    BY <1>1 DEF LastInv, PlansWhole, PlanWhole, target
  <2>6. /\ n.start = s.start /\ n.end = s.end /\ n.until = s.until /\ n.mat = target
        /\ n.skipped = skipped
    <3> DEFINE u == series[id]
               m == [u EXCEPT !.mat = target, !.rev = s.rev + 1, !.skipped = skipped,
                              !.status = status]
    <3>1. u \in SeriesRow /\ u = s
      BY <2>2, <2>3
    <3>2. m.start = u.start /\ m.end = u.end /\ m.until = u.until /\ m.mat = target
          /\ m.skipped = skipped
      <4> HIDE DEF u, q, target, skipped, status
      <4> QED
        BY <3>1 DEF SeriesRow
    <3> QED
      BY <3>1, <3>2
  <2> HIDE DEF n, status
  <2>7. \A d \in Slots : Owes(n, seriesNow, d) => d \in clear \/ Owes(s, seriesNow, d)
    <3> SUFFICES ASSUME NEW d \in Slots, Owes(n, seriesNow, d), ~ (d < s.mat) PROVE d \in clear
      <4>1. ASSUME NEW d \in Slots, Owes(n, seriesNow, d), d < s.mat PROVE Owes(s, seriesNow, d)
        <5>1. d \notin skipped
          BY <2>6, <4>1 DEF Owes
        <5> QED
          BY <2>2, <2>6, <4>1, <5>1 DEF Owes
      <4> QED
        BY <4>1
    <3>1. d \notin skipped /\ Gives(s.start, s.end, d) /\ seriesNow < d /\ d < target
      BY <2>6 DEF Owes
    <3>2. Gives(s.start, s.until, d)
      BY <2>3, <2>4, <3>1 DEF Gives, Slots
    <3>3. s.mat <= d /\ q.at < d
      <4>1. d \in Nat
        BY DEF Slots
      <4> HIDE DEF q, target, skipped, clear
      <4> QED
        BY <1>2, <2>1, <2>3, <3>1, <4>1
    <3> HIDE DEF target, clear
    <3>4. d \in q.kept
      BY <2>5, <3>1, <3>2, <3>3
    <3> QED
      BY <3>1, <3>4
  <2>8. /\ DOMAIN series' = DOMAIN series /\ series'[id] = n
        /\ \A k \in DOMAIN series : k # id => series'[k] = series[k]
    <3>1. series' = [series EXCEPT ![id] = n] /\ series \in Seq(SeriesRow)
      BY <1>2, <1>4 DEF n, Typed, status
    <3> QED
      BY <1>2, <3>1
  <2>9. row \in Seq(Booking) /\ clear \in SUBSET Slots /\ s.rev + 1 \in Nat
    BY <1>2, <2>0, <2>1, <2>3 DEF Typed
  <2> HIDE DEF clear, skipped, target
  <2>10. Stays(row, row', {})
    <3>1. Stays(row, row, {})
      BY DEF Stays
    <3> QED
      BY <1>4, <2>3, <2>9, <3>1, AppendStays
  <2>11. \A d \in clear : Stands(row', id, d)
    BY <1>4, <2>3, <2>9, AppendHolds
  <2>12. \A k \in DOMAIN series' : \A d \in Slots : Owes(series'[k], seriesNow', d) =>
            Stands(row', k, d) \/ (k \in DOMAIN series /\ Owes(series[k], seriesNow, d))
    BY <1>1, <2>2, <2>7, <2>8, <2>11
  <2>13. EndsFirst(series')
    BY <2>4, <2>6, <2>8 DEF EndsFirst, LastInv
  <2> HIDE DEF q, id
  <2> QED
    BY <1>1, <1>4, <2>10, <2>12, <2>13, WriteAdds
<1>5. \/ GivesUp(c)
      \/ /\ SameRevision(c) /\ row' = Append1(row, id, s.rev + 1, clear)
         /\ series' = [series EXCEPT ![id] = n] /\ CallEnds(c)
  BY DEF WriteExtend, Call
<1> QED
  BY <1>3, <1>4, <1>5

LEMMA CancelLasts ==
  ASSUME Bounds, SeriesInv, LastInv, NEW c \in Callers, WriteCancel(c)
  PROVE  LastInv'
<1> DEFINE q == seriesCall[c]
           id == q.id
           s == q.seen
           cut == Pivot(q, s)
           whole == s.start > q.at /\ cut <= s.start
           trims == ~ whole /\ cut # NoCut /\ cut - 1 < s.until /\ Dates(s, cut, Last + 1) # {}
           gone == {i \in On : /\ row[i].series = id /\ row[i].at > q.at
                               /\ \/ whole \/ q.scope = "series"
                                  \/ cut # NoCut /\ row[i].orig >= cut}
           u == series[id]
           n1 == [u EXCEPT !.status = "cancelled", !.rev = s.rev + 1]
           n2 == [u EXCEPT !.until = cut - 1, !.rev = s.rev + 1, !.end = Earlier(s.end, cut - 1),
                           !.status = IF u.mat >= cut THEN "ended" ELSE u.status]
           n3 == [u EXCEPT !.rev = s.rev + 1]
           n == IF whole THEN n1 ELSE IF trims THEN n2 ELSE n3
<1>1. q.pc = "write" /\ q.kind = "cancel" /\ seriesNow' = seriesNow
  BY DEF WriteCancel, Writes
<1>2. /\ Typed /\ q \in CallT /\ PlanOf(q, series, row) /\ id \in DOMAIN series
      /\ q.row \in DOMAIN row
  BY <1>1 DEF SeriesInv, Typed, Planful, CallOK
<1>3. \/ Stale(c)
      \/ GivesUp(c)
      \/ /\ SameRevision(c) /\ row' = Turned(gone, "off")
         /\ series' = [series EXCEPT ![id] = n] /\ CallEnds(c)
  BY DEF WriteCancel, Call
<1>4. CASE Stale(c)
  BY <1>1, <1>4, StaleWhole
<1>5. CASE GivesUp(c)
  BY <1>1, <1>5, WholeEnded DEF GivesUp
<1>6. ASSUME SameRevision(c), row' = Turned(gone, "off"), series' = [series EXCEPT ![id] = n], CallEnds(c)
      PROVE  LastInv'
  <2>1. s = u /\ u.status # "cancelled"
    <3>1. s.rev = series[id].rev
      BY <1>6 DEF SameRevision, Call
    <3>2. s.status # "cancelled"
      BY <1>1 DEF LastInv, PlansWhole, PlanWhole
    <3> QED
      BY <1>1, <1>2, <3>1, <3>2 DEF PlanOf
  <2>2. /\ u \in SeriesRow /\ u.rev \in Nat /\ u.start \in Slots /\ u.until \in 0 .. Last
        /\ u.mat \in 0 .. Last + Horizon /\ row \in Seq(Booking) /\ u.end \in 0 .. Last
        /\ series \in Seq(SeriesRow)
    BY <1>2, SeriesTyped DEF Typed
  <2>3. cut \in Slots \cup {NoCut}
    <3>1. row[q.row] \in Booking /\ q.at \in 0 .. Last
      BY <1>2, <2>2 DEF CallT
    <3>2. row[q.row].orig \in Slots
      BY <3>1 DEF Booking
    <3> QED
      BY <2>1, <2>2, <3>1, <3>2, CutIsSlot DEF Pivot
  <2>4. u.end <= u.until
    BY <1>2 DEF LastInv, EndsFirst
  <2>5. trims => cut # NoCut
    OBVIOUS
  <2>15. row' = Turned(gone, "off") /\ series' = [series EXCEPT ![id] = n]
    BY <1>6
  <2> HIDE DEF u, cut, whole, trims, gone
  <2>6. cut # NoCut => Earlier(s.end, cut - 1) <= cut - 1 /\ Earlier(s.end, cut - 1) <= u.end
    BY <2>1, <2>2, <2>3 DEF Earlier, Slots
  <2>7. n1.status = "cancelled" /\ n1.end = u.end /\ n1.until = u.until
    <3> HIDE DEF q
    <3> QED
      BY <2>2 DEF SeriesRow
  <2>8. /\ n3.start = u.start /\ n3.until = u.until /\ n3.end = u.end
        /\ n3.mat = u.mat /\ n3.status = u.status /\ n3.skipped = u.skipped
    <3> HIDE DEF q
    <3> QED
      BY <2>2 DEF SeriesRow
  <2>9. /\ n2.start = u.start /\ n2.until = cut - 1 /\ n2.end = Earlier(s.end, cut - 1)
        /\ n2.mat = u.mat /\ n2.skipped = u.skipped
    <3> HIDE DEF q
    <3> QED
      BY <2>2 DEF SeriesRow
  <2>10. /\ n.end <= n.until
         /\ n.status # "cancelled" =>
              n.start = u.start /\ n.end <= u.end /\ n.mat = u.mat /\ n.skipped = u.skipped
    <3> HIDE DEF n1, n2, n3, q
    <3>1. CASE whole
      <4>1. n = n1
        BY <3>1
      <4> HIDE DEF n
      <4> QED
        BY <2>4, <2>7, <4>1
    <3>2. CASE ~ whole /\ trims
      BY <2>5, <2>6, <2>9, <3>2
    <3>3. CASE ~ whole /\ ~ trims
      BY <2>2, <2>4, <2>8, <3>3
    <3> QED
      BY <3>1, <3>2, <3>3
  <2>12. n.end \in Int
    <3> HIDE DEF n1, n2, n3
    <3>1. CASE ~ whole /\ trims
      BY <2>1, <2>2, <2>3, <2>9, <3>1 DEF Earlier, Slots, NoCut
    <3> QED
      BY <2>2, <2>7, <2>8, <3>1
  <2> HIDE DEF n, n1, n2, n3
  <2>11. \A d \in Slots : Owes(n, seriesNow, d) => Owes(u, seriesNow, d)
    <3> SUFFICES ASSUME NEW d \in Slots, Owes(n, seriesNow, d) PROVE Owes(u, seriesNow, d)
      OBVIOUS
    <3>1. n.start = u.start /\ n.end <= u.end /\ n.mat = u.mat /\ n.skipped = u.skipped
      BY <2>10 DEF Owes
    <3>2. Gives(u.start, u.end, d)
      BY <2>2, <2>12, <3>1 DEF Owes, Gives, Slots
    <3> QED
      BY <2>1, <3>1, <3>2 DEF Owes
  <2>13. /\ DOMAIN series' = DOMAIN series /\ series'[id] = n
         /\ \A k \in DOMAIN series : k # id => series'[k] = series[k]
    BY <1>2, <2>2, <2>15
  <2>14. Stays(row, row', {})
    BY <2>2, <2>15, TurnedStays
  <2>16. \A k \in DOMAIN series' : \A d \in Slots : Owes(series'[k], seriesNow', d) =>
            Stands(row', k, d) \/ (k \in DOMAIN series /\ Owes(series[k], seriesNow, d))
    <3> SUFFICES ASSUME NEW k \in DOMAIN series, NEW d \in Slots, Owes(series'[k], seriesNow, d)
                 PROVE  Owes(series[k], seriesNow, d)
      BY <1>1, <2>13
    <3>1. CASE k = id
      BY <2>11, <2>13, <3>1 DEF u
    <3>2. CASE k # id
      BY <2>13, <3>2
    <3> QED
      BY <3>1, <3>2
  <2>17. EndsFirst(series')
    BY <2>10, <2>13 DEF EndsFirst, LastInv
  <2> HIDE DEF q, id
  <2> QED
    BY <1>1, <1>6, <2>14, <2>16, <2>17, WriteAdds
<1> QED
  BY <1>3, <1>4, <1>5, <1>6

LEMMA MoveLasts ==
  ASSUME Bounds, SeriesInv, LastInv, NEW c \in Callers, WriteMove(c)
  PROVE  LastInv'
<1> DEFINE q == seriesCall[c]
           s == q.seen
           pivot == Pivot(q, s)
           whole == pivot = s.start /\ s.start > q.at
           id == IF whole THEN q.id ELSE Len(series) + 1
           rev == IF whole THEN s.rev + 1 ELSE 0
           clear == Clear(q.kept, id, rev, q.replacing)
           skipped == q.skipped \cup (q.kept \ clear)
           moved == [status |-> "active", start |-> q.to, until |-> s.until, end |-> s.until,
                     mat |-> Later(q.at, q.to) + Horizon, skipped |-> skipped, rev |-> rev]
           cut == [series EXCEPT ![q.id].until = pivot - 1, ![q.id].status = "ended",
                                 ![q.id].rev = s.rev + 1,
                                 ![q.id].end = Earlier(s.end, pivot - 1)]
<1>1. q.pc = "write" /\ q.kind = "move" /\ seriesNow' = seriesNow
  BY DEF WriteMove, Writes
<1>2. /\ Typed /\ q \in CallT /\ PlanOf(q, series, row) /\ q.id \in DOMAIN series
      /\ q.row \in DOMAIN row /\ q.to \in Slots
  BY <1>1 DEF SeriesInv, Typed, Planful, CallOK
<1>3. \/ Stale(c)
      \/ GivesUp(c)
      \/ /\ SameRevision(c) /\ id <= MaxSeries /\ CallEnds(c)
         /\ row' = Append1(Turned(q.replacing, "replaced"), id, rev, clear)
         /\ series' = IF whole THEN [series EXCEPT ![id] = moved] ELSE Append(cut, moved)
  BY DEF WriteMove, Call
<1>4. CASE Stale(c)
  BY <1>1, <1>4, StaleWhole
<1>5. CASE GivesUp(c)
  BY <1>1, <1>5, WholeEnded DEF GivesUp
<1>6. ASSUME SameRevision(c), id <= MaxSeries, CallEnds(c),
             row' = Append1(Turned(q.replacing, "replaced"), id, rev, clear),
             series' = IF whole THEN [series EXCEPT ![id] = moved] ELSE Append(cut, moved)
      PROVE  LastInv'
  <2>1. /\ s = series[q.id] /\ s.status # "cancelled" /\ pivot # NoCut
    <3>1. s.rev = series[q.id].rev
      BY <1>6 DEF SameRevision, Call
    <3> QED
      BY <1>1, <1>2, <3>1 DEF PlanOf, Pivot
  <2>2. /\ s \in SeriesRow /\ s.rev \in Nat /\ s.start \in Slots /\ s.until \in 0 .. Last
        /\ s.mat \in 0 .. Last + Horizon /\ row \in Seq(Booking) /\ series \in Seq(SeriesRow)
        /\ q.id \in 0 .. MaxSeries /\ s.end \in 0 .. Last /\ Len(series) \in Nat
    BY <1>2, <2>1, SeriesTyped DEF Typed
  <2>3. pivot \in Slots
    <3>1. row[q.row] \in Booking /\ q.at \in 0 .. Last
      BY <1>2, <2>2 DEF CallT
    <3>2. row[q.row].orig \in Slots
      BY <3>1 DEF Booking
    <3> QED
      BY <2>1, <2>2, <3>1, <3>2, CutIsSlot DEF Pivot
  <2>4. \A i \in q.replacing : i \in DOMAIN row /\ row[i].series = q.id /\ row[i].orig >= pivot
    BY <1>1 DEF LastInv, PlansWhole, PlanWhole, ReplacesFrom, Pivot
  <2>5. q.kept \in SUBSET Slots /\ q.skipped \in SUBSET Slots /\ q.at \in 0 .. Last
    BY <1>2 DEF CallT
  <2>6. clear \in SUBSET Slots
    BY <2>5, ClearIsFree
  <2>7. rev \in Nat /\ s.rev + 1 \in Nat
    BY <2>2
  <2>8. \A d \in Slots : Owes(moved, seriesNow, d) => d \in clear
    <3> TAKE d \in Slots
    <3> HAVE Owes(moved, seriesNow, d)
    <3>1. Gives(q.to, s.until, d) /\ d < Later(q.at, q.to) + Horizon => d \in q.kept \cup q.skipped
      BY <1>1 DEF LastInv, PlansWhole, PlanWhole
    <3>2. Gives(moved.start, moved.end, d) /\ d < moved.mat => d \in q.kept \cup q.skipped
      BY <3>1
    <3>3. moved.skipped = q.skipped \cup (q.kept \ clear)
      OBVIOUS
    <3> HIDE DEF moved, q, clear
    <3> QED
      BY <3>2, <3>3, AnewOwes
  <2>9. moved \in SeriesRow /\ moved.end <= moved.until
    <3>1. Later(q.at, q.to) + Horizon \in 0 .. Last + Horizon
      BY <1>2, <2>5 DEF Later, Slots, Bounds
    <3>2. skipped \in SUBSET Slots
      <4> HIDE DEF clear
      <4> QED
        BY <2>5
    <3> HIDE DEF skipped, rev, q
    <3>3. s.until \in 0 .. Last /\ q.to \in Slots
      BY <1>2, <2>2
    <3> HIDE DEF s
    <3>4. moved \in SeriesRow
      BY <2>7, <3>1, <3>2, <3>3 DEF SeriesRow
    <3>5. moved.end = s.until /\ moved.until = s.until
      OBVIOUS
    <3> QED
      BY <3>3, <3>4, <3>5
  <2> HIDE DEF moved
  <2>10. id \in 0 .. MaxSeries
    <3>1. q.id \in Nat /\ Len(series) \in Nat /\ MaxSeries \in Nat
      BY <2>2, Bounds DEF Bounds
    <3>2. id = q.id \/ id = Len(series) + 1
      OBVIOUS
    <3> HIDE DEF id, q, s, pivot, whole, rev, clear, skipped, cut
    <3>3. id <= MaxSeries
      BY <1>6
    <3> QED
      BY <3>1, <3>2, <3>3
  <2> HIDE DEF clear, rev, id
  <2>11. Stays(row, row', q.replacing)
    <3> DEFINE mid == Turned(q.replacing, "replaced")
    <3>1. Stays(row, mid, q.replacing) /\ mid \in Seq(Booking)
      BY <2>2, TurnedStays
    <3> HIDE DEF mid
    <3>2. row' = Append1(mid, id, rev, clear)
      BY <1>6 DEF mid
    <3> QED
      BY <2>6, <2>7, <2>10, <3>1, <3>2, AppendStays
  <2>12. \A d \in clear : Stands(row', id, d)
    <3> DEFINE mid == Turned(q.replacing, "replaced")
    <3>1. mid \in Seq(Booking)
      BY <2>2, TurnedStays
    <3> HIDE DEF mid
    <3>2. row' = Append1(mid, id, rev, clear)
      BY <1>6 DEF mid
    <3> QED
      BY <2>6, <2>7, <2>10, <3>1, <3>2, AppendHolds
  <2>13. \A k \in DOMAIN series : k # q.id =>
            \A i \in q.replacing \cap DOMAIN row : row[i].series # k
    BY <2>4
  <2>14. CASE whole
    <3>1. id = q.id /\ series' = [series EXCEPT ![q.id] = moved]
      BY <1>6, <2>14 DEF id
    <3>2. /\ DOMAIN series' = DOMAIN series /\ series'[q.id] = moved
          /\ \A k \in DOMAIN series : k # q.id => series'[k] = series[k]
      BY <1>2, <2>2, <3>1
    <3>3. \A k \in DOMAIN series' : \A d \in Slots : Owes(series'[k], seriesNow', d) =>
            \/ Stands(row', k, d)
            \/ /\ k \in DOMAIN series /\ Owes(series[k], seriesNow, d)
               /\ \A i \in q.replacing \cap DOMAIN row : row[i].series = k => row[i].orig # d
      <4> HIDE DEF q
      <4> QED
        BY <1>1, <2>8, <2>12, <2>13, <3>1, <3>2
    <3>4. EndsFirst(series')
      BY <2>9, <3>2 DEF EndsFirst, LastInv
    <3> HIDE DEF q
    <3> QED
      BY <1>1, <1>6, <2>11, <3>3, <3>4, WriteLasts
  <2>15. CASE ~ whole
    <3>0. id = Len(series) + 1 /\ series' = Append(cut, moved)
      BY <1>6, <2>15 DEF id
    <3> DEFINE u == series[q.id]
               e == [u EXCEPT !.until = pivot - 1, !.status = "ended", !.rev = s.rev + 1,
                              !.end = Earlier(s.end, pivot - 1)]
    <3>1. /\ e \in SeriesRow /\ e.start = s.start /\ e.until = pivot - 1 /\ e.mat = s.mat
          /\ e.skipped = s.skipped /\ e.end = Earlier(s.end, pivot - 1)
      <4>1. pivot - 1 \in 0 .. Last /\ Earlier(s.end, pivot - 1) \in 0 .. Last
        BY <2>2, <2>3 DEF Slots, Bounds, Earlier
      <4>2. u = s
        BY <2>1
      <4> HIDE DEF u, pivot, q
      <4> QED
        BY <2>2, <2>7, <4>1, <4>2 DEF SeriesRow
    <3>2. e.end <= e.until /\ e.end <= s.end /\ e.end <= pivot - 1 /\ e.end \in Int /\ pivot \in Int
      <4> HIDE DEF e, pivot, s
      <4> QED
        BY <2>2, <2>3, <3>1 DEF Earlier, Slots
    <3>3. /\ cut \in Seq(SeriesRow) /\ Len(cut) = Len(series) /\ DOMAIN cut = DOMAIN series
          /\ cut[q.id] = e /\ \A k \in DOMAIN series : k # q.id => cut[k] = series[k]
      <4>1. cut = [series EXCEPT ![q.id] = e]
        <5> HIDE DEF pivot, s
        <5> QED
          BY <1>2, <2>2
      <4> HIDE DEF cut, e, q
      <4> QED
        BY <1>2, <2>2, <3>1, <4>1, ExceptSeq
    <3> HIDE DEF cut, e, u
    <3>4. /\ DOMAIN series' = DOMAIN series \cup {id} /\ id \notin DOMAIN series
          /\ series'[id] = moved
          /\ \A k \in DOMAIN series : series'[k] = cut[k]
      <4>1. DOMAIN series = 1 .. Len(series) /\ DOMAIN series' = 1 .. Len(series) + 1
        BY <2>2, <2>9, <3>0, <3>3, AppendProperties
      <4>2. Len(cut) + 1 = id /\ id <= MaxSeries
        BY <1>6, <3>0, <3>3
      <4>3. id \notin DOMAIN cut /\ series'[id] = moved /\ \A k \in DOMAIN cut : series'[k] = cut[k]
        BY <2>9, <3>0, <3>3, <4>2, SeriesAdded
      <4>4. DOMAIN series' = DOMAIN series \cup {id}
        BY <2>2, <3>0, <4>1
      <4> QED
        BY <3>3, <4>3, <4>4
    <3>5. \A d \in Slots : Owes(e, seriesNow, d) =>
            /\ Owes(s, seriesNow, d)
            /\ \A i \in q.replacing \cap DOMAIN row : row[i].orig # d
      <4> SUFFICES ASSUME NEW d \in Slots, Owes(e, seriesNow, d)
                   PROVE  /\ Owes(s, seriesNow, d)
                          /\ \A i \in q.replacing \cap DOMAIN row : row[i].orig # d
        OBVIOUS
      <4>1. d <= e.end /\ d \in Int
        BY DEF Owes, Gives, Slots
      <4>2. d <= s.end /\ ~ (d >= pivot)
        <5> HIDE DEF pivot, s
        <5> QED
          BY <2>2, <3>2, <4>1
      <4>3. Owes(s, seriesNow, d)
        BY <2>1, <3>1, <4>2 DEF Owes, Gives
      <4>4. \A i \in q.replacing \cap DOMAIN row : row[i].orig # d
        BY <2>4, <4>2
      <4> QED
        BY <4>3, <4>4
    <3>6. \A k \in DOMAIN series' : \A d \in Slots : Owes(series'[k], seriesNow', d) =>
            \/ Stands(row', k, d)
            \/ /\ k \in DOMAIN series /\ Owes(series[k], seriesNow, d)
               /\ \A i \in q.replacing \cap DOMAIN row : row[i].series = k => row[i].orig # d
      <4> SUFFICES ASSUME NEW k \in DOMAIN series', NEW d \in Slots, Owes(series'[k], seriesNow, d)
                   PROVE  \/ Stands(row', k, d)
                          \/ /\ k \in DOMAIN series /\ Owes(series[k], seriesNow, d)
                             /\ \A i \in q.replacing \cap DOMAIN row :
                                   row[i].series = k => row[i].orig # d
        BY <1>1
      <4> HIDE DEF q, s, pivot
      <4>1. CASE k = id
        BY <2>8, <2>12, <3>4, <4>1
      <4>2. CASE k = q.id /\ k # id
        <5>1. Owes(e, seriesNow, d) /\ k \in DOMAIN series
          BY <3>3, <3>4, <4>2
        <5> QED
          BY <2>1, <3>5, <4>2, <5>1
      <4>3. CASE k # q.id /\ k # id
        <5>1. series'[k] = series[k] /\ k \in DOMAIN series
          BY <3>3, <3>4, <4>3
        <5> QED
          BY <2>13, <4>3, <5>1
      <4> QED
        BY <4>1, <4>2, <4>3
    <3>7. EndsFirst(series')
      <4> SUFFICES ASSUME NEW k \in DOMAIN series' PROVE series'[k].end <= series'[k].until
        BY DEF EndsFirst
      <4> HIDE DEF q
      <4>1. CASE k = id
        BY <2>9, <3>4, <4>1
      <4>2. CASE k = q.id /\ k # id
        BY <3>2, <3>3, <3>4, <4>2
      <4>3. CASE k # q.id /\ k # id
        BY <3>3, <3>4, <4>3 DEF LastInv, EndsFirst
      <4> QED
        BY <4>1, <4>2, <4>3
    <3> HIDE DEF q
    <3> QED
      BY <1>1, <1>6, <2>11, <3>6, <3>7, WriteLasts
  <2> QED
    BY <2>14, <2>15
<1> QED
  BY <1>3, <1>4, <1>5, <1>6

(* A change of a single booking leaves the series, and every date's row. *)
LEMMA SingleLasts ==
  ASSUME SeriesInv, LastInv, UNCHANGED <<seriesNow, series, seriesCall>>,
         DOMAIN row \subseteq DOMAIN row',
         \A i \in DOMAIN row : row'[i].series = row[i].series /\ row'[i].orig = row[i].orig,
         \A i \in DOMAIN row : row[i].status \in {"on", "off"} =>
            \E j \in DOMAIN row' : /\ row'[j].series = row[i].series /\ row'[j].orig = row[i].orig
                                   /\ row'[j].status \in {"on", "off"}
  PROVE  LastInv'
<1>1. \A id, d : Stands(row, id, d) => Stands(row', id, d)
  <2> SUFFICES ASSUME NEW id, NEW d, Stands(row, id, d) PROVE Stands(row', id, d)
    OBVIOUS
  <2>1. PICK i \in DOMAIN row :
          row[i].series = id /\ row[i].orig = d /\ row[i].status \in {"on", "off"}
    BY DEF Stands
  <2> QED
    BY <2>1 DEF Stands
<1>2. Lasting(series', row', seriesNow')
  BY <1>1 DEF LastInv, Lasting
<1>3. PlansWhole'
  <2> SUFFICES ASSUME NEW e \in Callers PROVE PlanWhole(seriesCall[e], row')
    BY DEF PlansWhole
  <2> DEFINE q == seriesCall[e]
  <2>1. PlanWhole(q, row) /\ CallOK(q, series, row, seriesNow)
    BY DEF LastInv, PlansWhole, SeriesInv, Planful
  <2> HIDE DEF q
  <2>2. ASSUME q.pc = "write", q.kind = "move" PROVE ReplacesFrom(q, row')
    <3>1. ReplacesFrom(q, row) /\ q.row \in DOMAIN row
      BY <2>1, <2>2 DEF PlanWhole, CallOK
    <3>2. row'[q.row].orig = row[q.row].orig
      BY <3>1
    <3> QED
      BY <3>1, <3>2 DEF ReplacesFrom
  <2>3. PlanWhole(q, row')
    BY <2>1, <2>2 DEF PlanWhole
  <2> QED
    BY <2>3 DEF q
<1> QED
  BY <1>2, <1>3 DEF LastInv, EndsFirst, Lasting, Stands, Owes, Gives

LEMMA BookOtherLasts ==
  ASSUME Bounds, SeriesInv, LastInv, BookOther
  PROVE  LastInv'
<1>1. PICK slot \in Slots :
        row' = Append(row, [Date(NoSeries, 0, slot) EXCEPT !.alone = TRUE]) /\ Single
  BY DEF BookOther
<1>2. row \in Seq(Booking)
  BY DEF SeriesInv, Typed
<1> DEFINE new == [Date(NoSeries, 0, slot) EXCEPT !.alone = TRUE]
<1> HIDE DEF new
<1>3. /\ DOMAIN row \subseteq DOMAIN row' /\ \A i \in DOMAIN row : row'[i] = row[i]
  <2>1. row' = Append(row, new)
    BY <1>1 DEF new
  <2>2. DOMAIN row = 1 .. Len(row) /\ DOMAIN row' = 1 .. Len(row) + 1 /\ Len(row) \in Nat
        /\ \A i \in 1 .. Len(row) : row'[i] = row[i]
    BY <1>2, <2>1
  <2> QED
    BY <2>2
<1> QED
  BY <1>1, <1>3, SingleLasts DEF Single

LEMMA CancelOneLasts ==
  ASSUME Bounds, SeriesInv, LastInv, NEW i \in DOMAIN row, CancelOne(i)
  PROVE  LastInv'
<1>1. Stays(row, row', {})
  BY TurnedStays DEF CancelOne, SeriesInv, Typed
<1> QED
  BY <1>1, SingleLasts DEF CancelOne, Single, Stays

(* The date moved by itself has a new row, on. *)
LEMMA MoveOneLasts ==
  ASSUME Bounds, SeriesInv, LastInv, NEW i \in DOMAIN row, MoveOne(i)
  PROVE  LastInv'
<1>1. PICK slot \in Slots :
        /\ i \in On /\ row' = Append(Turned({i}, "replaced"), [row[i] EXCEPT !.at = slot, !.alone = TRUE])
        /\ Single
  BY DEF MoveOne
<1> DEFINE mid == Turned({i}, "replaced")
           new == [row[i] EXCEPT !.at = slot, !.alone = TRUE]
<1>2. row \in Seq(Booking) /\ row[i] \in Booking
  BY DEF SeriesInv, Typed
<1>3. Stays(row, mid, {i}) /\ mid \in Seq(Booking) /\ DOMAIN mid = DOMAIN row
  BY <1>2, TurnedStays
<1>4. new \in Booking /\ new.series = row[i].series /\ new.orig = row[i].orig /\ new.status = "on"
  BY <1>1, <1>2 DEF Booking, On
<1>5. row' = Append(mid, new)
  BY <1>1
<1> HIDE DEF mid, new
<1>6. /\ DOMAIN mid = 1 .. Len(mid) /\ DOMAIN row' = 1 .. Len(mid) + 1 /\ Len(mid) \in Nat
      /\ \A k \in 1 .. Len(mid) : row'[k] = mid[k]
      /\ row'[Len(mid) + 1] = new
  BY <1>3, <1>4, <1>5, AppendProperties
<1>7. DOMAIN row \subseteq DOMAIN row' /\ Len(mid) + 1 \in DOMAIN row'
      /\ \A k \in DOMAIN row : row'[k] = mid[k]
  BY <1>3, <1>6
<1>8. \A k \in DOMAIN row : row'[k].series = row[k].series /\ row'[k].orig = row[k].orig
  BY <1>3, <1>7 DEF Stays
<1>9. \A k \in DOMAIN row : row[k].status \in {"on", "off"} =>
        \E j \in DOMAIN row' : /\ row'[j].series = row[k].series /\ row'[j].orig = row[k].orig
                               /\ row'[j].status \in {"on", "off"}
  <2> SUFFICES ASSUME NEW k \in DOMAIN row, row[k].status \in {"on", "off"}
               PROVE  \E j \in DOMAIN row' :
                        /\ row'[j].series = row[k].series /\ row'[j].orig = row[k].orig
                        /\ row'[j].status \in {"on", "off"}
    OBVIOUS
  <2>1. CASE k = i
    BY <1>4, <1>6, <1>7, <2>1
  <2>2. CASE k # i
    <3>1. row'[k].status \in {"on", "off"} /\ k \in DOMAIN row'
      BY <1>3, <1>7, <2>2 DEF Stays
    <3> QED
      BY <1>8, <3>1
  <2> QED
    BY <2>1, <2>2
<1> QED
  BY <1>1, <1>7, <1>8, <1>9, SingleLasts DEF Single

LEMMA TickLasts ==
  ASSUME Bounds, SeriesInv, LastInv, SeriesTick
  PROVE  LastInv'
<1>1. seriesNow \in Nat /\ seriesNow' = seriesNow + 1 /\ UNCHANGED <<series, row, seriesCall, seriesUsed>>
  BY DEF SeriesTick, SeriesInv, Typed, Bounds
<1>2. \A s, d : d \in Slots /\ Owes(s, seriesNow', d) => Owes(s, seriesNow, d)
  BY <1>1 DEF Owes, Slots
<1>3. Lasting(series', row', seriesNow')
  BY <1>1, <1>2 DEF LastInv, Lasting
<1>4. PlansWhole'
  BY <1>1 DEF LastInv, PlansWhole, PlanWhole, ReplacesFrom
<1> QED
  BY <1>1, <1>3, <1>4 DEF LastInv, EndsFirst, Lasting, Stands, Owes, Gives

(* No date to come is lost, whoever writes first. *)
LEMMA LastInvHolds ==
  ASSUME Bounds
  PROVE  SeriesSpec => []LastInv
<1>1. SeriesInit => LastInv
  <2> SUFFICES ASSUME SeriesInit PROVE LastInv
    OBVIOUS
  <2>1. DOMAIN series = {}
    BY DEF SeriesInit
  <2>2. \A c \in Callers : seriesCall[c].pc = "idle"
    BY NoCallIsCall DEF SeriesInit
  <2> QED
    BY <2>1, <2>2 DEF LastInv, Lasting, EndsFirst, PlansWhole, PlanWhole
<1>2. SeriesInv /\ LastInv /\ [SeriesNext]_seriesVars => LastInv'
  <2> SUFFICES ASSUME SeriesInv, LastInv, [SeriesNext]_seriesVars PROVE LastInv'
    OBVIOUS
  <2>1. ASSUME NEW c \in Callers, StartCall(c) \/ Again(c) PROVE LastInv'
    BY <2>1, CallWhole
  <2>2. ASSUME NEW c \in Callers, WriteCall(c) PROVE LastInv'
    BY <2>2, CreateLasts, ExtendLasts, CancelLasts, MoveLasts DEF WriteCall
  <2>3. CASE BookOther
    BY <2>3, BookOtherLasts
  <2>4. ASSUME NEW i \in DOMAIN row, CancelOne(i) \/ MoveOne(i) PROVE LastInv'
    BY <2>4, CancelOneLasts, MoveOneLasts
  <2>5. CASE SeriesTick
    BY <2>5, TickLasts
  <2>6. CASE UNCHANGED seriesVars
    BY <2>6 DEF seriesVars, LastInv, EndsFirst, Lasting, Stands, Owes, Gives, PlansWhole, PlanWhole,
                ReplacesFrom
  <2> QED
    BY <2>1, <2>2, <2>3, <2>4, <2>5, <2>6 DEF SeriesNext
<1> QED
  BY <1>1, <1>2, SeriesInvHolds, PTL DEF SeriesSpec

(* NoDateLost: whatever was cut, moved, extended or cancelled meanwhile,    *)
(* every date a series still lists up to the horizon has its row.           *)
THEOREM SeriesLosesNoDate ==
  ASSUME Bounds
  PROVE  SeriesSpec => []NoDateLost
<1>1. SeriesInv /\ LastInv => NoDateLost
  <2> SUFFICES ASSUME SeriesInv, LastInv, NEW id \in DOMAIN series, series[id].status # "cancelled",
                      NEW d \in Dates(series[id], seriesNow + 1, series[id].mat) \ series[id].skipped,
                      d <= series[id].end
               PROVE  \E i \in DOMAIN row :
                        row[i].series = id /\ row[i].orig = d /\ row[i].status \in {"on", "off"}
    BY DEF NoDateLost
  <2> DEFINE s == series[id]
  <2>1. /\ s \in SeriesRow /\ s.start \in Slots /\ s.until \in 0 .. Last
        /\ s.mat \in Nat /\ seriesNow + 1 \in Nat /\ seriesNow \in Nat
    <3>1. s \in SeriesRow /\ s.start \in Slots /\ s.until \in 0 .. Last /\ s.mat \in 0 .. Last + Horizon
      BY SeriesTyped DEF SeriesInv
    <3>2. seriesNow \in 0 .. Last
      BY DEF SeriesInv, Typed
    <3> HIDE DEF s
    <3> QED
      BY <3>1, <3>2 DEF Bounds
  <2> HIDE DEF s
  <2>2. d \in Slots /\ Gives(s.start, s.until, d) /\ seriesNow + 1 <= d /\ d < s.mat
    BY <2>1, DatesGive DEF s
  <2>3. seriesNow < d
    BY <2>1, <2>2 DEF Slots
  <2>4. Owes(s, seriesNow, d)
    BY <2>2, <2>3 DEF Owes, Gives, s
  <2> QED
    BY <2>2, <2>4 DEF LastInv, Lasting, Stands, s
<1> QED
  BY <1>1, SeriesInvHolds, LastInvHolds, PTL
=============================================================================
