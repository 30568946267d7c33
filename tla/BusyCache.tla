------------------------------- MODULE BusyCache -------------------------------
(***************************************************************************)
(* One process's cache of busy reads.  A read of a connection's window is  *)
(* a flight: it asks the calendar, and lands (or fails) later.  Whoever    *)
(* asks meanwhile joins it, until its timeout; an invalidation after a     *)
(* booking's write makes what is held, and what is in flight, not fresh.   *)
(***************************************************************************)
EXTENDS Naturals, Sequences, FiniteSets

CONSTANTS
    Refs,        \* calendar connections
    Windows,     \* "day", "month": which stretch of time a read wants
    Ttl, MaxStale, ReadTimeout, Cooldown,  \* ttlMs, maxStaleMs, readTimeoutMs, failureCooldownMs
    MaxEntries,  \* maxEntries
    PruneAt,     \* generations kept before they are pruned (maxEntries * 2)
    MaxCacheTime, MaxWrites  \* bounds

(* BusyCacheOptions; the constructor raises maxEntries to 1 at least. *)
ASSUME CacheSizesAssumption ==
    /\ Ttl \in Nat /\ MaxStale \in Nat /\ ReadTimeout \in Nat /\ Cooldown \in Nat
    /\ MaxEntries \in Nat \ {0} /\ PruneAt \in Nat
    /\ MaxCacheTime \in Nat /\ MaxWrites \in Nat

VARIABLES
    cacheNow,
    calendar,    \* version of what each connection's calendar holds
    announced,   \* the version each connection was last invalidated for
    held,        \* entries, least recently used first
    flights,
    generation,  \* a partial map: no entry counts as 0
    failedAt     \* a partial map

cacheVars == <<cacheNow, calendar, announced, held, flights, generation, failedAt>>

-----------------------------------------------------------------------------
Contains(outer, inner) == outer = "month" \/ inner = "day"

Entry == [ref : Refs, window : Windows, version : 0 .. MaxWrites,
          fetchedAt : 0 .. MaxCacheTime, freshUntil : 0 .. MaxCacheTime + Ttl]
Flight == [ref : Refs, window : Windows, version : 0 .. MaxWrites, read : BOOLEAN,
           startedAt : 0 .. MaxCacheTime, gen : Nat, waiting : SUBSET Windows]

EmptyMap == <<>>
Put(map, r, v) == [x \in DOMAIN map \cup {r} |-> IF x = r THEN v ELSE map[x]]
Without(map, R) == [x \in DOMAIN map \ R |-> map[x]]
Gen(r) == IF r \in DOMAIN generation THEN generation[r] ELSE 0

CacheInit ==
    /\ cacheNow = 0
    /\ calendar = [r \in Refs |-> 0] /\ announced = [r \in Refs |-> 0]
    /\ held = <<>> /\ flights = {}
    /\ generation = EmptyMap /\ failedAt = EmptyMap

-----------------------------------------------------------------------------
Longest == IF MaxStale > Ttl THEN MaxStale ELSE Ttl
Useless(e, r) == e.ref = r /\ cacheNow - e.fetchedAt > Longest
Fresh(e) == cacheNow < e.freshUntil

(* best: a fresh window that covers the one wanted, else the latest read. *)
Better(e, f) == IF Fresh(e) # Fresh(f) THEN Fresh(e) ELSE e.fetchedAt > f.fetchedAt
Covering(r, w) ==
    {i \in DOMAIN held : held[i].ref = r /\ Contains(held[i].window, w) /\ ~ Useless(held[i], r)}
Best(r, w) == CHOOSE i \in Covering(r, w) : \A j \in Covering(r, w) : ~ Better(held[j], held[i])

(* The entries at the positions of I, in their order. *)
EntriesAt(I) ==
    LET nth(k) == CHOOSE i \in I : Cardinality({j \in I : j < i}) = k - 1
    IN [k \in 1 .. Cardinality(I) |-> held[nth(k)]]

(* What is too old to be of use is dropped whenever it is looked over. *)
Useful(r) == {i \in DOMAIN held : ~ Useless(held[i], r)}
Kept(r) == EntriesAt(Useful(r))
Touched(r, i) == Append(EntriesAt(Useful(r) \ {i}), held[i])

YoungEnough(e) == cacheNow - e.fetchedAt <= MaxStale

(* fallback: the last good read stands in while it is young enough. *)
Fallback(r, w) ==
    IF Covering(r, w) # {} /\ YoungEnough(held[Best(r, w)])
    THEN held' = Touched(r, Best(r, w))
    ELSE held' = Kept(r)

FlightsFor(r, w) == {f \in flights : f.ref = r /\ Contains(f.window, w)}
CoolingDown(r) == r \in DOMAIN failedAt /\ cacheNow - failedAt[r] < Cooldown
Overdue(f) == cacheNow >= f.startedAt + ReadTimeout

Hit(r, w) ==
    /\ Covering(r, w) # {} /\ Fresh(held[Best(r, w)])
    /\ held' = Touched(r, Best(r, w))
    /\ UNCHANGED <<cacheNow, calendar, announced, flights, generation, failedAt>>

Miss(r, w) == \A i \in Covering(r, w) : ~ Fresh(held[i])

(* A connection that just failed is not asked; a flight past its timeout is *)
(* not waited for.                                                         *)
StandIn(r, w) ==
    /\ Miss(r, w)
    /\ IF FlightsFor(r, w) = {} THEN CoolingDown(r) ELSE \E f \in FlightsFor(r, w) : Overdue(f)
    /\ Fallback(r, w)
    /\ UNCHANGED <<cacheNow, calendar, announced, flights, generation, failedAt>>

Join(r, w) ==
    \E f \in FlightsFor(r, w) :
        /\ Miss(r, w) /\ ~ Overdue(f)
        /\ flights' = (flights \ {f}) \cup {[f EXCEPT !.waiting = @ \cup {w}]}
        /\ held' = Kept(r)
        /\ UNCHANGED <<cacheNow, calendar, announced, generation, failedAt>>

StartFlight(r, w) ==
    /\ Miss(r, w) /\ FlightsFor(r, w) = {} /\ ~ CoolingDown(r)
    /\ flights' = flights \cup {[ref |-> r, window |-> w, version |-> 0, read |-> FALSE,
                                 startedAt |-> cacheNow, gen |-> Gen(r), waiting |-> {w}]}
    /\ held' = Kept(r)
    /\ UNCHANGED <<cacheNow, calendar, announced, generation, failedAt>>

-----------------------------------------------------------------------------
(* The calendar makes up its answer; it arrives later. *)
CalendarAnswers(f) ==
    /\ ~ f.read
    /\ flights' = (flights \ {f}) \cup {[f EXCEPT !.read = TRUE, !.version = calendar[f.ref]]}
    /\ UNCHANGED <<cacheNow, calendar, announced, held, generation, failedAt>>

(* store: in place of the window's entry; the least recently used goes out. *)
Stored(e) ==
    LET others == EntriesAt({i \in DOMAIN held : held[i].ref # e.ref \/ held[i].window # e.window})
    IN IF Len(others) >= MaxEntries THEN Append(SubSeq(others, Len(others) - MaxEntries + 2, Len(others)), e)
       ELSE Append(others, e)

Landed(f) ==
    [ref |-> f.ref, window |-> f.window, version |-> f.version, fetchedAt |-> f.startedAt,
     freshUntil |-> IF Gen(f.ref) = f.gen THEN f.startedAt + Ttl ELSE 0]

Lands(f) ==
    /\ f.read
    /\ held' = Stored(Landed(f))
    /\ failedAt' = Without(failedAt, {f.ref})
    /\ flights' = flights \ {f}
    /\ UNCHANGED <<cacheNow, calendar, announced, generation>>

(* The read fails: whoever waits gets what stands in. *)
Fails(f) ==
    /\ failedAt' = Put(failedAt, f.ref, cacheNow)
    /\ flights' = flights \ {f}
    /\ \/ f.waiting = {} /\ UNCHANGED held
       \/ \E w \in f.waiting : Fallback(f.ref, w)
    /\ UNCHANGED <<cacheNow, calendar, announced, generation>>

(* Everyone waiting gives up at once; the read goes on. *)
TimesOut(f) ==
    /\ Overdue(f)
    /\ \E w \in f.waiting : Fallback(f.ref, w)
    /\ flights' = (flights \ {f}) \cup {[f EXCEPT !.waiting = {}]}
    /\ UNCHANGED <<cacheNow, calendar, announced, generation, failedAt>>

-----------------------------------------------------------------------------
CalendarChanges(r) ==
    /\ calendar[r] < MaxWrites
    /\ calendar' = [calendar EXCEPT ![r] = @ + 1]
    /\ UNCHANGED <<cacheNow, announced, held, flights, generation, failedAt>>

(* Mutant of LiveRefs: what is in flight does not count. *)
LiveHeld == {held[i].ref : i \in DOMAIN held}

(* The connections a generation still matters for. *)
LiveRefs == {held[i].ref : i \in DOMAIN held} \cup {f.ref : f \in flights}

Invalidate(r) ==
    LET bumped == Put(generation, r, Gen(r) + 1) IN
    /\ announced[r] < calendar[r]
    /\ announced' = [announced EXCEPT ![r] = calendar[r]]
    /\ held' = [i \in DOMAIN held |-> IF held[i].ref = r THEN [held[i] EXCEPT !.freshUntil = 0]
                                      ELSE held[i]]
    /\ generation' = IF Cardinality(DOMAIN bumped) > PruneAt
                     THEN Without(bumped, DOMAIN bumped \ LiveRefs) ELSE bumped
    /\ UNCHANGED <<cacheNow, calendar, flights, failedAt>>

(* Timeouts go off on time. *)
CacheTick ==
    /\ cacheNow < MaxCacheTime
    /\ \A f \in flights : Overdue(f) => f.waiting = {}
    /\ cacheNow' = cacheNow + 1
    /\ UNCHANGED <<calendar, announced, held, flights, generation, failedAt>>

CacheNext ==
    \/ \E r \in Refs, w \in Windows : Hit(r, w) \/ StandIn(r, w) \/ Join(r, w) \/ StartFlight(r, w)
    \/ \E f \in flights : CalendarAnswers(f) \/ Lands(f) \/ Fails(f) \/ TimesOut(f)
    \/ \E r \in Refs : CalendarChanges(r) \/ Invalidate(r)
    \/ CacheTick

CacheSpec == CacheInit /\ [][CacheNext]_cacheVars

-----------------------------------------------------------------------------
(* Properties. *)

CacheTypeOK ==
    /\ cacheNow \in 0 .. MaxCacheTime
    /\ calendar \in [Refs -> 0 .. MaxWrites] /\ announced \in [Refs -> 0 .. MaxWrites]
    /\ held \in Seq(Entry) /\ Len(held) <= MaxEntries
    /\ flights \subseteq Flight
    /\ DOMAIN generation \subseteq Refs /\ DOMAIN failedAt \subseteq Refs

(* What is held as fresh was read after the last invalidation, wherever the *)
(* invalidation fell between a read's start, its answer and its landing,   *)
(* and whichever generations were pruned in between.                       *)
FreshIsCurrent ==
    \A i \in DOMAIN held : Fresh(held[i]) => held[i].version >= announced[held[i].ref]
=============================================================================
