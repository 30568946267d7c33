--------------------------------- MODULE Slots ---------------------------------
(***************************************************************************)
(* The times an event offers, and the times its booking may move to.  A    *)
(* picker reads a window; the engine cuts each host's hours, told in the   *)
(* time of the host's zone, into slots clear of what keeps the host busy;  *)
(* a move checks only the slot it asks for.  Time is in units of any       *)
(* length, a day of DayLen; a zone changes its offset at most once.        *)
(***************************************************************************)
EXTENDS Integers, FiniteSets, Sequences

CONSTANTS
    Hosts,    \* the event's hosts
    Events,   \* events: method, fixed, assigned, len, step, before, after, notice, days
    Zones,    \* zones: the offset before and after the instant at
    Hours,    \* for each host: the blocks of every day, and of the dates overridden
    DayLen,
    now,
    Windows,      \* bound: the windows a picker reads
    Engagements,  \* bound: the times a host is busy for something else
    MaxInstant, MaxBusy  \* bounds on instants, and on busy intervals

(* What the properties take of the constants: a zone's clock is less than a  *)
(* day from the instants' own, and is not turned back over a midnight it   *)
(* has passed; blocks of hours lie within a day; the times that matter lie *)
(* within the bound on instants.                                           *)
SlotsBounds ==
    /\ DayLen \in Nat \ {0} /\ MaxInstant \in Nat /\ now \in 0 .. MaxInstant /\ Hosts # {}
    /\ \A e \in Events :
          /\ e.len \in Nat \ {0} /\ e.step \in Nat \ {0} /\ {e.before, e.after, e.notice} \subseteq Nat
          /\ e.fixed \subseteq Hosts /\ e.assigned \subseteq Hosts /\ e.assigned # {}
          /\ e.days = 99 \/ (e.days \in Nat /\ now + e.days * DayLen <= MaxInstant)
    /\ \A z \in Zones :
          /\ z.at \in Int /\ {z.before, z.after} \subseteq 1 - DayLen .. DayLen - 1
          /\ z.after < z.before =>
                (z.at - 1 + z.before) \div DayLen = (z.at + z.after) \div DayLen
    /\ \A h \in Hosts, date \in -1 .. (MaxInstant \div DayLen) + 1 :
          LET rules == IF date \in DOMAIN Hours[h].override THEN Hours[h].override[date]
                       ELSE Hours[h].week
          IN \A r \in rules : {r[1], r[2]} \subseteq 0 .. DayLen
    /\ \A w \in Windows : {w.from, w.to} \subseteq 0 .. MaxInstant
    /\ IsFiniteSet(Engagements) /\ Engagements \subseteq [from : Nat, to : Nat]

VARIABLES
    event,    \* the event
    zone,     \* the zone of its hosts' schedules
    busy,     \* for each host: bookings, holds and calendar events, as intervals
    meeting,  \* where the event's booking starts
    shown     \* what the last picker read showed, while nothing has changed since

vars == <<event, zone, busy, meeting, shown>>

Instants == 0 .. MaxInstant
NotShown == [for |-> "nobody", from |-> 0, to |-> 0, slots |-> {}]
Interval(s, e) == [from |-> s, to |-> e]
NoLimit == 99

Greater(a, b) == IF a < b THEN b ELSE a
Lesser(a, b) == IF a < b THEN a ELSE b

-----------------------------------------------------------------------------
(* tz.util.ts.  A wall clock is the count of units of local time.           *)
Offset(u) == IF u < zone.at THEN zone.before ELSE zone.after
Local(u) == u + Offset(u)
LocalDate(u) == Local(u) \div DayLen

WallToUtc(w) ==
    LET a == Offset(w - DayLen)
        b == Offset(w + DayLen)
        early == w - Greater(a, b)
        late == w - Lesser(a, b)
    IN CASE Local(early) = w -> early
         [] Local(early) # w /\ Local(late) = w -> late
         [] OTHER -> CHOOSE u \in early .. late :       \* in a gap: the transition
                         Offset(u) = Offset(late) /\ Offset(u - 1) # Offset(late)

-----------------------------------------------------------------------------
(* slots.ts *)

(* In the order of their starts, equal ones in any. *)
Sorted(set) ==
    CHOOSE q \in [1 .. Cardinality(set) -> set] :
        /\ \A i \in set : \E k \in DOMAIN q : q[k] = i
        /\ \A j, k \in DOMAIN q : j < k => q[j].from <= q[k].from

MergeNext(out, cur) ==
    IF out # <<>> /\ cur.from <= out[Len(out)].to
    THEN [out EXCEPT ![Len(out)].to = Greater(@, cur.to)]
    ELSE Append(out, cur)

MergeIntervals(set) ==
    LET q == Sorted(set)
        merged[k \in 0 .. Cardinality(set)] ==
            IF k = 0 THEN <<>> ELSE MergeNext(merged[k - 1], q[k])
    IN merged[Cardinality(set)]

(* The first interval that does not end before it decides. *)
OverlapsBusy(s, e, merged) ==
    \E i \in DOMAIN merged :
        /\ merged[i].to > s /\ merged[i].from < e
        /\ \A j \in 1 .. i - 1 : merged[j].to <= s

BookingWindowEnd ==
    IF event.days = NoLimit THEN MaxInstant + DayLen
    ELSE WallToUtc((LocalDate(now) + event.days + 1) * DayLen)

RulesOn(h, date) ==
    IF date \in DOMAIN Hours[h].override THEN Hours[h].override[date] ELSE Hours[h].week

(* The slots of one block of hours, wherever they lie. *)
Cuts(start, end) ==
    {s \in start .. end - event.len : (s - start) % event.step = 0}

ComputeSlots(h, from, to, busySet) ==
    LET merged == MergeIntervals(busySet)
        blocks == UNION {{<<date, r>> : r \in RulesOn(h, date)} :
                            date \in LocalDate(from) .. LocalDate(to)}
        cuts == UNION {Cuts(WallToUtc(b[1] * DayLen + b[2][1]),
                            WallToUtc(b[1] * DayLen + b[2][2])) : b \in blocks}
    IN {s \in cuts :
           /\ s >= Greater(from, now + event.notice)
           /\ s < Lesser(to, BookingWindowEnd)
           /\ ~ OverlapsBusy(s - event.before, s + event.len + event.after, merged)}

-----------------------------------------------------------------------------
(* repository.ts, parity.ts *)

(* loadBusyForHost, loadReservationBusy, loadExternalBusy *)
LoadBusy(set, span) == {i \in set : i.from < span.to /\ i.to > span.from}

(* Mutant of BusyReadSpan: the window alone is read. *)
BusyReadWindow(from, to) == Interval(from, to)

BusyReadSpan(from, to) == Interval(from - event.before, to + event.len + event.after)

MeetingTime(h) ==
    IF h \in event.assigned THEN {Interval(meeting, meeting + event.len)} ELSE {}

(* hostFreeSlotMs: for a new booking, or for the meeting's move, when the    *)
(* meeting does not keep its own host from it.                             *)
HostFreeSlots(h, from, to, moving) ==
    LET all == busy[h] \cup (IF moving THEN {} ELSE MeetingTime(h))
    IN ComputeSlots(h, from, to, LoadBusy(all, BusyReadSpan(from, to)))

(* combineTeamSlots; a personal event is a round robin of one. *)
Combine(free) ==
    LET rotating == Hosts \ event.fixed
        ofAny(hs) == UNION {free[h] : h \in hs}
        ofAll(hs) == {s \in ofAny(hs) : \A h \in hs : s \in free[h]}
    IN CASE event.method = "collective" -> ofAll(Hosts)
         [] event.method = "fixed_round_robin" /\ event.fixed # {} ->
              IF rotating = {} THEN ofAll(event.fixed) ELSE ofAll(event.fixed) \cap ofAny(rotating)
         [] OTHER -> ofAny(Hosts)

(* getAvailability, getTeamAvailability *)
NewSlots(from, to) == Combine([h \in Hosts |-> HostFreeSlots(h, from, to, FALSE)])

(* getBookingRescheduleAvailability: every assigned host, whatever the method. *)
MoveSlots(from, to) ==
    LET free == [h \in event.assigned |-> HostFreeSlots(h, from, to, TRUE)]
    IN {s \in UNION {free[h] : h \in event.assigned} : \A h \in event.assigned : s \in free[h]}
           \ {meeting}

(* isSlotBookable: busy time is read over the slot itself, without buffers. *)
IsSlotBookable(h, s) ==
    LET end == s + event.len
    IN s \in ComputeSlots(h, s, end, LoadBusy(busy[h], Interval(s, end)))

-----------------------------------------------------------------------------
Init ==
    /\ event \in Events /\ zone \in Zones
    /\ busy = [h \in Hosts |-> {}]
    /\ meeting \in {s \in Instants : \A h \in event.assigned : IsSlotBookable(h, s)}
    /\ shown = NotShown

Show(for, from, to, slots) ==
    /\ shown' = [for |-> for, from |-> from, to |-> to, slots |-> slots]
    /\ UNCHANGED <<event, zone, busy, meeting>>

Pick(from, to) == Show("new", from, to, NewSlots(from, to))
PickMove(from, to) == Show("move", from, to, MoveSlots(from, to))

(* rescheduleBooking, rescheduleBookingV2: to any time a client asks for. *)
Move(s) ==
    /\ s # meeting /\ \A h \in event.assigned : IsSlotBookable(h, s)
    /\ meeting' = s /\ shown' = NotShown
    /\ UNCHANGED <<event, zone, busy>>

(* Another booking of the host, a hold, or an event on its own calendar,    *)
(* which may lie over others.                                              *)
Engage(h, i) ==
    /\ Cardinality(UNION {{<<g, j>> : j \in busy[g]} : g \in Hosts}) < MaxBusy
    /\ busy' = [busy EXCEPT ![h] = @ \cup {i}]
    /\ shown' = NotShown
    /\ UNCHANGED <<event, zone, meeting>>

Next ==
    \/ \E w \in Windows : Pick(w.from, w.to) \/ PickMove(w.from, w.to)
    \/ \E s \in Instants : Move(s)
    \/ \E h \in Hosts : \E i \in Engagements : Engage(h, i)

Spec == Init /\ [][Next]_vars

-----------------------------------------------------------------------------
(* Properties. *)

TypeOK ==
    /\ event \in Events /\ zone \in Zones /\ meeting \in Instants
    /\ busy \in [Hosts -> SUBSET Engagements]
    /\ shown \in [for : {"nobody", "new", "move"}, from : Instants, to : Instants,
                  slots : SUBSET Instants]

(* When a wall clock first reads w, or has passed it. *)
FirstAt(w) ==
    CHOOSE u \in -2 * DayLen .. MaxInstant + 3 * DayLen :
        Local(u) >= w /\ \A v \in -2 * DayLen .. u - 1 : Local(v) < w

InHours(h, s) ==
    \E date \in -1 .. (MaxInstant \div DayLen) + 1 : \E r \in RulesOn(h, date) :
        s \in Cuts(FirstAt(date * DayLen + r[1]), FirstAt(date * DayLen + r[2]))

ClearOf(set, s) ==
    \A i \in set : i.to <= s - event.before \/ i.from >= s + event.len + event.after

(* Whether h could take the event at s: within its hours, from notice to the *)
(* end of the booking window, its buffers clear of everything the host has. *)
Free(h, s, moving) ==
    /\ InHours(h, s) /\ s >= now + event.notice
    /\ event.days # NoLimit => s < FirstAt((LocalDate(now) + event.days + 1) * DayLen)
    /\ ClearOf(busy[h], s)
    /\ moving \/ ClearOf(MeetingTime(h), s)

CanBeHad(for, s) ==
    LET can(h) == Free(h, s, for = "move")
        rotating == Hosts \ event.fixed
    IN CASE for = "move" -> s # meeting /\ \A h \in event.assigned : can(h)
         [] for = "new" /\ event.method = "collective" -> \A h \in Hosts : can(h)
         [] for = "new" /\ event.method = "fixed_round_robin" /\ event.fixed # {} ->
              /\ \A h \in event.fixed : can(h)
              /\ rotating # {} => \E h \in rotating : can(h)
         [] OTHER -> \E h \in Hosts : can(h)

(* A picker shows exactly the times that can be had, whatever window it     *)
(* reads: nothing beyond an edge is missed, and a window's edge hides      *)
(* nothing, on a day a clock is turned too.                                *)
SlotsExact ==
    shown.for # "nobody" =>
        shown.slots = {s \in shown.from .. shown.to - 1 : CanBeHad(shown.for, s)}

(* repository.ts:423: a move goes only to a time the picker offers for it,  *)
(* buffers included.                                                       *)
BookableIsOffered == [][meeting' # meeting => meeting' \in MoveSlots(0, MaxInstant + 1)]_vars
=============================================================================
