------------------------------ MODULE Bookings ------------------------------
(***************************************************************************)
(* The booking store of packages/db: every write that gives a member a     *)
(* time, takes one back, or puts a person on a booking.                    *)
(*                                                                         *)
(* A request reads outside any lock (and may read the host's calendar in   *)
(* between), then runs one transaction: it locks the members it books,     *)
(* checks again, writes and commits, and only then gives back its hold and *)
(* burns its one-off link.  Any number of requests interleave at those     *)
(* points, on Postgres (member row locks, READ COMMITTED, an EXCLUDE on    *)
(* the organizer) or on SQLite (one write lock for the whole file).        *)
(*                                                                         *)
(* A booking, or a hold, is named by the request that wrote it.  Seeds     *)
(* names the bookings that are there at the start.                         *)
(***************************************************************************)
EXTENDS Integers, FiniteSets

CONSTANTS
    Members,      \* hosts, numbered in the order their ids sort
    Events,       \* event types: [kind, hosts, fixed, seats, gated]
    Starts,       \* start times a request may ask for
    Len,          \* length of every meeting
    People,       \* normalized attendee addresses
    Keys,         \* idempotency keys
    Links,        \* one-off links
    LinkEvent,    \* the event type each link opens
    Requests,     \* each asks for one operation, once
    Seeds,        \* bookings written before the model starts
    SeedRows,     \* the rows they may have
    None,         \* no value
    Dialect,      \* "postgres" or "sqlite"
    HoldTime,     \* DEFAULT_HOLD_MS
    HoldCap,      \* MAX_ACTIVE_HOLDS_PER_MEMBER
    PeopleCap,    \* BOOKING_PEOPLE_LIMIT
    MaxTime,      \* bound of the clock
    MayCrash,     \* whether the process may die under a request
    Ops           \* operations the requests of this instance ask for

Ids == Requests \cup Seeds

Kinds == {"personal", "round_robin", "collective", "fixed_round_robin"}

AllOps == {"book", "seat", "team", "hostEvent", "hold", "release", "reschedule", "move",
           "cancel", "confirm", "decline", "guest"}

ASSUME MembersAssumption == Members \subseteq Nat \ {0} /\ IsFiniteSet(Members)

ASSUME TimesAssumption ==
    /\ Starts \subseteq Nat
    /\ Len \in Nat \ {0}
    /\ HoldTime \in Nat /\ HoldCap \in Nat /\ PeopleCap \in Nat /\ MaxTime \in Nat

ASSUME EventsAssumption ==
    /\ Events \subseteq [kind : Kinds, hosts : SUBSET Members, fixed : SUBSET Members,
                         seats : Nat \ {0}, gated : BOOLEAN]
    /\ \A e \in Events : e.hosts # {} /\ e.fixed \subseteq e.hosts
    /\ LinkEvent \in [Links -> Events]

ASSUME NamesAssumption ==
    /\ Requests \cap Seeds = {}
    /\ None \notin Ids /\ None \notin Events /\ None \notin Members
    /\ None \notin Keys /\ None \notin Links
    /\ Dialect \in {"postgres", "sqlite"}
    /\ MayCrash \in BOOLEAN
    /\ Ops \subseteq AllOps

VARIABLES
    booking,      \* table booking with its booking_host and attendee rows
    hold,         \* table slot_reservation
    link,         \* table one_off_link: "live", "revoked" or the booking that used it
    lock,         \* the request that has each member's row locked
    req,          \* where each request is, and what it has read
    now           \* the clock

vars == <<booking, hold, link, lock, req, now>>

-----------------------------------------------------------------------------
(* Types. *)

Status == {"absent", "pending", "accepted", "cancelled", "rejected"}

Row == [status : Status, event : Events \cup {None}, org : Members \cup {None},
        hosts : SUBSET Members, start : Nat, people : SUBSET People,
        key : Keys \cup {None}, moveKey : Keys \cup {None}, to : Ids \cup {None}]

NoRow == [status |-> "absent", event |-> None, org |-> None, hosts |-> {}, start |-> 0,
          people |-> {}, key |-> None, moveKey |-> None, to |-> None]

ASSUME SeedsAssumption ==
    \A row \in SeedRows :
        /\ row \in Row
        /\ row.status \in {"pending", "accepted"} /\ row.hosts # {} /\ row.org \in row.hosts
        /\ row.key = None /\ row.moveKey = None /\ row.to = None

Hold == [member : Members \cup {None}, event : Events \cup {None}, start : Nat, release : Nat]

NoHold == [member |-> None, event |-> None, start |-> 0, release |-> 0]

Points == {"idle", "update", "lock", "check", "write", "unhold", "burn", "done"}

Request == [op : AllOps \cup {"none"}, at : Nat, pc : Points,
            event : Events \cup {None}, hosts : SUBSET Members, org : Members \cup {None},
            start : Nat, target : Ids \cup {None}, seen : Status,
            seenKey : Keys \cup {None}, hold : Requests \cup {None},
            link : Links \cup {None}, key : Keys \cup {None}, who : SUBSET People,
            strict : BOOLEAN, ans : {"none", "ok", "replay", "refused", "crashed"}]

Idle == [op |-> "none", at |-> 0, pc |-> "idle", event |-> None, hosts |-> {}, org |-> None,
         start |-> 0, target |-> None, seen |-> "absent", seenKey |-> None,
         hold |-> None, link |-> None, key |-> None, who |-> {}, strict |-> FALSE, ans |-> "none"]

(* SQLite's one write lock; members are numbered from 1. *)
DbLock == 0

-----------------------------------------------------------------------------
(* What the statements read. *)

Live(b) == booking[b].status \in {"accepted", "pending"}

Overlap(s, t) == s < t + Len /\ t < s + Len

(* Mutant of Clashes: a co-host's seat is not seen. *)
ClashesAsOrganizer(m, s) == {b \in Ids : /\ Live(b)
                                         /\ m = booking[b].org
                                         /\ Overlap(booking[b].start, s)}

(* Bookings of member m over the time at s, held as organizer or co-host. *)
Clashes(m, s) == {b \in Ids : /\ Live(b)
                              /\ m \in booking[b].hosts
                              /\ Overlap(booking[b].start, s)}

Busy(hosts, s, except) == \E m \in hosts : Clashes(m, s) \ {except} # {}

(* A hold of member m over the time at s that had not expired at time t. *)
MemberHeld(m, s, t, except) ==
    \E h \in Requests \ {except} :
        hold[h].member = m /\ hold[h].release > t /\ Overlap(hold[h].start, s)

Held(hosts, s, t, except) == \E m \in hosts : MemberHeld(m, s, t, except)

KeyTaken(k) == k # None /\ \E b \in Ids : booking[b].key = k

Seats(e) == IF e = None THEN 1 ELSE e.seats

(* booking_no_overlap: the organizer's own live bookings only. *)
Excluded(org, s, except) ==
    /\ Dialect = "postgres"
    /\ \E b \in Ids \ {except} : Live(b) /\ booking[b].org = org /\ Overlap(booking[b].start, s)

-----------------------------------------------------------------------------
(* Locks. *)

(* Mutant of Locks: the organizer's row alone is locked. *)
LocksOfOrganizer(r) == IF Dialect = "sqlite" THEN {DbLock} ELSE {req[r].org} \cap Members

Locks(r) == IF Dialect = "sqlite" THEN {DbLock} ELSE req[r].hosts

Owned(r) == {m \in DOMAIN lock : lock[m] = r}

(* Mutant of Released: the lock table is rebuilt from this request's locks. *)
ReleasedOwned(r) == [m \in Owned(r) |-> None]

(* The transaction ends, and with it every row lock it took. *)
Released(r) == [m \in DOMAIN lock |-> IF lock[m] = r THEN None ELSE lock[m]]

(* A seat and a /v2 move hold their booking's row from check to commit. *)
RowLocked(b) ==
    \E r \in Requests : /\ req[r].pc = "write"
                        /\ req[r].op \in {"seat", "move"}
                        /\ req[r].target = b

(* A single statement, outside a guarded transaction, may write row b. *)
MayWrite == Dialect = "postgres" \/ lock[DbLock] = None

MayWriteRow(b) == MayWrite /\ ~ RowLocked(b)

-----------------------------------------------------------------------------
Init ==
    /\ \E row \in [Seeds -> SeedRows] :
        /\ \A a, b \in Seeds : a # b /\ row[a].hosts \cap row[b].hosts # {}
                                  => ~ Overlap(row[a].start, row[b].start)
        /\ booking = [b \in Ids |-> IF b \in Seeds THEN row[b] ELSE NoRow]
    /\ hold = [h \in Requests |-> NoHold]
    /\ link = [l \in Links |-> "live"]
    /\ lock = [m \in Members \cup {DbLock} |-> None]
    /\ req = [r \in Requests |-> Idle]
    /\ now = 0

-----------------------------------------------------------------------------
(* Requests arrive.  What follows reads outside any lock; a request that a *)
(* check turns down here is Refuse.                                        *)

Submit(r, op, rec) ==
    /\ op \in Ops
    /\ req[r].pc = "idle"
    /\ req' = [req EXCEPT ![r] = [rec EXCEPT !.op = op, !.at = now]]
    /\ UNCHANGED <<booking, lock, now>>

Answer(r, a) == req' = [req EXCEPT ![r].pc = "done", ![r].ans = a]

(* Intake, range, offered hours, the duplicate guard, a dead link or hold, *)
(* a time found taken, the host's calendar busy or unreadable.             *)
Refuse(r) ==
    /\ req[r].pc = "idle"
    /\ Answer(r, "refused")
    /\ UNCHANGED <<booking, hold, link, lock, now>>

(* A key this account has used answers what that request wrote. *)
Replay(r, op, k) ==
    /\ KeyTaken(k)
    /\ Submit(r, op, [Idle EXCEPT !.key = k, !.pc = "done", !.ans = "replay"])
    /\ UNCHANGED <<hold, link>>

(* The hold presented must be for this host, event and time, and unexpired. *)
HoldFits(h, e, m, s) ==
    h # None => /\ hold[h].member = m /\ hold[h].event = e /\ hold[h].start = s
                /\ hold[h].release > now

(* A link must be live and open this event; API-key writes (k, strict) present none. *)
LinkFits(l, e, k, strict) ==
    l # None => link[l] = "live" /\ LinkEvent[l] = e /\ k = None /\ ~ strict

(* The live booking of a group event at this start, which later bookers join. *)
GroupRows(e, s) ==
    IF e.seats = 1 THEN {}
    ELSE {b \in Ids : Live(b) /\ booking[b].event = e /\ booking[b].start = s}

(* A booking of a personal event type: the first one of its slot, *)
(* or seats on the group booking already there.                  *)
BookRequest(r) ==
    \E e \in Events, s \in Starts, h \in Requests \cup {None}, k \in Keys \cup {None},
       l \in Links \cup {None}, people \in SUBSET People, strict \in BOOLEAN, m \in Members :
        /\ e.kind = "personal" /\ e.hosts = {m} /\ people # {}
        /\ ~ KeyTaken(k) /\ HoldFits(h, e, m, s) /\ LinkFits(l, e, k, strict)
        /\ LET rec == [Idle EXCEPT !.event = e, !.hosts = {m}, !.org = m, !.start = s,
                                   !.hold = h, !.link = l, !.key = k, !.who = people,
                                   !.strict = strict, !.pc = "lock"]
           IN  \/ /\ GroupRows(e, s) = {}
                  /\ e.seats > 1 => Cardinality(people) <= e.seats
                  /\ Submit(r, "book", rec)
               \/ \E b \in GroupRows(e, s) :
                  IF people \subseteq booking[b].people
                  THEN Submit(r, "seat", [rec EXCEPT !.pc = "done", !.ans = "replay"])
                  ELSE Submit(r, "seat", [rec EXCEPT !.target = b])
        /\ UNCHANGED <<hold, link>>

(* A hold found expired when it is used is deleted, and the booking refused. *)
BookWithExpiredHold(r) ==
    \E h \in Requests :
        /\ MayWrite
        /\ hold[h].member # None /\ hold[h].release <= now
        /\ Submit(r, "book", [Idle EXCEPT !.hold = h, !.pc = "done", !.ans = "refused"])
        /\ hold' = [hold EXCEPT ![h] = NoHold]
        /\ UNCHANGED link

(* The hosts a scheduling method may assign, given those found free.  A     *)
(* calendar may rule out any of them besides.                              *)
Assignments(e, free) ==
    CASE e.kind = "round_robin" -> {{m} : m \in free}
      [] e.kind = "collective"  -> {hosts \in {e.hosts} : hosts \subseteq free}
      [] OTHER -> {hosts \in SUBSET free : /\ hosts # {} /\ e.fixed \subseteq hosts
                                           /\ Cardinality(hosts \ e.fixed) <= 1}

TeamRequest(r) ==
    \E e \in Events, s \in Starts, k \in Keys \cup {None}, l \in Links \cup {None},
       people \in SUBSET People :
        LET free == {m \in e.hosts : ~ Busy({m}, s, None) /\ ~ Held({m}, s, now, None)}
        IN  /\ e.kind # "personal" /\ people # {}
            /\ LinkFits(l, e, k, FALSE)
            /\ \E hosts \in Assignments(e, free) : \E org \in hosts :
                 Submit(r, "team", [Idle EXCEPT !.event = e, !.hosts = hosts, !.org = org,
                                                !.start = s, !.link = l, !.key = k,
                                                !.who = people, !.strict = TRUE,
                                                !.pc = "lock"])
            /\ UNCHANGED <<hold, link>>

(* strict: the host did not choose to ignore holds (allowConflicts). *)
HostEventRequest(r) ==
    \E m \in Members, s \in Starts, k \in Keys \cup {None}, strict \in BOOLEAN,
       people \in SUBSET People :
        /\ ~ KeyTaken(k) /\ ~ Busy({m}, s, None)
        /\ strict => ~ Held({m}, s, now, None)
        /\ Submit(r, "hostEvent", [Idle EXCEPT !.hosts = {m}, !.org = m, !.start = s, !.key = k,
                                               !.who = people, !.strict = strict, !.pc = "lock"])
        /\ UNCHANGED <<hold, link>>

(* Mutant of OpenToHold: other visitors' holds are not read. *)
OpenToAnyHold(e, m, s, t) ==
    \A b \in Clashes(m, s) : /\ booking[b].event = e /\ booking[b].start = s
                             /\ Cardinality(booking[b].people) < e.seats

(* The time is offered: free of bookings and holds, or a group's with seats left. *)
OpenToHold(e, m, s, t) ==
    /\ ~ MemberHeld(m, s, t, None)
    /\ \A b \in Clashes(m, s) : /\ booking[b].event = e /\ booking[b].start = s
                                /\ Cardinality(booking[b].people) < e.seats

Sweep == [h \in Requests |-> IF hold[h].release <= now THEN NoHold ELSE hold[h]]

(* Expired holds are swept first, whatever the answer. *)
HoldRequest(r) ==
    \E e \in Events, m \in Members, s \in Starts :
        /\ e.kind = "personal" /\ e.hosts = {m}
        /\ MayWrite
        /\ LET rec == [Idle EXCEPT !.event = e, !.hosts = {m}, !.org = m, !.start = s]
           IN  IF OpenToHold(e, m, s, now)
               THEN Submit(r, "hold", [rec EXCEPT !.pc = "lock"])
               ELSE Submit(r, "hold", [rec EXCEPT !.pc = "done", !.ans = "refused"])
        /\ hold' = Sweep
        /\ UNCHANGED link

(* Whoever knows a hold's uid gives it back; one that is gone answers the same. *)
ReleaseRequest(r) ==
    \E h \in Requests :
        /\ MayWrite
        /\ Submit(r, "release", [Idle EXCEPT !.hold = h, !.pc = "done", !.ans = "ok"])
        /\ hold' = [hold EXCEPT ![h] = NoHold]
        /\ UNCHANGED link

(* A move keeps the booking's hosts.  A booking with an event type may move  *)
(* only where those are free of bookings and holds; a host event anywhere.   *)
Movable(b, s) ==
    booking[b].event # None =>
        ~ Busy(booking[b].hosts, s, b) /\ ~ Held(booking[b].hosts, s, now, None)

(* Fields of a request about booking b. *)
About(b) == [Idle EXCEPT !.target = b, !.hosts = booking[b].hosts, !.org = booking[b].org,
                         !.event = booking[b].event, !.start = booking[b].start,
                         !.seen = booking[b].status, !.seenKey = booking[b].moveKey]

RescheduleRequest(r) ==
    \E b \in Ids, s \in Starts, k \in Keys \cup {None} :
        /\ booking[b].status = "accepted"
        /\ IF k # None /\ booking[b].moveKey = k
           THEN Submit(r, "reschedule", [About(b) EXCEPT !.key = k, !.pc = "done",
                                                         !.ans = "replay"])
           ELSE /\ Movable(b, s)
                /\ Submit(r, "reschedule", [About(b) EXCEPT !.start = s, !.key = k, !.pc = "lock"])
        /\ UNCHANGED <<hold, link>>

(* /v2: the booking is replaced by a new one; strict is refuseHeld. *)
MoveRequest(r) ==
    \E b \in Ids, s \in Starts, k \in Keys \cup {None}, strict \in BOOLEAN :
        /\ ~ KeyTaken(k) /\ Live(b) /\ Movable(b, s)
        /\ Submit(r, "move", [About(b) EXCEPT !.start = s, !.key = k, !.strict = strict,
                                              !.pc = "lock"])
        /\ UNCHANGED <<hold, link>>

ConfirmRequest(r) ==
    \E b \in Ids :
        /\ booking[b].status = "pending"
        /\ Submit(r, "confirm", [About(b) EXCEPT !.pc = "lock"])
        /\ UNCHANGED <<hold, link>>

(* Cancelling what is cancelled already succeeds. *)
CancelRequest(r) ==
    \E b \in Ids :
        /\ \/ Live(b) /\ Submit(r, "cancel", [About(b) EXCEPT !.pc = "update"])
           \/ /\ booking[b].status = "cancelled"
              /\ Submit(r, "cancel", [About(b) EXCEPT !.pc = "done", !.ans = "replay"])
        /\ UNCHANGED <<hold, link>>

DeclineRequest(r) ==
    \E b \in Ids :
        /\ booking[b].status = "pending"
        /\ Submit(r, "decline", [About(b) EXCEPT !.pc = "update"])
        /\ UNCHANGED <<hold, link>>

(* addGuestsToBooking, addAttendeeToBooking: all of it under the row's lock. *)
GuestRequest(r) ==
    \E b \in Ids, who \in SUBSET People :
        LET new == who \ booking[b].people
            fits == Live(b) /\ (new # {} => Cardinality(booking[b].people) + Cardinality(new)
                                    <= (IF PeopleCap > Seats(booking[b].event) THEN PeopleCap
                                        ELSE Seats(booking[b].event)))
        IN  /\ booking[b].status # "absent" /\ who # {}
            /\ MayWriteRow(b)
            /\ "guest" \in Ops
            /\ req[r].pc = "idle"
            /\ req' = [req EXCEPT ![r] = [About(b) EXCEPT !.op = "guest", !.at = now, !.pc = "done",
                                             !.ans = IF fits THEN "ok" ELSE "refused"]]
            /\ booking' = IF fits THEN [booking EXCEPT ![b].people = @ \cup new] ELSE booking
            /\ UNCHANGED <<hold, link, lock, now>>

-----------------------------------------------------------------------------
(* Single conditional statements. *)

(* What a locked read or a WHERE clause still finds of the booking read before. *)
StillThere(b) == booking[b].status # "absent"       \* a mutant: the status is not read again
StillLive(b) == Live(b)
StillAccepted(b) == booking[b].status = "accepted"
StillPending(b) == booking[b].status = "pending"

CancelUpdate(r) ==
    LET b == req[r].target IN
    /\ req[r].pc = "update" /\ req[r].op = "cancel"
    /\ MayWriteRow(b)
    /\ booking' = IF Live(b) THEN [booking EXCEPT ![b].status = "cancelled"] ELSE booking
    /\ Answer(r, IF Live(b) THEN "ok"
                 ELSE IF booking[b].status = "cancelled" THEN "replay" ELSE "refused")
    /\ UNCHANGED <<hold, link, lock, now>>

DeclineUpdate(r) ==
    LET b == req[r].target IN
    /\ req[r].pc = "update" /\ req[r].op = "decline"
    /\ MayWriteRow(b)
    /\ booking' = IF StillPending(b) THEN [booking EXCEPT ![b].status = "rejected"] ELSE booking
    /\ Answer(r, IF StillPending(b) THEN "ok" ELSE "refused")
    /\ UNCHANGED <<hold, link, lock, now>>

-----------------------------------------------------------------------------
(* Guarded transactions: lock, check, write. *)

(* Mutant of NextLock: in whatever order the rows come. *)
AnyLock(r) == Locks(r) \ Owned(r)

(* Rows are locked one at a time, lowest id first: one order everywhere. *)
NextLock(r) == {m \in Locks(r) \ Owned(r) : \A n \in Locks(r) \ Owned(r) : m <= n}

TakeLock(r) ==
    \E m \in NextLock(r) :
        /\ req[r].pc = "lock"
        /\ lock[m] = None
        /\ lock' = [lock EXCEPT ![m] = r]
        /\ req' = IF Locks(r) \ Owned(r) = {m} THEN [req EXCEPT ![r].pc = "check"] ELSE req
        /\ UNCHANGED <<booking, hold, link, now>>

(* Mutant of NotHeld: a team booking reads holds only when it picks hosts. *)
NotHeldUnlessTeam(q) ==
    q.strict /\ q.op # "team" => ~ Held(q.hosts, q.start, q.at, q.hold)

(* The hold a write may overlap is the one it consumes. *)
NotHeld(q) == q.strict => ~ Held(q.hosts, q.start, q.at, q.hold)

(* Mutant of SeatsFit: room for one is room for all. *)
FirstSeatFits(q) == Cardinality(booking[q.target].people) < q.event.seats

(* Every seat this request takes must fit, not only the first. *)
SeatsFit(q) == Cardinality(booking[q.target].people \cup q.who) <= q.event.seats

(* Mutant of HoldsLeft: one hold too many. *)
HoldsLeftOffByOne(q) ==
    Cardinality({h \in Requests : hold[h].member \in q.hosts /\ hold[h].release > q.at}) <= HoldCap

HoldsLeft(q) ==
    Cardinality({h \in Requests : hold[h].member \in q.hosts /\ hold[h].release > q.at}) < HoldCap

Passes(q) ==
    CASE q.op \in {"book", "team", "hostEvent"} ->
            ~ Busy(q.hosts, q.start, None) /\ NotHeld(q)
      [] q.op = "seat" -> /\ StillLive(q.target) /\ booking[q.target].start = q.start
                          /\ SeatsFit(q) /\ NotHeld(q)
      [] q.op = "hold" -> HoldsLeft(q) /\ \A m \in q.hosts : OpenToHold(q.event, m, q.start, q.at)
      [] q.op = "reschedule" -> ~ Busy(q.hosts, q.start, q.target)
      [] q.op = "move" -> /\ StillLive(q.target) /\ NotHeld(q)
                          /\ ~ Busy(q.hosts, q.start, q.target)
      [] q.op = "confirm" ->
            \A m \in q.hosts : \A b \in Clashes(m, q.start) \ {q.target} :
                booking[b].status # "accepted"
      [] OTHER -> FALSE

(* Everyone already seated, or another call with this key got there first. *)
Repeats(q) ==
    \/ /\ q.op = "seat" /\ StillLive(q.target) /\ booking[q.target].start = q.start
       /\ q.who \subseteq booking[q.target].people
    \/ q.op = "hostEvent" /\ KeyTaken(q.key)
    \/ q.op = "move" /\ KeyTaken(q.key) /\ ~ StillLive(q.target)

End(r, a) == Answer(r, a) /\ lock' = Released(r)

Check(r) ==
    /\ req[r].pc = "check"
    /\ \/ Repeats(req[r]) /\ End(r, "replay")
       \/ ~ Repeats(req[r]) /\ ~ Passes(req[r]) /\ End(r, "refused")
       \/ /\ ~ Repeats(req[r]) /\ Passes(req[r])
          /\ req' = [req EXCEPT ![r].pc = "write"]
          /\ UNCHANGED lock
    /\ UNCHANGED <<booking, hold, link, now>>

(* Mutant of AfterHold: a seat on a group event burns no link. *)
AfterHoldUnlessSeat(q) == IF q.link # None /\ q.op # "seat" THEN "burn" ELSE "done"

(* After the commit: the hold is given back, then the link burned. *)
AfterHold(q) == IF q.link # None THEN "burn" ELSE "done"
AfterWrite(q) == IF q.hold # None THEN "unhold" ELSE AfterHold(q)

Commit(r) ==
    /\ lock' = Released(r)
    /\ req' = [req EXCEPT ![r].pc = AfterWrite(req[r]), ![r].ans = "ok"]

Writing(r, ops) == req[r].pc = "write" /\ req[r].op \in ops

(* Mutant of KeyConflict: the column has no UNIQUE. *)
NoKeyConflict(k) == k # k

(* UNIQUE (idempotency_key). *)
KeyConflict(k) == KeyTaken(k)

WriteBooking(r) ==
    LET q == req[r]
        refused == KeyConflict(q.key) \/ Excluded(q.org, q.start, None)
        row == [status |-> IF q.event # None /\ q.event.gated /\ q.op = "book"
                           THEN "pending" ELSE "accepted",
                event |-> q.event, org |-> q.org, hosts |-> q.hosts, start |-> q.start,
                people |-> q.who, key |-> q.key, moveKey |-> None, to |-> None]
    IN  /\ Writing(r, {"book", "team", "hostEvent"})
        /\ IF refused
           THEN End(r, IF q.op = "hostEvent" /\ KeyTaken(q.key) THEN "replay" ELSE "refused")
           ELSE Commit(r)
        /\ booking' = IF refused THEN booking ELSE [booking EXCEPT ![r] = row]
        /\ UNCHANGED <<hold, link, now>>

WriteHold(r) ==
    LET q == req[r] IN
    /\ Writing(r, {"hold"})
    /\ Commit(r)
    /\ hold' = [hold EXCEPT ![r] = [member |-> q.org, event |-> q.event, start |-> q.start,
                                    release |-> q.at + HoldTime]]
    /\ UNCHANGED <<booking, link, now>>

WriteSeat(r) ==
    /\ Writing(r, {"seat"})
    /\ Commit(r)
    /\ booking' = [booking EXCEPT ![req[r].target].people = @ \cup req[r].who]
    /\ UNCHANGED <<hold, link, now>>

(* UPDATE ... WHERE status = 'accepted': nothing when a cancel came first.  *)
(* The metadata written back, with the last key in it, is what was read.   *)
WriteReschedule(r) ==
    LET q == req[r]
        b == q.target
    IN  /\ Writing(r, {"reschedule"})
        /\ IF StillAccepted(b) /\ ~ Excluded(q.org, q.start, b)
           THEN /\ Commit(r)
                /\ booking' = [booking EXCEPT ![b].start = q.start,
                                              ![b].moveKey = IF q.key # None THEN q.key ELSE q.seenKey]
           ELSE End(r, "refused") /\ UNCHANGED booking
        /\ UNCHANGED <<hold, link, now>>

WriteConfirm(r) ==
    LET b == req[r].target IN
    /\ Writing(r, {"confirm"})
    /\ IF StillPending(b)
       THEN Commit(r) /\ booking' = [booking EXCEPT ![b].status = "accepted"]
       ELSE End(r, "refused") /\ UNCHANGED booking
    /\ UNCHANGED <<hold, link, now>>

(* The new row carries the status and metadata read before the lock. *)
WriteMove(r) ==
    LET q == req[r]
        b == q.target
        refused == KeyConflict(q.key) \/ Excluded(q.org, q.start, b)
    IN  /\ Writing(r, {"move"})
        /\ IF refused THEN End(r, IF KeyTaken(q.key) THEN "replay" ELSE "refused") ELSE Commit(r)
        /\ booking' =
             IF refused THEN booking
             ELSE [booking EXCEPT ![b].status = "cancelled", ![b].to = r,
                                  ![r] = [booking[b] EXCEPT !.status = q.seen, !.start = q.start,
                                                            !.key = q.key,
                                                            !.moveKey = q.seenKey]]
        /\ UNCHANGED <<hold, link, now>>

DropHold(r) ==
    /\ req[r].pc = "unhold"
    /\ MayWrite
    /\ hold' = [hold EXCEPT ![req[r].hold] = NoHold]
    /\ req' = [req EXCEPT ![r].pc = AfterHold(req[r])]
    /\ UNCHANGED <<booking, link, lock, now>>

BurnLink(r) ==
    LET l == req[r].link IN
    /\ req[r].pc = "burn"
    /\ MayWrite
    /\ link' = IF link[l] = "live"
               THEN [link EXCEPT ![l] = IF req[r].target = None THEN r ELSE req[r].target]
               ELSE link
    /\ req' = [req EXCEPT ![r].pc = "done"]
    /\ UNCHANGED <<booking, hold, lock, now>>

-----------------------------------------------------------------------------
(* The world around them. *)

(* The process dies: its transaction rolls back, nothing after it runs. *)
Crash(r) ==
    /\ MayCrash
    /\ req[r].pc \notin {"idle", "done"}
    /\ Answer(r, "crashed")
    /\ lock' = Released(r)
    /\ UNCHANGED <<booking, hold, link, now>>

Revoke(l) ==
    /\ link[l] = "live"
    /\ MayWrite
    /\ link' = [link EXCEPT ![l] = "revoked"]
    /\ UNCHANGED <<booking, hold, lock, req, now>>

Tick ==
    /\ now < MaxTime
    /\ now' = now + 1
    /\ UNCHANGED <<booking, hold, link, lock, req>>

Finished ==
    /\ \A r \in Requests : req[r].pc = "done"
    /\ UNCHANGED vars

Arrive(r) ==
    \/ Refuse(r)
    \/ \E op \in {"book", "hostEvent", "move"}, k \in Keys : Replay(r, op, k)
    \/ BookRequest(r)
    \/ BookWithExpiredHold(r)
    \/ TeamRequest(r)
    \/ HostEventRequest(r)
    \/ HoldRequest(r)
    \/ ReleaseRequest(r)
    \/ RescheduleRequest(r)
    \/ MoveRequest(r)
    \/ ConfirmRequest(r)
    \/ CancelRequest(r)
    \/ DeclineRequest(r)
    \/ GuestRequest(r)

Write(r) ==
    \/ WriteBooking(r)
    \/ WriteHold(r)
    \/ WriteSeat(r)
    \/ WriteReschedule(r)
    \/ WriteConfirm(r)
    \/ WriteMove(r)

Step(r) ==
    \/ CancelUpdate(r)
    \/ DeclineUpdate(r)
    \/ TakeLock(r)
    \/ Check(r)
    \/ Write(r)
    \/ DropHold(r)
    \/ BurnLink(r)

Next ==
    \/ \E r \in Requests : Arrive(r) \/ Step(r) \/ Crash(r)
    \/ \E l \in Links : Revoke(l)
    \/ Tick
    \/ Finished

Spec == Init /\ [][Next]_vars

(* A request that is in the store is run to its end: the event loop and    *)
(* the database schedule every waiting statement.                         *)
FairSpec == Spec /\ \A r \in Requests : WF_vars(Step(r))

-----------------------------------------------------------------------------
(* Properties. *)

(* Every variable has its type: rows, holds, links, locks and requests.    *)
TypeOK ==
    /\ booking \in [Ids -> Row]
    /\ hold \in [Requests -> Hold]
    /\ link \in [Links -> {"live", "revoked"} \cup Ids]
    /\ lock \in [Members \cup {DbLock} -> Requests \cup {None}]
    /\ req \in [Requests -> Request]
    /\ now \in 0 .. MaxTime

(* Two live bookings that share a member, as organizer or as co-host, never *)
(* overlap.  The EXCLUDE of Postgres covers the organizer only, so for a    *)
(* co-host this rests on the member locks and the check made under them, in *)
(* every path that gives a booking a time (createBooking, runGuarded,       *)
(* runGuardedUpdate, rescheduleBookingV2, createHostEvent).                 *)
NoDoubleBooking ==
    \A a, b \in Ids :
        a # b /\ Live(a) /\ Live(b) /\ booking[a].hosts \cap booking[b].hosts # {}
            => ~ Overlap(booking[a].start, booking[b].start)

PlaceOps == {"book", "team", "hostEvent"}
MoveOps == {"reschedule", "move"}

(* Past its locks, a request has the row of every member it may book. *)
LocksHeld ==
    \A r \in Requests :
        req[r].pc \in {"check", "write"} => \A m \in Locks(r) : lock[m] = r

(* The row a request is to write is not there before it writes it. *)
RowsUnwritten ==
    \A r \in Requests :
        req[r].pc \in {"idle", "lock", "check", "write"} => booking[r].status = "absent"

(* The host set read with a booking that moves is still that booking's.    *)
TargetsKept ==
    \A r \in Requests :
        LET b == req[r].target IN
        req[r].pc \in {"lock", "check", "write"} /\ req[r].op \in MoveOps =>
            b \in Ids /\ booking[b].status # "absent" /\ booking[b].hosts = req[r].hosts

(* What was free under the locks is free until the write. *)
FreeUntilWrite ==
    \A r \in Requests :
        LET q == req[r] IN
        /\ q.pc = "write" /\ q.op \in PlaceOps => ~ Busy(q.hosts, q.start, None)
        /\ q.pc = "write" /\ q.op \in MoveOps => ~ Busy(q.hosts, q.start, q.target)

(* NoDoubleBooking as an inductive invariant: a guarded write (runGuarded,   *)
(* runGuardedUpdate and their like) holds every lock it needs, and nothing   *)
(* it checked under them changes before it writes.                           *)
GuardedInv ==
    TypeOK /\ LocksHeld /\ RowsUnwritten /\ TargetsKept /\ FreeUntilWrite /\ NoDoubleBooking

(* Two visitors never hold overlapping times of one member: insertHoldGuarded *)
(* asks again under the member's lock, because both saw the time offered.     *)
HoldsExclusive ==
    \A g, h \in Requests :
        g # h /\ hold[g].member # None /\ hold[g].member = hold[h].member
            /\ hold[g].release > now /\ hold[h].release > now
            => ~ Overlap(hold[g].start, hold[h].start)

(* However many ask at once, a member never has more unexpired holds than  *)
(* MAX_ACTIVE_HOLDS_PER_MEMBER.                                            *)
HoldsWithinCap ==
    \A m \in Members :
        Cardinality({h \in Requests : hold[h].member = m /\ hold[h].release > now}) <= HoldCap

(* A hold and a booking over one host never both get through (docs/MCP.md, *)
(* Holds), for the writes that promise it: refuseHeld callers, team        *)
(* bookings and host events that do not ignore holds.  The booking's own   *)
(* hold, until it is given back, and a group's own booking are exempt; so  *)
(* is a booking a v1 reschedule has moved, which asks for holds only       *)
(* before its locks.                                                       *)
Rescheduled(b) ==
    \E r \in Requests : req[r].op = "reschedule" /\ req[r].target = b /\ req[r].ans = "ok"

HeldTimeKept ==
    \A b \in Requests, h \in Requests :
        /\ Live(b) /\ req[b].strict /\ ~ Rescheduled(b)
        /\ hold[h].member \in booking[b].hosts /\ hold[h].release > now
        /\ Overlap(hold[h].start, booking[b].start)
        => \/ req[b].hold = h
           \/ booking[b].event = hold[h].event /\ booking[b].start = hold[h].start

(* The meeting booked as a goes on as b: each booking of S but b was moved *)
(* to another of S.                                                        *)
GoesOnAs(a, b) ==
    \E S \in SUBSET Ids :
        /\ a \in S /\ b \in S
        /\ \A c \in S \ {b} : booking[c].status = "cancelled" /\ booking[c].to \in S

(* The host has added guests to the meeting, under this uid or an earlier. *)
Guested(b) ==
    \E r \in Requests : req[r].op = "guest" /\ req[r].ans = "ok" /\ GoesOnAs(req[r].target, b)

(* A group slot never seats more people than it has seats, however many    *)
(* seat requests and guests race; guests the host adds count too and may   *)
(* fill it up to BOOKING_PEOPLE_LIMIT, never past both.  A team booking    *)
(* reads no seats (createTeamBooking), so this is about personal events.   *)
PeopleWithinLimit ==
    \A b \in Ids :
        LET e == booking[b].event
            n == Cardinality(booking[b].people)
        IN  Live(b) /\ e # None /\ e.kind = "personal" /\ e.seats > 1
                => n <= e.seats \/ (Guested(b) /\ n <= PeopleCap)

(* A cancelled or declined booking is never written again: not revived by a *)
(* confirmation, not given a new time by a reschedule, not joined by a seat *)
(* or a guest, whatever each of them read before the booking ended.  An     *)
(* accepted booking never waits for the host again.                         *)
EndedStaysEnded ==
    [][\A b \in Ids :
        /\ booking[b].status \in {"cancelled", "rejected"} => booking'[b] = booking[b]
        /\ booking[b].status = "accepted" => booking'[b].status \in {"accepted", "cancelled"}]_vars

(* A booking ends one way.  A cancel, a decline or a /v2 move that answered *)
(* ok is how it ended: no other caller was told that theirs did, and a      *)
(* cancelled meeting does not go on under another uid.                      *)
EndsOneWay ==
    \A r \in Requests :
        LET b == req[r].target IN
        req[r].ans = "ok" =>
            /\ req[r].op = "cancel" => booking[b].status = "cancelled" /\ booking[b].to = None
            /\ req[r].op = "decline" => booking[b].status = "rejected" /\ booking[b].to = None
            /\ req[r].op = "move" => booking[b].to = r

(* Once a booking made through a one-off link is answered, the link opens  *)
(* nothing more, a seat on a group event included.                         *)
AnsweredLinkIsSpent ==
    \A r \in Requests :
        req[r].pc = "done" /\ req[r].ans = "ok" /\ req[r].link # None => link[req[r].link] # "live"

(* Two calls with one idempotency key never both write: one of a racing    *)
(* pair is turned down or answered with what the other wrote.              *)
WrittenOncePerKey ==
    \A r, s \in Requests :
        r # s /\ req[r].key # None /\ req[r].key = req[s].key
            /\ {req[r].op, req[s].op} \subseteq {"book", "team", "hostEvent", "move"}
            => ~ (req[r].ans = "ok" /\ req[s].ans = "ok")

(* Every request is answered: no two writers wait for each other's members  *)
(* (lockMembers takes them in one order), and none starves.                 *)
AllAnswered == \A r \in Requests : req[r].pc # "idle" ~> req[r].pc = "done"

(* Without its requests and locks the store is a host's diary. *)
Diary ==
    [b \in Ids |->
        [state |-> CASE booking[b].status = "absent" -> "blank"
                     [] booking[b].status = "pending" -> "requested"
                     [] booking[b].status = "accepted" -> "agreed"
                     [] OTHER -> "off",
         hosts |-> booking[b].hosts, start |-> booking[b].start]]

HC == INSTANCE HostCalendar WITH Meetings <- Ids, diary <- Diary

(* The store implements the diary: each commit is one step of it. *)
ImplementsDiary == HC!Spec

-----------------------------------------------------------------------------
(* Statements the code does not keep; see the README. *)

(* A meeting the host confirmed is not declined afterwards, under the uid  *)
(* it was confirmed by or the one a move gave it.                          *)
ConfirmedNotDeclined ==
    \A r \in Requests :
        req[r].op = "confirm" /\ req[r].ans = "ok" =>
            \A d \in {req[r].target, booking[req[r].target].to} \ {None} :
                booking[d].status # "rejected"

(* One Idempotency-Key moves a booking once. *)
MovedOncePerKey ==
    \A r, s \in Requests :
        r # s /\ req[r].key # None /\ req[r].key = req[s].key
            /\ req[r].op = "reschedule" /\ req[s].op = "reschedule"
            /\ req[r].target = req[s].target
            => ~ (req[r].ans = "ok" /\ req[s].ans = "ok")

=============================================================================
