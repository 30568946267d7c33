-------------------------------- MODULE Series --------------------------------
(***************************************************************************)
(* Host-event series: a rule, the dates of it written ahead as bookings,   *)
(* and the calls that create, extend, cancel and move it.  Each call reads *)
(* the series and plans outside any lock, then writes under its host's     *)
(* lock, and starts over when the series' revision changed since.          *)
(*                                                                         *)
(* Time is in slots; a date of a series, like any other booking of the     *)
(* host, fills one slot.  A rule is every Period-th slot from its start to *)
(* its end.  Counted rules, holds and the external calendar (which only    *)
(* refuse or skip a date when a call plans) are left out.                  *)
(***************************************************************************)
EXTENDS Naturals, Sequences, FiniteSets

CONSTANTS
    Callers,         \* requests and the extenders of the replicas
    Last,            \* bound on the slots
    Period,          \* slots from one date of a rule to the next
    Horizon,         \* SERIES_HORIZON_MS
    Slack,           \* SERIES_EXTEND_SLACK_MS
    Firsts,          \* the first dates and
    Untils,          \* the last dates of the series created
    MaxSeries,       \* bound on the series
    MaxSeriesCalls,  \* bound on the calls
    MaxSingles       \* bound on the changes of single bookings

VARIABLES
    seriesNow,
    series,      \* host_event_series
    row,         \* booking: dates of series, and other bookings of the host
    seriesCall,  \* the call each caller is making
    seriesUsed   \* how many calls and single changes there were

seriesVars == <<seriesNow, series, row, seriesCall, seriesUsed>>

-----------------------------------------------------------------------------
Slots == 1 .. Last
NoCut == 0
NoSeries == 0

SeriesRow == [status : {"active", "ended", "cancelled"}, start : Slots, until : 0 .. Last,
              mat : 0 .. Last + Horizon, skipped : SUBSET Slots, rev : Nat,
              end : 0 .. Last]  \* history: the earliest until of this rule
Booking == [series : 0 .. MaxSeries, rev : Nat, orig : Slots, at : Slots,
            status : {"on", "off", "replaced"}, alone : BOOLEAN]

Kinds == {"create", "extend", "cancel", "move"}
NoCall == [pc |-> "idle", kind |-> "create", id |-> NoSeries, row |-> 0, scope |-> "series",
           to |-> 0, until |-> 0, at |-> 0, tries |-> 0,
           seen |-> [rev |-> 0], replacing |-> {}, kept |-> {}, skipped |-> {}]

(* seriesOccurrences: the rule's dates in [from, to). *)
Dates(s, from, to) ==
    {d \in s.start .. s.until : (d - s.start) % Period = 0 /\ from <= d /\ d < to}
AllDates(s) == Dates(s, 0, Last + 1)

On == {i \in DOMAIN row : row[i].status = "on"}
Taken(slot, except) == \E i \in On \ except : row[i].at = slot

Min(S) == CHOOSE x \in S : \A y \in S : x <= y
Later(a, b) == IF a > b THEN a ELSE b
Earlier(a, b) == IF a < b THEN a ELSE b

(* cutFor *)
CutFor(s, scope, orig, at) ==
    IF scope = "following" /\ orig > at THEN orig
    ELSE LET left == Dates(s, at + 1, Last + 1) IN IF left = {} THEN NoCut ELSE Min(left)

SeriesInit ==
    /\ seriesNow = 0
    /\ series = <<>> /\ row = <<>>
    /\ seriesCall = [c \in Callers |-> NoCall]
    /\ seriesUsed = [calls |-> 0, singles |-> 0]

-----------------------------------------------------------------------------
(* Reading and planning, outside the lock, with the clock of the call's start. *)

Call(c) == seriesCall[c]
CallEnds(c) == seriesCall' = [seriesCall EXCEPT ![c] = NoCall]

(* planSeries: the dates kept and those left out.                          *)
Plan(rule, at, replacing) ==
    LET dates == Dates(rule, 0, Later(at, rule.start) + Horizon)
        booked == {d \in dates : Taken(d, replacing)}
    IN [kept |-> dates \ booked, skipped |-> booked]

Planned(c, q, seen, plan, replacing) ==
    seriesCall' = [seriesCall EXCEPT ![c] =
        [q EXCEPT !.pc = "write", !.seen = seen, !.replacing = replacing,
                  !.kept = plan.kept, !.skipped = plan.skipped]]

(* A date in the way, unless it is to be skipped, or no date left, refuses.  *)
PlanCreate(c, q) ==
    LET plan == Plan([start |-> q.to, until |-> q.until], q.at, {}) IN
    plan.kept # {} /\ Planned(c, q, NoCall.seen, plan, {})

(* Due: active, and not written far enough ahead. *)
Due(s, at) == s.status = "active" /\ s.mat < at + Horizon - Slack

PlanExtend(c, q) ==
    LET s == series[q.id]
        dates == Dates(s, Later(s.mat, q.at), q.at + Horizon)
    IN Due(s, q.at) /\ Planned(c, q, s, [kept |-> dates, skipped |-> {}], {})

PlanCancel(c, q) ==
    /\ series[q.id].status # "cancelled"
    /\ Planned(c, q, series[q.id], [kept |-> {}, skipped |-> {}], {})

Pivot(q, s) == CutFor(s, q.scope, row[q.row].orig, q.at)

(* The dates a move replaces, as they are when it plans. *)
Replacing(q, s) ==
    {i \in On : row[i].series = q.id /\ row[i].at > q.at /\ row[i].orig >= Pivot(q, s)}

PlanMove(c, q) ==
    LET s == series[q.id]
        plan == Plan([start |-> q.to, until |-> s.until], q.at, Replacing(q, s))
    IN /\ s.status # "cancelled" /\ row[q.row].status = "on"
       /\ Pivot(q, s) # NoCut /\ q.to <= s.until
       /\ ~ (Pivot(q, s) = s.start /\ s.start > q.at /\ q.to = s.start)
       /\ plan.kept # {}
       /\ Planned(c, q, s, plan, Replacing(q, s))

(* The calls that get as far as writing; any other changes nothing. *)
CallStarts(c) ==
    /\ seriesCall[c].pc = "idle" /\ seriesUsed.calls < MaxSeriesCalls
    /\ seriesUsed' = [seriesUsed EXCEPT !.calls = @ + 1]
    /\ UNCHANGED <<seriesNow, series, row>>

Args(kind) == [NoCall EXCEPT !.kind = kind, !.at = seriesNow]

StartCreate(c) ==
    \E start \in Firsts, until \in Untils :
        /\ start > seriesNow /\ until >= start
        /\ CallStarts(c) /\ PlanCreate(c, [Args("create") EXCEPT !.to = start, !.until = until])

(* listSeriesDueForExtension *)
StartExtend(c) ==
    \E id \in DOMAIN series : CallStarts(c) /\ PlanExtend(c, [Args("extend") EXCEPT !.id = id])

Scopes == {"series", "following"}

StartCancel(c) ==
    \E i \in DOMAIN row, scope \in Scopes :
        /\ row[i].series # NoSeries /\ CallStarts(c)
        /\ PlanCancel(c, [Args("cancel") EXCEPT !.id = row[i].series, !.row = i, !.scope = scope])

StartMove(c) ==
    \E i \in DOMAIN row, scope \in Scopes, to \in Slots :
        /\ row[i].series # NoSeries /\ to > seriesNow /\ CallStarts(c)
        /\ PlanMove(c, [Args("move") EXCEPT !.id = row[i].series, !.row = i,
                                           !.scope = scope, !.to = to])

(* A call whose write was stale plans again; a move may be refused then. *)
Again(c) ==
    LET q == Call(c)
        plans == IF q.kind = "cancel" THEN PlanCancel(c, q) ELSE PlanMove(c, q)
    IN /\ q.pc = "read"
       /\ \/ plans
          \/ (q.kind = "move" \/ series[q.id].status = "cancelled") /\ CallEnds(c)
       /\ UNCHANGED <<seriesNow, series, row, seriesUsed>>

-----------------------------------------------------------------------------
(* Writing, under the host's lock. *)

Writes(c, kind) ==
    seriesCall[c].pc = "write" /\ seriesCall[c].kind = kind /\ UNCHANGED <<seriesNow, seriesUsed>>

(* Mutant of SameRevision: the series only has to be there still. *)
StillThere(c) == series[Call(c).id].status # "cancelled"

SameRevision(c) == series[Call(c).id].rev = Call(c).seen.rev

(* A stale write starts over, three times. *)
Stale(c) ==
    /\ seriesCall' = [seriesCall EXCEPT ![c] =
         IF Call(c).tries < 3
         THEN [Call(c) EXCEPT !.pc = "read", !.tries = Call(c).tries + 1] ELSE NoCall]
    /\ UNCHANGED <<series, row>>

GivesUp(c) == CallEnds(c) /\ UNCHANGED <<series, row>>

KeyTaken(id, rev, d) ==
    \E i \in DOMAIN row :
        row[i].series = id /\ row[i].rev = rev /\ row[i].orig = d /\ ~ row[i].alone

(* Mutant of Clear: what the plan found is not asked again. *)
ClearAsPlanned(dates, id, rev, replacing) == dates

(* writeOccurrences: the planned dates still free, and not written already. *)
Clear(dates, id, rev, replacing) ==
    {d \in dates : ~ KeyTaken(id, rev, d) /\ ~ Taken(d, replacing)}

(* A date taken since it was planned refuses the write, unless such dates   *)
(* are skipped (as they were if the plan left any out); so does no date left. *)
MustRefuse(c, clear) == clear = {} \/ (clear # Call(c).kept /\ Call(c).skipped = {})

Date(id, rev, d) ==
    [series |-> id, rev |-> rev, orig |-> d, at |-> d, status |-> "on", alone |-> FALSE]

(* The rows with those of dates appended, in order. *)
Append1(rows, id, rev, dates) ==
    LET nth(k) == CHOOSE d \in dates : Cardinality({e \in dates : e < d}) = k - 1
    IN rows \o [k \in 1 .. Cardinality(dates) |-> Date(id, rev, nth(k))]

Turned(ids, status) ==
    [i \in DOMAIN row |-> IF i \in ids /\ row[i].status = "on"
                          THEN [row[i] EXCEPT !.status = status] ELSE row[i]]

WriteCreate(c) ==
    LET id == Len(series) + 1
        clear == Clear(Call(c).kept, id, 0, {})
    IN /\ Writes(c, "create")
       /\ \/ MustRefuse(c, clear) /\ GivesUp(c)
          \/ /\ clear # {} /\ id <= MaxSeries
             /\ row' = Append1(row, id, 0, clear)
             /\ series' = Append(series,
                   [status |-> "active", start |-> Call(c).to, until |-> Call(c).until,
                    end |-> Call(c).until,
                    mat |-> Later(Call(c).at, Call(c).to) + Horizon,
                    skipped |-> Call(c).skipped \cup (Call(c).kept \ clear), rev |-> 0])
             /\ CallEnds(c)

(* extendHostEventSeries gives way to whoever changed the series first. *)
WriteExtend(c) ==
    LET id == Call(c).id
        s == Call(c).seen
        target == Call(c).at + Horizon
        clear == Clear(Call(c).kept, id, s.rev + 1, {})
    IN /\ Writes(c, "extend")
       /\ \/ /\ ~ SameRevision(c)
             /\ GivesUp(c)
          \/ /\ SameRevision(c)
             /\ row' = Append1(row, id, s.rev + 1, clear)
             /\ series' = [series EXCEPT ![id] = [series[id] EXCEPT !.mat = target, !.rev = s.rev + 1,
                   !.skipped = s.skipped \cup (Call(c).kept \ clear),
                   !.status = IF Dates(s, target, Last + 1) = {} THEN "ended" ELSE "active"]]
             /\ CallEnds(c)

(* cancelHostEventSeries: whole, or cut before the pivot; the dates are read *)
(* under the lock.                                                         *)
WriteCancel(c) ==
    LET id == Call(c).id
        s == Call(c).seen
        cut == Pivot(Call(c), s)
        whole == s.start > Call(c).at /\ cut <= s.start
        trims == ~ whole /\ cut # NoCut /\ cut - 1 < s.until /\ Dates(s, cut, Last + 1) # {}
        gone == {i \in On : /\ row[i].series = id /\ row[i].at > Call(c).at
                            /\ \/ whole \/ Call(c).scope = "series"
                               \/ cut # NoCut /\ row[i].orig >= cut}
        next == IF whole THEN [series[id] EXCEPT !.status = "cancelled", !.rev = s.rev + 1]
                ELSE IF trims
                     THEN [series[id] EXCEPT !.until = cut - 1, !.rev = s.rev + 1,
                              !.end = Earlier(s.end, cut - 1),
                              !.status = IF series[id].mat >= cut THEN "ended" ELSE series[id].status]
                     ELSE [series[id] EXCEPT !.rev = s.rev + 1]
    IN /\ Writes(c, "cancel")
       /\ \/ ~ SameRevision(c) /\ Stale(c)
          \/ SameRevision(c) /\ gone = {} /\ ~ trims /\ ~ whole /\ GivesUp(c)
          \/ /\ SameRevision(c) /\ (gone # {} \/ trims \/ whole)
             /\ row' = Turned(gone, "off")
             /\ series' = [series EXCEPT ![id] = next]
             /\ CallEnds(c)

(* moveHostEventSeries: the same series when nothing of it has started and it *)
(* moves from its first date; else it ends, and goes on as a new one.       *)
WriteMove(c) ==
    LET s == Call(c).seen
        pivot == Pivot(Call(c), s)
        whole == pivot = s.start /\ s.start > Call(c).at
        id == IF whole THEN Call(c).id ELSE Len(series) + 1
        rev == IF whole THEN s.rev + 1 ELSE 0
        clear == Clear(Call(c).kept, id, rev, Call(c).replacing)
        moved == [status |-> "active", start |-> Call(c).to, until |-> s.until, end |-> s.until,
                  mat |-> Later(Call(c).at, Call(c).to) + Horizon,
                  skipped |-> Call(c).skipped \cup (Call(c).kept \ clear), rev |-> rev]
        cut == [series EXCEPT ![Call(c).id].until = pivot - 1, ![Call(c).id].status = "ended",
                              ![Call(c).id].rev = s.rev + 1,
                              ![Call(c).id].end = Earlier(s.end, pivot - 1)]
    IN /\ Writes(c, "move")
       /\ \/ ~ SameRevision(c) /\ Stale(c)
          \/ SameRevision(c) /\ (MustRefuse(c, clear) \/ id > MaxSeries) /\ GivesUp(c)
          \/ /\ SameRevision(c) /\ clear # {} /\ id <= MaxSeries
             /\ row' = Append1(Turned(Call(c).replacing, "replaced"), id, rev, clear)
             /\ series' = IF whole THEN [series EXCEPT ![id] = moved] ELSE Append(cut, moved)
             /\ CallEnds(c)

-----------------------------------------------------------------------------
(* Changes of single bookings: none of them touches the series' row. *)

Single ==
    /\ seriesUsed.singles < MaxSingles
    /\ seriesUsed' = [seriesUsed EXCEPT !.singles = @ + 1]
    /\ UNCHANGED <<seriesNow, series, seriesCall>>

(* Any other booking of the host. *)
BookOther ==
    \E slot \in Slots :
        /\ slot > seriesNow /\ ~ Taken(slot, {})
        /\ row' = Append(row, [Date(NoSeries, 0, slot) EXCEPT !.alone = TRUE])
        /\ Single

(* cancelBooking, of one date *)
CancelOne(i) ==
    /\ i \in On
    /\ row' = Turned({i}, "off")
    /\ Single

(* rescheduleBookingV2, of one date: a new row, of the same series and date. *)
MoveOne(i) ==
    \E slot \in Slots :
        /\ i \in On /\ slot > seriesNow /\ ~ Taken(slot, {i})
        /\ row' = Append(Turned({i}, "replaced"), [row[i] EXCEPT !.at = slot, !.alone = TRUE])
        /\ Single

SeriesTick ==
    /\ seriesNow < Last
    /\ seriesNow' = seriesNow + 1
    /\ UNCHANGED <<series, row, seriesCall, seriesUsed>>

-----------------------------------------------------------------------------
StartCall(c) == StartCreate(c) \/ StartExtend(c) \/ StartCancel(c) \/ StartMove(c)
WriteCall(c) == WriteCreate(c) \/ WriteExtend(c) \/ WriteCancel(c) \/ WriteMove(c)

SeriesNext ==
    \/ \E c \in Callers : StartCall(c) \/ Again(c) \/ WriteCall(c)
    \/ BookOther
    \/ \E i \in DOMAIN row : CancelOne(i) \/ MoveOne(i)
    \/ SeriesTick

SeriesSpec == SeriesInit /\ [][SeriesNext]_seriesVars

-----------------------------------------------------------------------------
(* Properties. *)

SeriesTypeOK ==
    /\ seriesNow \in 0 .. Last
    /\ series \in Seq(SeriesRow) /\ Len(series) <= MaxSeries
    /\ row \in Seq(Booking)
    /\ \A c \in Callers : seriesCall[c].kind \in Kinds /\ seriesCall[c].pc \in {"idle", "read", "write"}

(* The host is never in two bookings at once: a date is planned outside the *)
(* lock, and a booking may take its slot before the series is written.     *)
NoOverlap == \A i, j \in On : i # j => row[i].at # row[j].at

(* A date still to come that is on is one the series' rule gives now, and   *)
(* is on once: a series cancelled, cut or moved keeps nothing of what an   *)
(* extension that read it earlier was about to write.  (A date moved by    *)
(* itself bumps no revision, and a move of the series that was planned     *)
(* before leaves it where it is: those are left out.)                      *)
Upcoming == {i \in On : row[i].series # NoSeries /\ row[i].at > seriesNow /\ ~ row[i].alone}

DatesFollowRule ==
    \A i \in Upcoming :
        LET s == series[row[i].series] IN
        /\ s.status # "cancelled" /\ row[i].orig \in AllDates(s)
        /\ \A j \in Upcoming \ {i} : row[j].series = row[i].series => row[j].orig # row[i].orig

(* No date to come is lost: every date the rule gives up to the horizon is  *)
(* on, was cancelled by itself, or is listed as left out.  (A series that   *)
(* was cut may be moved again from a date that was moved by itself and lies *)
(* beyond the cut: its until_date then grows, and its rule lists dates that *)
(* have gone on in another series.  Those past its earliest end are its     *)
(* successors' to keep.)                                                    *)
NoDateLost ==
    \A id \in DOMAIN series : series[id].status # "cancelled" =>
        \A d \in Dates(series[id], seriesNow + 1, series[id].mat) \ series[id].skipped :
            d <= series[id].end => \E i \in DOMAIN row :
                row[i].series = id /\ row[i].orig = d /\ row[i].status \in {"on", "off"}
=============================================================================
