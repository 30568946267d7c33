------------------------------ MODULE MCServices ------------------------------
(***************************************************************************)
(* Small instances of the services beside the bookings and the outbox.     *)
(* They share nothing, and a run of this module checks all of them: a      *)
(* behaviour is one service's own, chosen at the start, while the others   *)
(* stand still.  A second instance of the calendar effects, and the        *)
(* picker, take their variables from the pool v1 .. v10.                   *)
(***************************************************************************)
EXTENDS Series, BusyCache, OAuth, KeyedBooking, KeyedHold, WebSession, EqualShare,
    CalendarEffects, Integers, TLC

CONSTANTS One, Two   \* two requests, callers or attempts

VARIABLES which, v1, v2, v3, v4, v5, v6, v7, v8, v9, v10

TheHours == [m \in 1 .. 3 |-> CASE m = 1 -> 1 .. 4 [] m = 2 -> {4} [] OTHER -> {}]

-----------------------------------------------------------------------------
(* The event's calendar on one destination, where the worker dies or an     *)
(* answer is lost; and on two, where nothing but calls fails.              *)
OneCalendar == <<"org">>

Pair == INSTANCE CalendarEffects WITH
    Dests <- <<"org", "co">>, Faults <- {}, MaxFaults <- 0, MaxTries <- 1,
    MaxChanges <- 2, WaitLooks <- 1, MaxLooks <- 2,
    booking <- v1, change <- v2, mail <- v3, line <- v4, job <- v5, ref <- v6, event <- v7,
    told <- v8, torn <- v9, faults <- v10

(* Two days of four units; the clock is turned forward, back, or not.  The  *)
(* second host has two blocks a day and other hours on the second date.    *)
PickerEvent(method, fixed, assigned) ==
    [method |-> method, fixed |-> fixed, assigned |-> assigned, len |-> 1, step |-> 1,
     before |-> 0, after |-> 1, notice |-> 1, days |-> 99]
Time(s, t) == [from |-> s, to |-> t]

PickerHosts == {1, 2}
PickerEvents ==
    {PickerEvent("collective", {}, {1, 2}),
     [PickerEvent("fixed_round_robin", {1}, {1, 2}) EXCEPT
         !.len = 2, !.before = 1, !.after = 0, !.notice = 0, !.days = 1],
     [PickerEvent("round_robin", {}, {2}) EXCEPT
         !.step = 2, !.before = 1, !.after = 0, !.days = 0]}
PickerZones ==
    {[at |-> 99, before |-> 0, after |-> 0], [at |-> 3, before |-> 0, after |-> 1],
     [at |-> 4, before |-> 1, after |-> 0]}
PickerHours ==
    <<[week |-> {<<0, 4>>}, override |-> <<>>],
      [week |-> {<<0, 3>>, <<1, 4>>}, override |-> (1 :> {<<1, 3>>})]>>
PickerWindows == {Time(0, 7), Time(0, 4), Time(3, 5)}
PickerEngagements == {Time(1, 2), Time(1, 4), Time(3, 6), Time(6, 7)}

Picker == INSTANCE Slots WITH
    Hosts <- PickerHosts, DayLen <- 4, now <- 1, MaxInstant <- 7, MaxBusy <- 2,
    Events <- PickerEvents, Zones <- PickerZones, Hours <- PickerHours,
    Windows <- PickerWindows, Engagements <- PickerEngagements,
    event <- v1, zone <- v2, busy <- v3, meeting <- v4, shown <- v5

ASSUME PickerBounds == Picker!SlotsBounds

-----------------------------------------------------------------------------
pool == <<v1, v2, v3, v4, v5, v6, v7, v8, v9, v10>>
Extended ==
    {"series", "cache", "tokens", "consent", "book", "hold", "web", "share", "calendar"}

Blank5 == v6 = 0 /\ v7 = 0 /\ v8 = 0 /\ v9 = 0 /\ v10 = 0
Blank == v1 = 0 /\ v2 = 0 /\ v3 = 0 /\ v4 = 0 /\ v5 = 0 /\ Blank5

AllInit ==
    /\ SeriesInit /\ CacheInit /\ OAuthInit /\ BookInit /\ HoldInit /\ WebInit /\ ShareInit
    /\ Init
    /\ \/ which \in Extended /\ Blank
       \/ which = "pair" /\ Pair!Init
       \/ which = "picker" /\ Picker!Init /\ Blank5
    /\ which # "web" => broken = {}

(* The service that runs takes a step, any other stands still. *)
Runs(service, Step, variables) == IF which = service THEN Step ELSE UNCHANGED variables

(* One grant and its tokens over time; or two consents at once. *)
OneOAuthNext ==
    \/ which = "tokens" /\ OAuthNext /\ Len(ticket') <= 1
    \/ which = "consent" /\ OAuthNext /\ Len(token') <= 1 /\ oauthNow' = 0
    \/ which \notin {"tokens", "consent"} /\ UNCHANGED oauthVars

PoolNext ==
    \/ which = "pair" /\ Pair!Next
    \/ which = "picker" /\ Picker!Next /\ UNCHANGED <<v6, v7, v8, v9, v10>>
    \/ which \in Extended /\ UNCHANGED pool

AllNext ==
    /\ UNCHANGED which
    /\ Runs("series", SeriesNext, seriesVars)
    /\ Runs("cache", CacheNext, cacheVars)
    /\ OneOAuthNext
    /\ Runs("book", BookNext, bookVars)
    /\ Runs("hold", HoldNext, holdVars)
    /\ Runs("web", WebNext, webVars)
    /\ Runs("share", ShareNext, shareVars)
    /\ Runs("calendar", Next, vars)
    /\ PoolNext

allVars ==
    <<which, seriesVars, cacheVars, oauthVars, bookVars, holdVars, webVars, shareVars,
      vars, pool>>

AllSpec == AllInit /\ [][AllNext]_allVars

-----------------------------------------------------------------------------
(* Every service's type invariant, of the one that runs. *)
AllTypeOK ==
    CASE which = "calendar" -> TypeOK
      [] which = "pair" -> Pair!TypeOK
      [] which = "picker" -> Picker!TypeOK
      [] which = "series" -> SeriesTypeOK
      [] which = "cache" -> CacheTypeOK
      [] which \in {"tokens", "consent"} -> OAuthTypeOK
      [] which = "book" -> BookTypeOK
      [] which = "hold" -> HoldTypeOK
      [] which = "web" -> WebTypeOK
      [] which = "share" -> ShareTypeOK

(* Somebody told the guest of each change: CalendarEffects.GuestInvited; and *)
(* all that is said of one calendar holds of a booking on two.             *)
GuestHears ==
    /\ GuestInvited
    /\ which = "pair" =>
           Pair!ToldOnce /\ Pair!GuestInvited /\ Pair!OnTheCalendar /\ Pair!OffTheCalendar

(* A picker shows exactly the times that can be had: Slots.SlotsExact. *)
SlotsExact == which = "picker" => Picker!SlotsExact

(* A booking moves only to a time its picker shows: Slots.BookableIsOffered. *)
BookableIsOffered ==
    [][which = "picker" => v4' = v4 \/ v4' \in Picker!MoveSlots(0, 8)]_allVars

RequestSymmetry == Permutations({One, Two})
=============================================================================
