----------------------------- MODULE MCServicesProofs -----------------------------
(***************************************************************************)
(* The services of MCServices stand side by side: a behaviour of all of     *)
(* them is a behaviour of each, so what is proved of a service alone holds *)
(* there.  The calendar effects on two destinations and the picker are     *)
(* instances; so are what is proved of them, PairP and PickP.              *)
(***************************************************************************)
EXTENDS MCServices, SeriesProofs, CalendarProofs, ServiceProofs

PairP == INSTANCE CalendarProofs WITH
    Dests <- <<"org", "co">>, Faults <- {}, MaxFaults <- 0, MaxTries <- 1,
    MaxChanges <- 2, WaitLooks <- 1, MaxLooks <- 2,
    booking <- v1, change <- v2, mail <- v3, line <- v4, job <- v5, ref <- v6, event <- v7,
    told <- v8, torn <- v9, faults <- v10

PickP == INSTANCE SlotsProofs WITH
    Hosts <- PickerHosts, DayLen <- 4, now <- 1, MaxInstant <- 7, MaxBusy <- 2,
    Events <- PickerEvents, Zones <- PickerZones, Hours <- PickerHours,
    Windows <- PickerWindows, Engagements <- PickerEngagements,
    event <- v1, zone <- v2, busy <- v3, meeting <- v4, shown <- v5

(* What each service's theorems ask of its constants. *)
AllBounds ==
    /\ Bounds /\ OAuthBounds /\ BookBounds /\ MaxHoldCalls \in Nat /\ CalendarBounds

-----------------------------------------------------------------------------
(* Two instances of one module are the same.  Pair and PairP. *)

LEMMA PairSteps == [Pair!Next]_Pair!vars => [PairP!Next]_PairP!vars
<1> USE DEF Pair!Destinations, PairP!Destinations, Pair!Organizer, PairP!Organizer,
            Pair!Changes, PairP!Changes, Pair!Cancelled, PairP!Cancelled, Pair!NewRow,
            PairP!NewRow, Pair!NoMeeting, PairP!NoMeeting, Pair!Says, PairP!Says,
            Pair!NoMail, PairP!NoMail, Pair!NoJob, PairP!NoJob, Pair!Pending,
            PairP!Pending, Pair!HeadRow, PairP!HeadRow, Pair!AnyPending, PairP!AnyPending,
            Pair!Fault, PairP!Fault, Pair!Changed, PairP!Changed, Pair!Todo, PairP!Todo,
            Pair!Unsent, PairP!Unsent, Pair!Taggable, PairP!Taggable, Pair!Hear,
            PairP!Hear, Pair!Recorded, PairP!Recorded, Pair!MarkedBy, PairP!MarkedBy,
            Pair!ReinviteFor, PairP!ReinviteFor, Pair!OwesReinvite, PairP!OwesReinvite,
            Pair!h, PairP!h, Pair!Mine, PairP!Mine, Pair!Filled, PairP!Filled, Pair!First,
            PairP!First, Pair!EndRow, PairP!EndRow, Pair!Budget, PairP!Budget,
            Pair!FailRow, PairP!FailRow, Pair!Inviting, PairP!Inviting, Pair!Work,
            PairP!Work, Pair!TooLate, PairP!TooLate, Pair!Act, PairP!Act, Pair!Decided,
            PairP!Decided, Pair!StaysQuiet, PairP!StaysQuiet, Pair!MailStatus,
            PairP!MailStatus, Pair!StillWaits, PairP!StillWaits, Pair!MarkMuted,
            PairP!MarkMuted, Pair!d1, PairP!d1, Pair!Rest, PairP!Rest, Pair!MayClaim,
            PairP!MayClaim, Pair!Notify, PairP!Notify, Pair!Created, PairP!Created,
            Pair!Release, PairP!Release, Pair!Owed, PairP!Owed, Pair!Wanted, PairP!Wanted
<1>1. /\ (Pair!Begin <=> PairP!Begin)
      /\ (Pair!EndJob <=> PairP!EndJob)
      /\ (Pair!JobDies <=> PairP!JobDies)
  BY DEF Pair!Begin, PairP!Begin, Pair!EndJob, PairP!EndJob, Pair!JobDies, PairP!JobDies
<1>2. /\ (Pair!Decide <=> PairP!Decide)
      /\ (Pair!DecideRemoval <=> PairP!DecideRemoval)
      /\ (Pair!Mark <=> PairP!Mark)
  BY DEF Pair!Decide, PairP!Decide, Pair!DecideRemoval, PairP!DecideRemoval, Pair!Mark,
     PairP!Mark
<1>3. /\ (Pair!Claim <=> PairP!Claim)
      /\ (Pair!Fill <=> PairP!Fill)
  BY DEF Pair!Claim, PairP!Claim, Pair!Fill, PairP!Fill
<1>4. (Pair!CreateEvent <=> PairP!CreateEvent)
  BY DEF Pair!CreateEvent, PairP!CreateEvent
<1>5. /\ (Pair!UpdateEvent <=> PairP!UpdateEvent)
      /\ (Pair!DeleteEvent <=> PairP!DeleteEvent)
  BY DEF Pair!UpdateEvent, PairP!UpdateEvent, Pair!DeleteEvent, PairP!DeleteEvent
<1>6. /\ (Pair!ReinviteLooks <=> PairP!ReinviteLooks)
      /\ (Pair!TakeOff <=> PairP!TakeOff)
      /\ (Pair!TakenOff <=> PairP!TakenOff)
  BY DEF Pair!ReinviteLooks, PairP!ReinviteLooks, Pair!TakeOff, PairP!TakeOff, Pair!TakenOff,
     PairP!TakenOff
<1>7. /\ (Pair!PutBack <=> PairP!PutBack)
      /\ (Pair!Reinvited <=> PairP!Reinvited)
  BY DEF Pair!PutBack, PairP!PutBack, Pair!Reinvited, PairP!Reinvited
<1>8. /\ (Pair!Accept <=> PairP!Accept)
      /\ (Pair!Move <=> PairP!Move)
      /\ (Pair!Cancel <=> PairP!Cancel)
  BY DEF Pair!Accept, PairP!Accept, Pair!Move, PairP!Move, Pair!Cancel, PairP!Cancel
<1>9. \A c :
            /\ (Pair!QueueMail(c) <=> PairP!QueueMail(c))
            /\ (Pair!Tag(c) <=> PairP!Tag(c))
  BY DEF Pair!QueueMail, PairP!QueueMail, Pair!Tag, PairP!Tag
<1>10. \A c :
             /\ (Pair!SendMail(c) <=> PairP!SendMail(c))
             /\ (Pair!MailAnswer(c) <=> PairP!MailAnswer(c))
  BY DEF Pair!SendMail, PairP!SendMail, Pair!MailAnswer, PairP!MailAnswer
<1>11. \A c :
             /\ (Pair!AfterGaveUp(c) <=> PairP!AfterGaveUp(c))
             /\ (Pair!MailEnds(c) <=> PairP!MailEnds(c))
  BY DEF Pair!AfterGaveUp, PairP!AfterGaveUp, Pair!MailEnds, PairP!MailEnds
<1>12. Pair!JobStep <=> PairP!JobStep
  BY <1>1, <1>2, <1>3, <1>4, <1>5, <1>6, <1>7 DEF Pair!JobStep, PairP!JobStep
<1>13. \A c : (Pair!RequestStep(c) <=> PairP!RequestStep(c)) /\ (Pair!MailStep(c) <=> PairP!MailStep(c))
  BY <1>9, <1>10, <1>11 DEF Pair!RequestStep, PairP!RequestStep, Pair!MailStep, PairP!MailStep
<1>14. Pair!Next <=> PairP!Next
  BY <1>1, <1>8, <1>12, <1>13 DEF Pair!Next, PairP!Next
<1> QED
  BY <1>14 DEF Pair!vars, PairP!vars

LEMMA PairStarts == Pair!Init => PairP!Init
  BY DEF Pair!Destinations, PairP!Destinations, Pair!Organizer, PairP!Organizer, Pair!Changes,
     PairP!Changes, Pair!NoMeeting, PairP!NoMeeting, Pair!NoMail, PairP!NoMail, Pair!NoJob,
     PairP!NoJob, Pair!Init, PairP!Init

LEMMA PairKeeps ==
    /\ PairP!TypeOK => Pair!TypeOK
    /\ PairP!ToldOnce => Pair!ToldOnce
    /\ PairP!GuestInvited => Pair!GuestInvited
    /\ PairP!OnTheCalendar => Pair!OnTheCalendar
    /\ PairP!OffTheCalendar => Pair!OffTheCalendar
<1>1. PairP!TypeOK => Pair!TypeOK
  BY DEF Pair!Destinations, PairP!Destinations, Pair!Changes, PairP!Changes, Pair!Cancelled,
     PairP!Cancelled, Pair!Row, PairP!Row, Pair!NoMeeting, PairP!NoMeeting, Pair!Content,
     PairP!Content, Pair!Mail, PairP!Mail, Pair!Job, PairP!Job, Pair!TypeOK, PairP!TypeOK
<1>2. PairP!ToldOnce => Pair!ToldOnce
  BY DEF Pair!MarkedBy, PairP!MarkedBy, Pair!ToldOnce, PairP!ToldOnce
<1>3. PairP!GuestInvited => Pair!GuestInvited
  BY DEF Pair!Changes, PairP!Changes, Pair!Pending, PairP!Pending, Pair!AnyPending,
     PairP!AnyPending, Pair!AtRest, PairP!AtRest, Pair!AllDone, PairP!AllDone,
     Pair!GuestInvited, PairP!GuestInvited
<1>4. PairP!OnTheCalendar => Pair!OnTheCalendar
  BY DEF Pair!Destinations, PairP!Destinations, Pair!Changes, PairP!Changes, Pair!Pending,
     PairP!Pending, Pair!AnyPending, PairP!AnyPending, Pair!AtRest, PairP!AtRest,
     Pair!AllDone, PairP!AllDone, Pair!OnTheCalendar, PairP!OnTheCalendar
<1>5. PairP!OffTheCalendar => Pair!OffTheCalendar
  BY DEF Pair!Destinations, PairP!Destinations, Pair!Changes, PairP!Changes, Pair!Cancelled,
     PairP!Cancelled, Pair!Pending, PairP!Pending, Pair!AnyPending, PairP!AnyPending,
     Pair!AtRest, PairP!AtRest, Pair!OffTheCalendar, PairP!OffTheCalendar
<1> QED
  BY <1>1, <1>2, <1>3, <1>4, <1>5

(* Picker and PickP. *)

LEMMA PickerStarts == Picker!Init => PickP!Init
  BY DEF Picker!Instants, PickP!Instants, Picker!NotShown, PickP!NotShown, Picker!Interval,
     PickP!Interval, Picker!NoLimit, PickP!NoLimit, Picker!Greater, PickP!Greater,
     Picker!Lesser, PickP!Lesser, Picker!Offset, PickP!Offset, Picker!Local, PickP!Local,
     Picker!LocalDate, PickP!LocalDate, Picker!WallToUtc, PickP!WallToUtc, Picker!Sorted,
     PickP!Sorted, Picker!MergeNext, PickP!MergeNext, Picker!MergeIntervals,
     PickP!MergeIntervals, Picker!OverlapsBusy, PickP!OverlapsBusy,
     Picker!BookingWindowEnd, PickP!BookingWindowEnd, Picker!RulesOn, PickP!RulesOn,
     Picker!Cuts, PickP!Cuts, Picker!ComputeSlots, PickP!ComputeSlots, Picker!LoadBusy,
     PickP!LoadBusy, Picker!IsSlotBookable, PickP!IsSlotBookable, Picker!Init, PickP!Init,
     Picker!Cardinality, PickP!Cardinality, Picker!IsFiniteSet, PickP!IsFiniteSet

LEMMA PickerSteps == [Picker!Next]_Picker!vars => [PickP!Next]_PickP!vars
<1>1. \A set : Picker!MergeIntervals(set) = PickP!MergeIntervals(set)
  BY DEF Picker!Cardinality, PickP!Cardinality, Picker!IsFiniteSet, PickP!IsFiniteSet,
     Picker!Greater, PickP!Greater, Picker!Sorted, PickP!Sorted, Picker!MergeNext,
     PickP!MergeNext, Picker!MergeIntervals, PickP!MergeIntervals
<1>2. \A host, from, to, set :
         Picker!ComputeSlots(host, from, to, set) = PickP!ComputeSlots(host, from, to, set)
  <2>1. \A host, date : Picker!RulesOn(host, date) = PickP!RulesOn(host, date)
    BY DEF Picker!RulesOn, PickP!RulesOn
  <2>2. \A i : Picker!LocalDate(i) = PickP!LocalDate(i)
    BY DEF Picker!LocalDate, PickP!LocalDate, Picker!Local, PickP!Local, Picker!Offset,
       PickP!Offset
  <2>3. \A wall : Picker!WallToUtc(wall) = PickP!WallToUtc(wall)
    BY DEF Picker!Greater, PickP!Greater, Picker!Lesser, PickP!Lesser, Picker!Offset,
       PickP!Offset, Picker!Local, PickP!Local, Picker!WallToUtc, PickP!WallToUtc
  <2>4. \A s, e : Picker!Cuts(s, e) = PickP!Cuts(s, e)
    BY DEF Picker!Cuts, PickP!Cuts
  <2>5. \A a, b : Picker!Greater(a, b) = PickP!Greater(a, b) /\ Picker!Lesser(a, b) = PickP!Lesser(a, b)
    BY DEF Picker!Greater, PickP!Greater, Picker!Lesser, PickP!Lesser
  <2>6. Picker!BookingWindowEnd = PickP!BookingWindowEnd
    BY <2>2, <2>3 DEF Picker!BookingWindowEnd, PickP!BookingWindowEnd, Picker!NoLimit, PickP!NoLimit
  <2>7. \A s, e, q : Picker!OverlapsBusy(s, e, q) <=> PickP!OverlapsBusy(s, e, q)
    BY DEF Picker!OverlapsBusy, PickP!OverlapsBusy
  <2> QED
    BY <1>1, <2>1, <2>2, <2>3, <2>4, <2>5, <2>6, <2>7 DEF Picker!ComputeSlots, PickP!ComputeSlots
<1>3. \A host, from, to, moving :
         Picker!HostFreeSlots(host, from, to, moving) = PickP!HostFreeSlots(host, from, to, moving)
  BY <1>2 DEF Picker!Interval, PickP!Interval, Picker!LoadBusy, PickP!LoadBusy, Picker!BusyReadSpan,
     PickP!BusyReadSpan, Picker!MeetingTime, PickP!MeetingTime, Picker!HostFreeSlots,
     PickP!HostFreeSlots
<1>4. \A from, to : Picker!NewSlots(from, to) = PickP!NewSlots(from, to)
  <2>1. \A free : Picker!Combine(free) = PickP!Combine(free)
    BY DEF Picker!Combine, PickP!Combine
  <2>2. \A from, to : [host \in PickerHosts |-> Picker!HostFreeSlots(host, from, to, FALSE)]
                           = [host \in PickerHosts |-> PickP!HostFreeSlots(host, from, to, FALSE)]
    BY <1>3
  <2> QED
    BY <2>1, <2>2 DEF Picker!NewSlots, PickP!NewSlots
<1>5. \A from, to : Picker!MoveSlots(from, to) = PickP!MoveSlots(from, to)
  BY <1>3 DEF Picker!MoveSlots, PickP!MoveSlots
<1>6. \A host, s : Picker!IsSlotBookable(host, s) <=> PickP!IsSlotBookable(host, s)
  BY <1>2 DEF Picker!Interval, PickP!Interval, Picker!LoadBusy, PickP!LoadBusy,
     Picker!IsSlotBookable, PickP!IsSlotBookable
<1>7. \A from, to : Picker!Pick(from, to) <=> PickP!Pick(from, to)
  BY <1>4 DEF Picker!Pick, PickP!Pick, Picker!Show, PickP!Show
<1>8. \A from, to : Picker!PickMove(from, to) <=> PickP!PickMove(from, to)
  BY <1>5 DEF Picker!PickMove, PickP!PickMove, Picker!Show, PickP!Show
<1>9. \A s : Picker!Move(s) <=> PickP!Move(s)
  BY <1>6 DEF Picker!Move, PickP!Move, Picker!NotShown, PickP!NotShown
<1>10. \A host, i : Picker!Engage(host, i) <=> PickP!Engage(host, i)
  BY DEF Picker!Engage, PickP!Engage, Picker!NotShown, PickP!NotShown, Picker!Cardinality,
     PickP!Cardinality, Picker!IsFiniteSet, PickP!IsFiniteSet
<1>11. Picker!Next <=> PickP!Next
  BY <1>7, <1>8, <1>9, <1>10 DEF Picker!Next, PickP!Next, Picker!Instants, PickP!Instants
<1> QED
  BY <1>11 DEF Picker!vars, PickP!vars

LEMMA PickerTypes == PickP!TypeOK => Picker!TypeOK
  BY DEF Picker!Instants, PickP!Instants, Picker!TypeOK, PickP!TypeOK

LEMMA PickerExact == PickP!SlotsExact => Picker!SlotsExact
  BY DEF Picker!Interval, PickP!Interval, Picker!NoLimit, PickP!NoLimit, Picker!Offset,
     PickP!Offset, Picker!Local, PickP!Local, Picker!LocalDate, PickP!LocalDate,
     Picker!RulesOn, PickP!RulesOn, Picker!Cuts, PickP!Cuts, Picker!MeetingTime,
     PickP!MeetingTime, Picker!FirstAt, PickP!FirstAt, Picker!InHours, PickP!InHours,
     Picker!ClearOf, PickP!ClearOf, Picker!Free, PickP!Free, Picker!CanBeHad,
     PickP!CanBeHad, Picker!SlotsExact, PickP!SlotsExact

LEMMA PickerBounded == Picker!SlotsBounds => PickP!SlotsBounds
  BY DEF Picker!SlotsBounds, PickP!SlotsBounds, Picker!IsFiniteSet, PickP!IsFiniteSet

-----------------------------------------------------------------------------
(* Side by side. *)

(* A behaviour of all the services is one of each that stands in AllInit.   *)
LEMMA EachServiceRuns ==
    AllSpec => /\ SeriesSpec /\ CacheSpec /\ OAuthSpec /\ BookSpec /\ HoldSpec
               /\ WebSpec /\ ShareSpec /\ Spec
<1>1. AllInit => /\ SeriesInit /\ CacheInit /\ OAuthInit /\ BookInit /\ HoldInit
                 /\ WebInit /\ ShareInit /\ Init
  BY DEF AllInit
<1>2. ASSUME [AllNext]_allVars
      PROVE  /\ [SeriesNext]_seriesVars /\ [CacheNext]_cacheVars /\ [OAuthNext]_oauthVars
             /\ [BookNext]_bookVars /\ [HoldNext]_holdVars /\ [WebNext]_webVars
             /\ [ShareNext]_shareVars /\ [Next]_vars
  <2>1. CASE AllNext
    <3>1. SeriesNext \/ UNCHANGED seriesVars
      BY <2>1 DEF AllNext, Runs
    <3>2. CacheNext \/ UNCHANGED cacheVars
      BY <2>1 DEF AllNext, Runs
    <3>3. OAuthNext \/ UNCHANGED oauthVars
      BY <2>1 DEF AllNext, OneOAuthNext
    <3>4. BookNext \/ UNCHANGED bookVars
      BY <2>1 DEF AllNext, Runs
    <3>5. HoldNext \/ UNCHANGED holdVars
      BY <2>1 DEF AllNext, Runs
    <3>6. WebNext \/ UNCHANGED webVars
      BY <2>1 DEF AllNext, Runs
    <3>7. ShareNext \/ UNCHANGED shareVars
      BY <2>1 DEF AllNext, Runs
    <3>8. Next \/ UNCHANGED vars
      BY <2>1 DEF AllNext, Runs
    <3> QED
      BY <3>1, <3>2, <3>3, <3>4, <3>5, <3>6, <3>7, <3>8
  <2>2. CASE UNCHANGED allVars
    BY <2>2 DEF allVars
  <2> QED
    BY <1>2, <2>1, <2>2
<1> QED
  BY <1>1, <1>2, PTL
     DEF AllSpec, SeriesSpec, CacheSpec, OAuthSpec, BookSpec, HoldSpec, WebSpec, ShareSpec, Spec

(* Which service runs is settled at the start.                             *)
LEMMA WhichIsSettled ==
    ASSUME [AllNext]_allVars PROVE which' = which
  BY DEF AllNext, allVars

LEMMA WhichTyped == AllSpec => [](which \in Extended \cup {"pair", "picker"})
<1>1. AllInit => which \in Extended \cup {"pair", "picker"}
  BY DEF AllInit
<1>2. which \in Extended \cup {"pair", "picker"} /\ [AllNext]_allVars
          => (which \in Extended \cup {"pair", "picker"})'
  BY WhichIsSettled
<1> QED
  BY <1>1, <1>2, PTL DEF AllSpec

(* Once it is the second booking, on two calendars, that runs, all that is  *)
(* proved of a booking's calendars holds of it.                            *)
LEMMA PairBounds == PairP!CalendarBounds
<1>1. PairP!Destinations = {"org", "co"}
  BY DEF PairP!Destinations
<1>2. <<"org", "co">> \in Seq({"org", "co"}) /\ <<"org", "co">> # <<>>
  OBVIOUS
<1> QED
  BY <1>1, <1>2 DEF PairP!CalendarBounds

LEMMA PairHolds ==
    AllSpec => [](which = "pair" => /\ Pair!TypeOK /\ Pair!ToldOnce /\ Pair!GuestInvited
                                    /\ Pair!OnTheCalendar /\ Pair!OffTheCalendar)
<1>1. AllInit /\ which = "pair" => PairP!Init
  BY PairStarts DEF AllInit, Extended
<1>2. which = "pair" /\ [AllNext]_allVars => [PairP!Next]_PairP!vars
  <2>1. ASSUME which = "pair", AllNext PROVE Pair!Next
    BY <2>1 DEF AllNext, PoolNext, Extended
  <2>2. UNCHANGED allVars => UNCHANGED Pair!vars
    BY DEF allVars, pool, Pair!vars
  <2> QED
    BY <2>1, <2>2, PairSteps
<1>3. which = "pair" /\ [AllNext]_allVars => (which = "pair")'
  BY WhichIsSettled
<1>4. ~ (which = "pair") /\ [AllNext]_allVars => (~ (which = "pair"))'
  BY WhichIsSettled
<1>5. PairP!Spec => []PairP!TypeOK
  BY PairBounds, PairP!CalendarTypes
<1>6. PairP!Spec => []PairP!ToldOnce
  BY PairBounds, PairP!GuestToldOnce
<1>7. PairP!Spec => []PairP!GuestInvited
  BY PairBounds, PairP!GuestIsInvited
<1>8. PairP!Spec => []PairP!OnTheCalendar
  BY PairBounds, PairP!CalendarTrue
<1>9. PairP!Spec => []PairP!OffTheCalendar
  BY PairBounds, PairP!CalendarCleared
<1>10. PairP!TypeOK /\ PairP!ToldOnce /\ PairP!GuestInvited /\ PairP!OnTheCalendar
           /\ PairP!OffTheCalendar
       => Pair!TypeOK /\ Pair!ToldOnce /\ Pair!GuestInvited /\ Pair!OnTheCalendar
           /\ Pair!OffTheCalendar
  BY PairKeeps
<1> QED
  BY <1>1, <1>2, <1>3, <1>4, <1>5, <1>6, <1>7, <1>8, <1>9, <1>10, PTL DEF AllSpec, PairP!Spec

(* The picker of the run has the constants the theorems about it ask for:   *)
(* MCServices assumes it, and TLC evaluates the assumption.                *)
LEMMA PickerHolds == AllSpec => [](which = "picker" => Picker!TypeOK /\ Picker!SlotsExact)
<1>1. AllInit /\ which = "picker" => PickP!Init
  BY PickerStarts DEF AllInit, Extended
<1>2. which = "picker" /\ [AllNext]_allVars => [PickP!Next]_PickP!vars
  <2>1. ASSUME which = "picker", AllNext PROVE Picker!Next
    BY <2>1 DEF AllNext, PoolNext, Extended
  <2>2. UNCHANGED allVars => UNCHANGED Picker!vars
    BY DEF allVars, pool, Picker!vars
  <2> QED
    BY <2>1, <2>2, PickerSteps
<1>3. which = "picker" /\ [AllNext]_allVars => (which = "picker")'
  BY WhichIsSettled
<1>4. ~ (which = "picker") /\ [AllNext]_allVars => (~ (which = "picker"))'
  BY WhichIsSettled
<1>5. PickP!SlotsBounds
  BY PickerBounds, PickerBounded
<1>6. PickP!Spec => []PickP!TypeOK
  BY <1>5, PickP!SlotsTyped
<1>7. PickP!Spec => []PickP!SlotsExact
  BY <1>5, PickP!PickersExact
<1>8. PickP!TypeOK /\ PickP!SlotsExact => Picker!TypeOK /\ Picker!SlotsExact
  BY PickerTypes, PickerExact
<1> QED
  BY <1>1, <1>2, <1>3, <1>4, <1>6, <1>7, <1>8, PTL DEF AllSpec, PickP!Spec

-----------------------------------------------------------------------------
(* A picker of the services' run shows exactly the times that can be had:   *)
(* what Slots promises, of the picker there.                               *)
THEOREM EveryPickerExact == AllSpec => []SlotsExact
<1>1. (which = "picker" => Picker!TypeOK /\ Picker!SlotsExact) => SlotsExact
  BY DEF SlotsExact
<1> QED
  BY <1>1, PickerHolds, PTL

(* Somebody tells the guest of each change, and never twice, and the        *)
(* calendars say what the booking says: of a booking on one calendar whose *)
(* worker may die, and of one on two.                                      *)
THEOREM EveryGuestHears == ASSUME AllBounds PROVE AllSpec => []GuestHears
<1>1. Spec => []GuestInvited
  BY GuestIsInvited DEF AllBounds
<1>2. GuestInvited /\ (which = "pair" => /\ Pair!TypeOK /\ Pair!ToldOnce /\ Pair!GuestInvited
                                         /\ Pair!OnTheCalendar /\ Pair!OffTheCalendar)
          => GuestHears
  BY DEF GuestHears
<1> QED
  BY <1>1, <1>2, EachServiceRuns, PairHolds, PTL

(* Whatever service runs keeps its own type invariant.                     *)
THEOREM EveryServiceTyped == ASSUME AllBounds PROVE AllSpec => []AllTypeOK
<1>1. Spec => []TypeOK
  BY CalendarTypes DEF AllBounds
<1>2. SeriesSpec => []SeriesTypeOK
  BY SeriesTypes DEF AllBounds
<1>3. CacheSpec => [](CacheTypeOK /\ FreshIsCurrent)
  BY FreshKept
<1>4. OAuthSpec => []OAuthTypeOK
  BY OAuthTypes DEF AllBounds
<1>5. BookSpec => []BookTypeOK
  BY BookTypes DEF AllBounds
<1>6. HoldSpec => []HoldTypeOK
  BY HoldTypes DEF AllBounds
<1>7. WebSpec => []WebTypeOK
  BY WebTypes
<1>8. ShareSpec => []ShareTypeOK
  BY ShareTypes
<1>9. ASSUME which \in Extended \cup {"pair", "picker"},
             TypeOK, SeriesTypeOK, CacheTypeOK, OAuthTypeOK, BookTypeOK, HoldTypeOK, WebTypeOK,
             ShareTypeOK, which = "pair" => Pair!TypeOK, which = "picker" => Picker!TypeOK
      PROVE  AllTypeOK
  BY <1>9 DEF AllTypeOK, Extended
<1> QED
  BY <1>1, <1>2, <1>3, <1>4, <1>5, <1>6, <1>7, <1>8, <1>9, EachServiceRuns, WhichTyped,
     PairHolds, PickerHolds, PTL

=============================================================================
