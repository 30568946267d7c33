# Slate: a formal model

Slate is a scheduling service: people book time with a host, a team or a group
event; the host confirms, declines, moves or cancels; mail, calendar events,
webhooks and CRM records follow. This directory holds TLA+ models of the parts
whose correctness rests on how several requests, processes and failures
interleave, the TLC configurations that check them, and TLAPS proofs about them.

Paths below are relative to the repository: `packages/db/src/` is written
`db/`, `apps/api/src/` is written `api/`.

## 1. Inventory

### Components

| Component | Code | State it keeps | Operations | Hard because | Correct when |
|---|---|---|---|---|---|
| Booking store | `db/repository.ts`, `parity.ts`, `v2-pilot.ts`, `host-event.ts` | `booking`, `booking_host`, `booking_attendee`, row locks of `member` | book (personal, group seat, team, host event), reschedule (v1), move (v2), cancel, confirm, decline, add guests | reads and calendar calls outside the transaction that writes; two dialects with different locks | no member is in two live meetings that overlap; an ended meeting stays ended; a group never overfills; a key writes once |
| Slot holds | `db/parity.ts` | `slot_reservation` | reserve, release, sweep, consume | expiry by the clock; holds and bookings race | holds of one member do not overlap, the cap holds, a strict booking respects them |
| One-off links | `db/one-off-link.ts` | `one_off_link` | mint, open, burn, revoke | burned after the commit, in a statement of its own | an answered booking has burned its link |
| Outbox queue | `db/outbox.ts` | `outbox` rows: status, attempts, due time, lease, order key | enqueue, claim, renew, mark, take back, delete | several processes, three statements per claim, leases that run out | one delivery at a time, in order within a key, nothing lost or stuck |
| Outbox worker | `api/outbox.worker.ts` | slots in flight per lane | poll, deliver, retry, give up, compensate | timeouts, crashes, outcome writes that fail | fair to subscribers, outcome written by the lease's holder, follow-ups queued |
| Equal distribution | `db/parity.ts`, `packages/engine/src/host-selector.ts` | bookings counted per host | pick a host, insert if the share is still the least | share read before the lock | shares stay within one |
| Host-event series | `db/host-event-series.ts`, `api/series-extender.ts` | series row with a version, its occurrences | create, extend, move, cancel | optimistic version lock against a background extender | no occurrence past a cancel, none twice |
| Idempotency claims | `db/v2-pilot.ts` | `api_idempotency` | claim, complete, expire | claim and write are separate transactions | one write per key, a lost claim is retried |
| Calendar write-out | `db/calendar-refs.ts`, `api/calendar-effects.ts` | `booking_reference` claims | create, move, delete a provider event | a provider call between claim and record | at most one event per booking, no event of a cancelled one |
| Email effects | `api/email-effects.ts` | ICS sequence, outbox rows | lifecycle mail, reminders, reinvite | mail versus the calendar's own invitation | the guest is invited by one of the two |
| Busy cache | `api/busy-cache.ts` | entries, in-flight reads, generation | read, invalidate | a read that began before an invalidation | no answer older than the last invalidation |
| OAuth server | `db/oauth-store.ts`, `api/oauth/` | codes, tokens, grants | authorize, exchange, refresh, revoke | replayed codes, two refreshes at once | a code is used once, a revoked grant has no live token |
| Availability engine | `packages/engine/src/` | none | slots of a schedule, recurrence, time zones | boundaries, daylight saving | every offered slot is inside the hours and free |
| Web session refresh | `apps/web/lib/auth-session.ts`, `app/api/auth/` | session cookie | sign in and out, refresh in an action or in the refresh route | concurrent tabs, answers out of order, an identity service that does not answer | a session ends for a cause |
| CRM, analytics, sync | `api/*-effects.ts`, `packages/crm` | external ids | one call per outbox row | retries | the outbox's promises |
| REST and MCP | `api/booking.service.ts`, `cal-v2-pilot.service.ts`, `mcp/` | none | validate, call the store, format | little | – |
| Members, settings, onboarding; rate limits; web UI, configuration | `api/admin.service.ts`, ... | rows, counters | administration | little | – |

### How they interact

A request enters through REST or MCP, which call one store operation. The store
operation reads (slots, holds, the link, the key), may read the host's external
calendars, and then runs one transaction: it locks the rows of the members it
books in id order (`lockMembers`, `db/repository.ts`), checks again
(`runGuarded`, `runGuardedUpdate`, `insertHoldGuarded`), writes and commits. On
SQLite the member locks are one `BEGIN IMMEDIATE`. Postgres has, besides, the
exclusion constraint `booking_no_overlap`, which sees the **organizer** of a
booking only; a co-host is protected by the locks and the recheck alone. After
the commit the request gives back its hold, burns its link, and queues outbox
rows. The worker of every API process drains the outbox, lane by lane, with
leases; what a row does (a provider event, a mail) records its own references.

## 2. Modules

| Module | What it is |
|---|---|
| `HostCalendar.tla` | abstract: a host's diary, in which every placement, agreement, move, replacement and drop is one step and finds its members free |
| `Bookings.tla` | the booking store, its holds and links: requests that read, lock, check, write and follow up, on either dialect |
| `Outbox.tla` | one lane of the outbox and the workers that drain it |
| `CalendarEffects.tla` | one booking on its hosts' calendars: its rows in the outbox, the jobs that perform them, the guest's mail beside them |
| `Series.tla` | host-event series: calls that plan outside the lock and write under it, against the extender |
| `BusyCache.tla` | the cache of busy reads in one process |
| `OAuth.tla` | the artifacts of the authorization server and the requests that spend them |
| `KeyedBooking.tla`, `KeyedHold.tla` | the two MCP tools that retry around an idempotency key, `book_meeting` and `hold_slot` |
| `EqualShare.tla` | equal distribution of a round robin event |
| `Slots.tla` | slot generation, the pickers, and the check a move makes of its new time |
| `WebSession.tla` | the dashboard's session: one browser's cookie, its tabs, the identity service beside them |
| `MCBookings.tla`, `MCOutbox.tla`, `MCServices.tla` | small instances |
| `BookingsProofs.tla`, `StoreProofs.tla`, `OutboxProofs.tla`, `CalendarProofs.tla`, `SeriesProofs.tla`, `ServiceProofs.tla` (equal distribution, the session, the busy cache, OAuth, both keyed tools), `SlotsProofs.tla`, `MCServicesProofs.tla` (the services side by side) | theorems, for every value of the constants |

`Bookings` implements `HostCalendar`. The other modules compose by promise: each
relies on what another one states, and says so at its head. `CalendarEffects` takes a
booking's rows as one line of the outbox, delivered one at a time and in order
(`Outbox!OneDelivery`, `Outbox!InOrder`); `KeyedBooking` takes the booking core as a step
that books, refuses or cannot tell, once per key (`Bookings!WrittenOncePerKey`); `KeyedHold` takes
`reserveSlot` as a step that places a hold nobody else has (`Bookings!HoldsExclusive`).
A product of two of these modules would be out of TLC's reach and would check nothing
that these promises do not say.

### Bookings

State and code: `booking` is the table with its host and attendee rows, `hold`
the reservations, `link` the one-off links, `lock` the member row locks (index 0
is SQLite's write lock), `req` the local variables of each request under way,
`now` the clock. A booking or a hold is named by the request that wrote it.

A request's program counter follows the code's own cuts:

    idle --> lock --> check --> write --> unhold --> burn --> done
         \-> update (cancel, decline: one conditional UPDATE)

* `Arrive` holds everything an operation does before its transaction:
  `BookRequest` (`createBooking`), `TeamRequest` (`createTeamBooking`),
  `HostEventRequest`, `HoldRequest` (`reserveSlot`, with its sweep),
  `RescheduleRequest` (v1), `MoveRequest` (v2), `ConfirmRequest`, and so on.
  What it read (status, hosts, key) is kept in `req` and may be stale later.
  The checks whose data is abstracted (offered hours, the duplicate guard, a
  calendar that is busy or unreadable) may always turn a request down: `Refuse`.
* `TakeLock` takes one member's row at a time, the lowest id first.
* `Check` is the recheck under the locks, one case per operation.
* `Write*` is the write with the commit; UNIQUE and EXCLUDE violations are part
  of it. Statements that run outside a guarded transaction respect the row lock
  (`MayWriteRow`) or SQLite's write lock (`MayWrite`).
* `DropHold` and `BurnLink` run after the commit; `Crash` ends a request at any
  point and rolls back what it has not committed.

Which of the free hosts a team booking gets is left open (`Assignments` allows
every assignment the scheduling method may make). Times are small integers, all
meetings have one length `Len`.

### Outbox

State: `row` is the table; due times and leases are the ticks left, so that the
clock needs no bound. `claim` is the claim each process is making, `slot` what
each delivery slot is working on with the values it read at its claim. Four
history variables (`begun`, `lapsed`, `kept`, `followed`) serve the properties.

A claim is three statements and three actions: `StartClaim` reads the
subscribers in flight, `ReadHeads` the head of each line, `Lease` is the one
conditional UPDATE. Any other process, and every outcome write, may come in
between. `Deliver` ends in success, a failure with the back-off and give-up
rules, or a decision not to perform; `FollowUp` is `compensate`; `Record` is the
`markOutbox*` call under the lease check, `RecordFails` the case in which that
write throws. `Drop` and `TakeBack` are `deletePendingOutbox` and
`skipQueuedOutboxRow`. `Crash` loses a process's slots and claim; the leases
stay. Delivery slots of a process are alike, so `Lease` fixes one assignment.
The jitter of `retryDelayMs`, which only shortens a wait, is left out.

### CalendarEffects

State: `booking` and the `change`s it went through, each with what its request
still has to do (queue the mail, mark the calendar row); `mail`, the invitee's mail of
each change; `line`, the booking's calendar rows; `job`, the attempt on the first of
them; `ref`, the `booking_reference` claims; `event`, the provider's events; `told`,
what the guest heard, from whom.

`Accept`, `Move` and `Cancel` queue a row with the booking's write. `QueueMail` and `Tag`
are the rest of that request (`tagCalendarChangeWithInviteeEmail`), which
runs after it, so a job may begin in between. `Begin` .. `EndJob` are a job of
`calendar-effects.ts` cut where it awaits: what the booking is now, what became of the mail
(`Decide`, `DecideRemoval`), the mark that the event was written quietly (`Mark`), and per
destination the claim, the provider call and the record (`Claim`, `CreateEvent`, `Fill`,
`UpdateEvent`, `DeleteEvent`); `left` is the set of destinations the job has still to do, taken first to last. `ReinviteLooks` .. `Reinvited` is the reinvite, which takes the guest off the
event and puts them back so that the provider invites them. `JobDies` is a crash; a
create whose answer is lost is a branch of `CreateEvent`.

### Series

State: `series` (the rule and its `end`, `mat` = materialized until, `skipped`, `rev` = revision), `row`
(dates and the host's other bookings), `call`. `Start*` is what a call reads and plans outside the
lock, `Again` the replan after a lost race, `Write*` the transaction under the
host's lock with its revision check, the re-check of the planned dates and
their unique key. `CancelOne` and `MoveOne` are what the booking store does to one date. A
date fills one slot and a rule gives every `Period`-th.

### BusyCache

State: entries least recently used first (`held`), reads under way (`flights`), `generation`,
`failedAt`; `calendar` and `announced` are versions, the environment's and the history's. `Hit`,
`Join`, `StartFlight` and `StandIn` are the ways a read goes, `Lands` and `Fails` what becomes of a flight,
`TimesOut` those who wait for it giving up, `Invalidate` the call after a write with its pruning of generations.

### OAuth

State: rows of the artifact table by kind (`ticket`, `grant` with its meta row, `token`), the
result of the one interaction (`answer`), and what each request read. `DecideConsent` mints a ticket and
`FinishConsent` is a request that comes with one; it goes on to `Take`, `SaveGrant`, `SaveMeta`, `Answer`; an exchange is `Present` (the provider's find and its
reading of a spent token), `Consume` or `Lost` (the conditional update), `Rotate` or `Issue`, and `Check`, the look at the grant after
a token is stored. `Disconnect`, `Purge`, `RequestDies` and `OAuthTick` come in between. The library
that calls the adapter is external; its order of calls is what the adapter's code and tests
rely on.

### KeyedBooking, KeyedHold

State: the key's `record`, what was booked or held, each attempt's `call`. Actions are the
tools' own statements: claim, replay, look for a booking under the key, book, look again after a
refusal, store the refusal or the success; for a hold: place, bind, drop, store,
reopen, read back, undo. Sweeps of the record, other bookings, cuts and lost replies are
actions. `late` remembers that a call began after the booking was there.

### EqualShare

`Probe` and `ShareLook` are what a request reads outside the event's lock, `WritePick` the pick made again
under it from the loads then; `ShareCancel` and `OtherEngagement` happen in between.

### Slots

`NewSlots`, `MoveSlots` and `IsSlotBookable` are the engine and its callers as
operators, over wall clocks of a zone that changes its offset once. The property `SlotsExact` compares what a picker shows
with a definition (`CanBeHad`) that knows of no windows, merging or stepping. `Engage`, `Move`, `Pick` and `PickMove` make it a system.
The sort and the merge of busy times are recursive functions over the list's positions. What the property
takes of its constants is `SlotsBounds`, which TLC evaluates of the run's values (`PickerBounds` in `MCServices`).

### WebSession

A request sees the cookie it was sent with (`jar`), and what it sets reaches the browser with its
answer (`Arrives`), in any order with the other tab's, or never (`Lose`). `TabRefused` is a host call the API
answers 401 (`req`, `hostFetch`): an action goes on to `RefreshInPlace`, with its one retry and with the old
cookie that the probe of `sessionCookieIsWritable` sets again; a render is sent to `RefreshRoute`, which reads the
cookie anew, and from there perhaps to `LogoutRoute`. `RefreshUpstream` is what the exchange with the identity
service learned. It and the API are external: refresh tokens rotate with a grace, a 401 is a verdict on the
token, and either may be broken for good (`broken`). The property `EndedForCause` lists every way in
which a session may be ended upstream; a tab's `other` is history: the cookie had changed when it reached the refresh or the logout route. Left out: the local provider, a 403 from something in front of the
identity service, the workspace cookie.

## 3. Runs

| Run | Instance | Shows |
|---|---|---|
| `Cohosts` | Postgres, 2 hosts, 3 requests, starts 1 and 2, a collective booking at 0 | every commit is a step of `HostCalendar`, which gives no host or co-host a time twice; every request is answered (no deadlock between writers that share two hosts) |
| `Lifecycle` | Postgres, 3 requests out of move, reschedule, cancel, confirm, decline, guest, over one pending or accepted booking | the inductive invariant `GuardedInv`; a booking ends one way and stays ended |
| `Holds` | one host, 3 requests out of hold, release, book, team, move and reschedule, 2 starts, a clock tick, hold cap 1 (203,701 states) | the cap is never passed; a strict booking never lands on another's live hold, whatever is moved beside it |
| `Groups` | a group event of 2 seats behind a one-off link, 3 people, 3 requests, moves among them (88,850 states) | the slot never overfills; holds never overlap; an answered booking has burned its link |
| `Sqlite` | SQLite, fixed round robin and gated events, one key, crashes, 2 requests | no double booking without an EXCLUDE, one write per key |
| `Webhooks` | 2 processes, 3 slots, 3 events about two bookings for one subscriber, one fault | type; order; no two deliveries of a row at once; one slot per process for a subscriber; every row ends |
| `Mail` | 2 processes, 2 slots, confirmation, cancellation and a later reminder in one line, one fault | no unsent mail ends without its follow-up; what ended stays so |
| `Services` | every service module, each in instances of its own | what the tables below list |
| `ConfirmThenMove` | a pending booking, three requests | *violated*: finding 1 |
| `RescheduleTwice` | an accepted booking, one key | *violated*: finding 2 |
| `RefusedMail` | as `Mail` | *violated*: finding 3 |
| `TightMove` | as `Services` | *violated*: finding 4 |

`Services` runs eleven instances, which share nothing: a behaviour of `MCServices` is one
service's own, chosen at the start by `which`, while the others stand still. `MCServices` extends the
modules themselves, so the properties it checks are the very definitions the theorems of section 4 are about;
`Slots` and a second instance of `CalendarEffects` are instantiated, over variables of their own. One run takes the
place of eleven small ones (1,479,241 states).

| `which` | Bounds | Shows |
|---|---|---|
| `calendar` | one destination, 2 changes, 1 try, 1 crash or lost answer | `ToldOnce`, `GuestInvited` (as `GuestHears`), `OnTheCalendar`, `OffTheCalendar` |
| `pair` | organizer and co-host, 2 changes, no faults but failing calls | the same, over two claims (all in `GuestHears`) |
| `series` | 2 callers, 3 calls, 2 series, 4 slots, 1 change of a single booking | `NoOverlap`, `DatesFollowRule`, `NoDateLost` |
| `cache` | 1 connection, 2 windows, 2 entries, 1 write, 4 ticks, generations pruned at once | `FreshIsCurrent` |
| `tokens` | 2 requests, 1 grant, 4 tokens, 2 ticks, 1 death | `UsedOnce`, `GraceFromFirstUse`, `NothingOutlivesItsGrant`, `NoHiddenConnection` |
| `consent` | 2 requests, 2 tickets, 2 grants, 1 death | `UsedOnce`, `NoHiddenConnection` |
| `book` | 2 calls at once, 4 in all, 2 times, 1 sweep, 2 other bookings | `NoFalseRefusal`, `RecordTellsTheTruth` |
| `hold` | 2 calls at once, 4 in all, 2 times, 2 faults | `AnsweredHoldStands`, `NoStrayHold` |
| `web` | 2 tabs, 3 token pairs, 2 sign-ins, 3 ticks, tokens that live 2 and count as expired 1 early, no grace | `EndedForCause` |
| `picker` | 2 hosts, 3 events, 3 zones, 2 days of 4 units, 2 busy intervals | `SlotsExact` |
| `share` | 3 hosts, one of whom offers nothing, 2 requests, lead 3, 1 other engagement | `NobodyTakenTooFarAhead` |

Why the bounds are enough. A double booking, a lost update or a bad order
needs two writers and something for them to collide on; three requests add a
bystander that commits between the two steps of one of them, and every run but
`Sqlite` has three. Under SQLite's one write lock transactions are serial, so
two requests suffice. Two hosts are the least with a co-host, and with two lock
orders. Starts 0, 1 and 2 with length 2 give overlap, touching and identity. In the
outbox a third row is needed to be overtaken by or to overtake; two processes
race for a claim and one with two slots could give both to one subscriber; one
fault is enough to lose a lease, and `LeaseTime` 2 is the least with which a
lease can be renewed before it runs out. `MaxBackoff`, `MaxAttempts` and
`Horizon` are the least with a retry and a give-up (`Mail` counts age as well).
`MaxFaults`, `MaxTime` and the request set bound what would be infinite.

In the services: two changes of a booking are the least in which a job of the first meets
the second (an event written, or claimed, while the booking is cancelled or moved), and one try
makes every failure also a row's end. A second destination is needed for the co-host's event to be quiet
while the organizer's invites. A series is extended once while it is cut, moved or cancelled by the other caller,
which is the race its revision is for, and three calls let one of them follow. The
cache needs an invalidation before, within and after a read, with a wider window beside it and an entry to evict. Four tokens
are a code and three generations of refresh tokens, so a spent one can be replayed after its successor was spent.
A keyed call needs a twin at once, and calls after both. The picker's two days hold the gap, the
repeated hour, a date override, and a window that ends between slot and buffer. A lead of three (the code's)
needs a host with three bookings beside one with none, hence four times. Two tabs race for one
refresh, and three token pairs are a sign-in, its refresh, and a refresh or sign-in of the other tab.

`Outbox` never deadlocks because time goes on; in `Bookings` the action
`Finished` stands for a store with no more requests. A service stops when its bounds are
used up, so `Services` and `TightMove` check no deadlock.

Symmetry is used in runs without liveness properties only, over requests (the
services' two callers too) and people, which no action tells apart.

### Fairness

`Bookings!FairSpec` has weak fairness on the steps of a request that is in the
store: the event loop runs an async function whose awaited statement has
returned, and the database eventually grants a lock that is released. Nothing
obliges a request to arrive, a process to crash or the clock to advance.

`Outbox!FairSpec` has weak fairness on a claim (the poll timer), on a delivery
under way (every delivery has a timeout, so it returns or throws), on its
renewal timer, on recording, and on time. It has none on enqueuing, on faults, on a
booking change that drops or takes back a row. A renewal is timely, so a lease is
outlived only by a counted fault; with `MaxFaults` they stop, which is what
`EveryRowEnds` needs ("once the faults stop"). Only `Webhooks` uses it; `Mail` checks
safety and runs `Outbox!Spec`. The services are checked for safety alone: their
retries are the outbox's, the extender's timer and their callers'.

## 4. Proofs

`BookingsProofs` proves, for any set of members, events, starts, requests and
seeds, on either dialect, with crashes or not:

* `TypeCorrect == Spec => []TypeOK`
* `NoDoubleBookings == Spec => []NoDoubleBooking`
* `GuardedWrites == Spec => []GuardedInv`, of which the other two are parts.

It assumes the named assumptions of `Bookings` (`MembersAssumption`,
`TimesAssumption`, `EventsAssumption`, `NamesAssumption`, `SeedsAssumption`),
which TLC evaluates in every run: members are a finite set of numbers, an
event's fixed hosts are among its hosts, names are distinct, and seeds are well
formed and do not overlap.

`NoDoubleBooking` is not inductive. A write that gives a booking a time keeps
it only if the time is still free when it writes, and that is known from a
check made in an earlier step. `GuardedInv` adds what carries the check to the
write:

* `LocksHeld`: past its locks a request has the lock of every member it books
  (or SQLite's). Two requests in `check` or `write` that share a member are
  therefore the same request (lemma `LocksApart`).
* `RowsUnwritten`: the row a request will insert is absent until it does.
* `TargetsKept`: the host set a reschedule or a move read before its locks is
  still its booking's. Without it a mover could hold the wrong members' locks.
  It holds because no operation of the code changes the hosts of a row.
* `FreeUntilWrite`: in `write`, the hosts are free at the wanted time. Other
  requests that give a time to one of these hosts are excluded by `LocksApart`
  (`PlacedStep`); all other steps only end bookings or change what
  `NoDoubleBooking` does not read (`QuietStep`).

`NextGuarded` has one step per action; each action's lemma says which of three
kinds of step it is: it gives no one a time, it ends a transaction, or it places a
booking. TLC checks `GuardedInv` as an invariant of `Lifecycle`, too.

`StoreProofs` builds on it. Its lemmas first say, action by action, what a step does to its
request (`Enters`, `Turns`) and to the rows (`NextRows`: a step leaves them, lets people join,
drops, shifts, agrees, opens or replaces one); the invariants rest on those alone.

| Theorem | Hypothesis | Invariant beside `GuardedInv`, and why it is needed |
|---|---|---|
| `HoldsApart` (`HoldsExclusive`) | – | `HoldInv`: the time a hold about to be written found free is free of holds still; other holds of that member are written under the lock it has |
| `HoldsCapped` (`HoldsWithinCap`) | `Requests` is finite, so that holds can be counted | `CapInv`: the room it found is there still, for the same reason |
| `KeysWriteOnce` (`WrittenOncePerKey`) | – | `KeyInv`: no two rows bear one key, and who was told that their key wrote has the row that bears it |
| `LinksAreSpent` (`AnsweredLinkIsSpent`) | "live" names no booking | `LinkInv`: who was answered has burned the link or is on the way to |
| `EndedStays` (`EndedStaysEnded`), `EndsAreOne` (`EndsOneWay`) | `SeedsHosted`: a personal event's booking there at the start is its host's | `EndInv`: a seat or a move about to write has a target that stands (`TargetsLive`). The row lock it took keeps cancels and declines out; two movers of one booking would share its hosts' locks (`OneMover`), which needs every row to have hosts (`Hosted`) |
| `HeldTimesKept` (`HeldTimeKept`) | `SeedsHosted` | `HoldTimesInv`: the time a strict booking found free of other visitors' holds is so until it writes (`HoldersFree`: a hold is placed under the member's lock, which the booking has), and the time a hold found offered stays offered until it is written (`OffersOpen`: no booking takes it meanwhile). A booking that a v1 reschedule has moved is exempt: that reschedule minds no holds (`Rescheduled` in `HeldTimeKept`) |
| `PeopleAreSeated` (`PeopleWithinLimit`) | `SeedsHosted`; `SeedsFit`: no seeded group starts with more people than seats; `People` is finite | `PeopleInv`: the room a seat found is there until it writes (`SeatsStay`), because it has the booking's row locked and the host's guests, who join by one conditional UPDATE, cannot come in between |
| `StoreImplementsDiary` (`ImplementsDiary`) | `SeedsHosted` | `EndInv`: each kind of row step is a step of the diary or none, and `FreeUntilWrite` is its guard |

`OutboxProofs` proves, for any rows, lines, processes, slots, times and fault bound
(assumptions `RowsAssumption`, `SlotsAssumption`, `TimesAssumption`): `TypeOK`, `InOrder`, `OneDelivery`,
`OnePerSubscriber`, `FollowUpQueued` and `EndedStays`, the last an action property. The inductive
invariant has three parts beside the types:

* `Deliv`: a slot that delivers holds its row's token and a live lease, unless it outlived its lease
  (`lapsed`) or its row is over. Two live leases on one row would be one token, so no row is
  delivered twice.
* `Claims`: a claim under way still has the free slots it counted, the subscribers in flight
  on its process are among those it read, and each head it read has nothing
  due at once behind it in its line. The heads are stale when they are leased; this
  is what staleness cannot undo.
* `Soon`: a row that was due at once and has not been kept queued stays active, so a
  head reader sees it.

Lemma `Room` shows that the rows of a claim fit into the process's free slots. For the types, the back-off is a
power of two, which the prover takes as an integer of unknown sign; a wait is the greater of it and a floor that
is not negative, and that is enough (`WaitsForward`, `Timed`).

`CalendarProofs` proves of `CalendarEffects`, for any destinations, changes, tries, looks and faults:

* `CalendarTypes` and `CalendarRowsKept`. `Base` is what the line is: its first row and no other creates, a removal is
  the last change, ended rows come before pending ones, a job is at a step its row has (`PcFits`), and a reinvite stands behind
  the change that owes it (`ReinvitesOwe`).
* `GuestToldOnce` (`ToldOnce`). The invariant is `Hearing`: no two rows bear one mail (`MailOnce`) and a mark
  names a mail that was queued (`MarksMailed`); the guest has heard from a mail only if it is done or was dropped in flight
  (`MailTold`); and once the provider has spoken of a change, or is about to (`MayTell`), that change's mail
  *gave way* (`GaveWay`): it ended unsent, or it never was, or the removal has used up its looks. That it stays so
  is the point: nothing queues a mail again that gave way, and nothing marks a row that is under way.
* `CalendarCleared` (`OffTheCalendar`). `Written` says, while nothing is torn apart,
  that a claimed reference belongs to the running attempt (`Claims`), that a destination has one event at most, and none where its reference is free
  (`Once`), that a removal has cleared every destination it is done with (`Clearing`), and that after a removal that went
  through there is nothing left (`Cleared`).
* `CalendarTrue` (`OnTheCalendar`). That there is one event is `Once`. That there is one at all is `Listed`: a
  filled reference is of an event that is there (`There`), and from the end of the first row on every reference is filled
  (`FilledSince`). Its time is right by `Timed`: an attempt with no change waiting behind it works with the booking's
  time (`ReadsTheTime`), and a move has set it on each event it is past (`MovedSoFar`). The guest is on it by
  `Guests`: only the organizer's event can lack them, and only while a reinvite that is owed is at the head of
  the line, which does not end before it has put them back (`GuestsOn`, `OwedIsMade`). All three need `Marks`: one mail marks one row and has
  one reinvite.
* `GuestIsInvited` (`GuestInvited`). Where the first write is not quiet the provider invites with it (`FirstTold`). A row is
  quiet only if it has its mail (`Quiet`); a mail that is done was sent, and none is dropped for a booking that is
  on (`Sent`); a reinvite is queued before the end of an unsent mail is recorded (`MadeUp`); and that
  reinvite is not done before the guest heard (`RedoneHeard`). The last is the delicate one, since an update
  notifies only of a change: from when the guest is taken off the organizer's event until they
  are told, they are off it, across deaths and retries (`Redone`).

Its hypothesis is `CalendarBounds`: there is a destination, the bounds are numbers, and a look that
waits is one of the looks there are (`WaitLooks <= MaxLooks`).

`ServiceProofs` proves what the small services promise, each with its type invariant (`ShareTypes`, `WebTypes`,
`FreshKept`, `OAuthTypes`, `BookTypes`, `HoldTypes`).

*Equal distribution, the session, the busy cache.* `NobodyTakenTooFarAhead` for any hosts, hours and lead
(`LeadAssumption`, `HoursAssumption`) needs no invariant but the types: the write picks again
from the loads it changes, and a host held back is no candidate; the work is in the
cardinalities. `EndedForCause` (assumption `WebTimesAssumption`: a token outlives the margin by which it counts as expired,
`Skew < Life`) rests on `WebInv`: a tab that is on its way to end a session was refused with a token that
exists (`MetRefusal`); if it goes on to refresh, that token has expired or something is broken (`RefusedForCause`); and if it
goes to log out, the token cannot be spent any more or the cookie had changed on the way (`LeavesForCause`, the
divergence of section 5). `FreshIsCurrent` rests on `CacheInv`: a flight's generation is no more than its connection's, which no pruning
takes away while the flight is in the air (`FlightRight`), and an entry that counts as fresh is no older than
what was announced (`Current`). For the sequences filtered and reordered on the way, the proof
uses only which entries come out (`EntriesAt`), never in which order.

*The keyed tools.* For the booking tool, `NoFalseRefusal` and `RecordTellsTheTruth` under the
hypothesis `BookNamesApart` ("none" is not a time one can ask for). The invariant: a call that began after
the booking finds it, and never comes to store a refusal (`Known`); while nothing was cut off, running calls share
the record there is (`Shared`), and a booking the record does not tell of has a call about to tell it once
a refusal was stored or is about to be (`Told`). Its types need `BookLog` beside that (the record is one that a call
opened, what is taken and answered is of the times there are) and `BookBounds`, that the bound on calls is a number. For the hold tool:
`AnsweredHoldStands`, that all attempts with one key which are told of a hold
are told of the same (`OneAnswer`), and `NoStrayHold`, for a bound on calls in `Nat`. Its invariant: a record is given an
answer once and for all, record ids are fresh, and the attempt about to undo its hold is
not the one whose hold is stored; for `NoStrayHold` besides, a live hold is the record's, or an attempt that
placed it is where it will store or undo it (`Backing`).

*OAuth.* `UsedOnce`, `GraceFromFirstUse`, `NothingOutlivesItsGrant` and
`NoHiddenConnection`, under `Bounded` (the bounds on time and grants and the grace are in `Nat`).
The invariant relates each request to the rows it is about: what it names is there
(`Placed`), a ticket taken is gone and its grant its taker's own (`Tickets`), of the
requests that present one artifact at most one has consumed it and what comes of a spent token was asked for within its
grace (`Spending`, `Codes`), a token stored after its grant was revoked has its storer's look at the
grant still to come (`Alive`), and a connection is shown before its token is given (`Shown`). The types take `OAuthLog` beside it: tokens and
requests are as of no later than now, and the bounds hold (hypothesis `OAuthBounds`: the bounds are numbers).

`SeriesProofs` proves `SeriesTypeOK`, `NoOverlap`, `DatesFollowRule` and `NoDateLost` for any callers,
period, horizon and bounds (`Bounds`). A call plans outside the lock, so the invariant has to say
what its plan is worth when it is written:

* `Follows`: every date to come that is not on its own fits its series' rule, is behind what the
  series has materialised, and is there once.
* `Planful`: what a call planned is its rule's dates as it read the series; and as long as the
  series' revision is the one it read, the series is what it read, and the dates a
  move replaces are all those to come from its pivot on. The check of the revision under the
  lock turns this into what holds at the write.

Beside them `Owned` (a date's series exists) and `NoOverlap` itself, which the write's look at the
host's time keeps. `NoDateLost` needs `LastInv`: every date a series owes up to where it is materialised has its row or was skipped
(`Lasting`), the earliest end a rule had is no later than its end (`EndsFirst`), and a plan leaves out none of the
dates it is for (`PlansWhole`).

`SlotsProofs` proves `SlotsTyped` and `PickersExact` (`SlotsExact`): for any hosts, hours, zones, busy times and
windows, a picker shows the times that can be had and no others. The state is little more than the
picker's input, so the proof is of the algorithm:

* `WallIsFirst`: what `WallToUtc` gives for a wall clock is the first instant at which the zone's clock reads it or
  is past it, on both sides of a change of offset and where the clock reads a time twice or never.
* `MergeKeeps`, `MergedIs`: after sorting and merging, an interval overlaps a busy time exactly if it did before. It
  is an induction over the list, made as a least counterexample (`NatMin`), since the library's induction theorems
  take an operator.
* `DatesRead`, `WindowEnd`, `LoadKeeps`: the dates that are walked and the span in which busy times are read miss
  no slot that the window shows and no busy time that could stand in its way, buffers included.
* `NewIsExact` and `MoveIsExact` join them for the two pickers.

Its hypothesis is `SlotsBounds`: there is a host, lengths and steps are positive, an event's hosts are hosts,
blocks of hours lie within a day, offsets are less than a day, the times that matter lie within `MaxInstant`, and a
clock that is turned back is not turned back over a midnight it has passed. Without the last a window could end on an
earlier date than it starts on, and the dates walked from the one to the other would be none. Changes at
midnight itself or after the first hour, as they are today, satisfy it; one at a minute past midnight would not.

`MCServicesProofs` takes this to the run. `EachServiceRuns`: a behaviour of the services side by side is a
behaviour of each of them, which stutters where another one runs. So the run's own properties are
theorems: `EveryPickerExact` (`SlotsExact`), `EveryGuestHears` (`GuestHears`, the calendars' invariants on one
destination with deaths and on two), `EveryServiceTyped` (`AllTypeOK`). The hypothesis `AllBounds` puts the services'
own together. The calendars on two destinations and the picker are instances of their modules, and so are the theorems about
them; that the two instances are the same is shown definition by definition.

With this every invariant, action property and refinement that a passing run checks is a theorem. Out of this prover's reach, and left to TLC: liveness (`AllAnswered`,
`EveryRowEnds`) and `ENABLED`.

## 5. Findings

1. **A confirmed meeting can be declined.** `docs/MCP.md:55` says of
   `decline_booking` that it "Never touches an accepted booking".
   `rescheduleBookingV2` reads the status before its locks and writes it to the
   replacement row (`db/v2-pilot.ts:797`); a confirmation that lands in between
   is undone, and the next decline ends the meeting (`ConfirmThenMove`).
2. **A v1 reschedule repeated under one Idempotency-Key moves twice.**
   `db/parity.ts:1590` promises the opposite; the key is compared with what was
   read outside the lock, and not again under it (`RescheduleTwice`).
3. **A refused mail can be overtaken.** `db/outbox.ts:425` says that rows wait
   for one that backs off. A row kept queued on its first attempt because its
   follow-up could not be queued is written back with 0 attempts and due in
   30 s (`api/outbox.worker.ts:358`), which the claim does not count as active
   (`RefusedMail`).

4. **A booking may move into a buffer.** `db/repository.ts:423` says that
   `isSlotBookable` enforces buffers, and `db/parity.ts:1633` repeats it of a reschedule. It loads busy
   time over the slot alone (`db/repository.ts:474-492`), where the pickers read the slot and its
   buffers (`busyReadSpan`, 749-757): what lies only in a buffer is never loaded, so the engine
   cannot refuse it, and the booking moves to a time its picker does not offer (`TightMove`).

Four more divergences are built into the models and named at the properties that make room for them:

* `db/schema.pg.ts:559-562` says a series' revision is bumped by every write that changes the
  series or its dates. A date moved by itself (`db/v2-pilot.ts:791-803`) does not bump it, so a move of the series
  planned before leaves that date where it is. `DatesFollowRule` leaves out dates moved alone.
* A series that is moved from a date on leaves its old part ending the day before that date. `moveHostEventSeries`
  writes that end unconditionally (`db/host-event-series.ts:1197-1202`), so the end of a series that had been cut
  earlier than the pivot moves later, where `cancelHostEventSeries` guards the same write with `ruleChanges`. `NoDateLost` counts dates up to the earliest end a rule has had (`end`); what lies beyond has gone on in another series.
* `db/calendar-refs.ts:463` says the claim cannot produce a duplicate external event. A create
  whose answer is lost gives its claim back and is repeated (`api/calendar-effects.ts:573-596`). `OnTheCalendar`
  leaves out a booking whose create lost its answer (`torn`).
* `apps/web/lib/admin-api.ts:81-82` says an expiring token is "not a reason to sign anyone out". Of two tabs
  that were both refused with an expired token, the one that reaches `/api/auth/refresh` after the other's
  answer finds a token that is not expired, takes its own refusal for something else than expiry
  (`refresh/route.ts:63`), and ends the session just refreshed. `EndedForCause` names it as a cause (the last
  disjunct of `Cause`); without that disjunct TLC finds it violated in `Web`.

## 6. Not modelled, and why

* Data the properties do not tell apart: names, answers to a form, mail bodies,
  tokens, signatures, formatting, logging.
* External calendars, for the store: a read of one may refuse any booking (`Refuse`),
  which is all the store does with it.
* Which of the free hosts a team booking gets (except under equal distribution), minting of links.
* Of a series: rules with a count, and its recurring event on the calendar.
* Of calendar and mail: the ICS sequence, reminders' due times, meeting links.
* Of the web session: the local provider, the workspace cookie.
* Of OAuth: client registration, access tokens (signed, never stored), expiry.
* CRM, analytics and sync effects, each one call per outbox row, whose
  order and retries are the outbox's.
* Members, workspaces, settings, onboarding, rate limits and usage counters: rows
  written one at a time, with nothing that interacts.
* Web UI, translations, transfer types, OpenAPI and tool descriptions, schemas, templates,
  configuration. They are most of the repository's lines and keep no state that a property
  could be about; this is why the models cover a small share of the lines and
  most of the code that interacts.
* The residuals the code documents at `db/one-off-link.ts:340-358`: two bookings may
  both open a link before either burns it, and a crash may leave it live. The model has both;
  no property forbids them.

## 7. Plan

Done: `HostCalendar`, `Bookings`, `Outbox`, the services, and the proofs of section 4.

Left, the most valuable first:

1. Series: counted rules and the claim of the recurring event.
2. `CalendarEffects` composed with `Outbox` itself, on one line of two rows, as
   a check of the promise the first relies on.
