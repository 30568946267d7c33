---------------------------- MODULE CalendarEffects ----------------------------
(***************************************************************************)
(* One booking on its hosts' calendars.  Each change of the booking        *)
(* (accepted, moved, cancelled) queues a calendar row and the invitee's    *)
(* mail, which marks that row.  The calendar job of the row writes one     *)
(* event per destination, and keeps the provider from inviting the guest   *)
(* while that mail can still tell them.  A mail that ends unsent queues a  *)
(* reinvite, which has the provider invite the guest after all.            *)
(*                                                                         *)
(* The rows of a booking are one line of the outbox: delivered one at a    *)
(* time, in the order queued (Outbox!InOrder, Outbox!OneDelivery).  The    *)
(* mail to one invitee is another line.  Backoff and due times are         *)
(* abstracted: a row that failed is tried again at any later moment.       *)
(* The guest is the booking's only one.                                    *)
(***************************************************************************)
EXTENDS Naturals, Sequences, FiniteSets

CONSTANTS
    Dests,       \* the destination calendars, as a sequence: the organizer's first
    MaxChanges,  \* bound on the booking's changes
    MaxTries,    \* DEFAULT_MAX_ATTEMPTS
    WaitLooks,   \* INVITEE_EMAIL_WAIT_ATTEMPTS
    MaxLooks,    \* INVITEE_EMAIL_MAX_LOOKS
    Faults,      \* what may go wrong beside a failing call: "crash", "lost" (an answer)
    MaxFaults    \* bound on those

VARIABLES
    booking,     \* the booking: its status and time
    change,      \* its changes so far: what each is, what its request has still to do
    mail,        \* the invitee mail of each change
    line,        \* the booking's calendar rows in the outbox, in order
    job,         \* the attempt on the first row not ended
    ref,         \* booking_reference: free, claimed or filled, for each destination
    event,       \* the provider: events of this booking on each destination
    told,        \* what the guest was told: by whom, on which change, saying what
    torn,        \* what a fault left apart: a claim unfilled, or an event unknown
    faults

vars == <<booking, change, mail, line, job, ref, event, told, torn, faults>>

-----------------------------------------------------------------------------
Destinations == {Dests[i] : i \in DOMAIN Dests}
Organizer == Dests[1]
Changes == 1 .. MaxChanges
Cancelled == "cancelled"

Row == [action : {"create", "reschedule", "delete", "reinvite"},
        status : {"pending", "done", "failed", "skipped"},
        mail : 0 .. MaxChanges, muted : BOOLEAN, looks : 0 .. MaxLooks, removed : BOOLEAN,
        reinvited : BOOLEAN, tries : Nat, late : BOOLEAN]

NewRow(action, m) ==
    [action |-> action, status |-> "pending", mail |-> m, muted |-> FALSE, looks |-> 0,
     removed |-> FALSE, reinvited |-> FALSE, tries |-> 0, late |-> FALSE]

(* What the guest is told: the meeting's time, or that it is off. *)
NoMeeting == 0
Content == Changes \cup {NoMeeting}

Says == IF booking.status = Cancelled THEN NoMeeting ELSE booking.time

NoMail == [status |-> "none", pc |-> "idle", says |-> NoMeeting]
Mail == [status : {"none", "queued", "done", "ended", "gone"},
         pc : {"idle", "sending", "ending", "ended"}, says : Content]

Job == [pc : {"idle", "decide", "mark", "claim", "create", "fill", "move", "remove",
              "reinvite", "takeoff", "takenoff", "putback", "reinvited"},
        time : Changes, invite : BOOLEAN, left : SUBSET Destinations, inviting : Destinations]

NoJob == [pc |-> "idle", time |-> 1, invite |-> FALSE, left |-> {}, inviting |-> Organizer]

Pending(i) == line[i].status = "pending"
HeadRow == CHOOSE i \in DOMAIN line : Pending(i) /\ \A j \in 1 .. i - 1 : ~ Pending(j)
AnyPending == \E i \in DOMAIN line : Pending(i)

Init ==
    /\ booking = [status |-> "accepted", time |-> 1]
    /\ change = <<>>
    /\ mail = [c \in Changes |-> NoMail]
    /\ line = <<>>
    /\ job = NoJob
    /\ ref = [d \in Destinations |-> "free"]
    /\ event = [d \in Destinations |-> [n |-> 0, time |-> 1, guest |-> FALSE]]
    /\ told = {}
    /\ torn = "nothing"
    /\ faults = 0

Fault(kind) == kind \in Faults /\ faults < MaxFaults /\ faults' = faults + 1

-----------------------------------------------------------------------------
(* The booking's changes.  Each queues its calendar row as it is made; the   *)
(* rest of its request queues the mail, then marks the row with it.        *)

Changed(action) ==
    /\ Len(change) < MaxChanges /\ booking.status = "accepted"
    /\ line' = Append(line, NewRow(action, 0))
    /\ change' = Append(change, [action |-> action, todo |-> "mail"])
    /\ UNCHANGED <<mail, job, ref, event, told, torn, faults>>

Accept == change = <<>> /\ Changed("create") /\ UNCHANGED booking

Move ==
    /\ change # <<>> /\ Changed("reschedule")
    /\ booking' = [booking EXCEPT !.time = Len(change) + 1]

Cancel ==
    /\ change # <<>> /\ Changed("delete")
    /\ booking' = [booking EXCEPT !.status = Cancelled]

Todo(c, todo) == change' = [change EXCEPT ![c].todo = todo]

(* dropUnsentLifecycleMail: a cancelled booking announces nothing else. *)
Unsent(c) ==
    IF change[c].action # "delete" THEN mail
    ELSE [b \in Changes |-> IF mail[b].status = "queued" THEN [mail[b] EXCEPT !.status = "gone"]
                            ELSE mail[b]]

(* The mail is a snapshot of the booking; the account may not want it. *)
QueueMail(c) ==
    /\ change[c].todo = "mail"
    /\ \/ /\ mail' = [Unsent(c) EXCEPT ![c] = [NoMail EXCEPT !.status = "queued", !.says = Says]]
          /\ Todo(c, "tag")
       \/ /\ mail' = Unsent(c)
          /\ Todo(c, "nothing")
    /\ UNCHANGED <<booking, line, job, ref, event, told, torn, faults>>

(* Mutant of Taggable: a row under way is marked too. *)
TaggableUnderWay(i, c) ==
    line[i].action = change[c].action /\ Pending(i) /\ line[i].mail = 0

(* A row of the change still waiting: not marked, and not being delivered. *)
Taggable(i, c) ==
    /\ line[i].action = change[c].action /\ Pending(i) /\ line[i].mail = 0
    /\ job.pc = "idle" \/ i # HeadRow

(* tagCalendarChangeWithInviteeEmail, the latest such row.  It may fail, and *)
(* nothing is done about that.                                             *)
Tag(c) ==
    LET rows == {i \in DOMAIN line : Taggable(i, c)} IN
    /\ change[c].todo = "tag"
    /\ \/ UNCHANGED line
       \/ LET i == CHOOSE i \in rows : \A j \in rows : j <= i
          IN  rows # {} /\ line' = [line EXCEPT ![i].mail = c, ![i].late = mail[c].pc = "ended"]
    /\ Todo(c, "nothing")
    /\ UNCHANGED <<booking, mail, job, ref, event, told, torn, faults>>

-----------------------------------------------------------------------------
(* The invitee mail. *)

Hear(channel, c, says) == told' = told \cup {[by |-> channel, on |-> c, says |-> says]}

SendMail(c) ==
    /\ mail[c].status = "queued" /\ mail[c].pc = "idle"
    /\ \A b \in 1 .. c - 1 : mail[b].status # "queued"
    /\ mail' = [mail EXCEPT ![c].pc =
                  IF change[c].action # "delete" /\ booking.status = Cancelled
                  THEN "ending" ELSE "sending"]
    /\ UNCHANGED <<booking, change, line, job, ref, event, told, torn, faults>>

Recorded(c, status) == IF mail[c].status = "queued" THEN status ELSE mail[c].status

(* The mail service takes it, refuses it (or has failed too often), or fails. *)
MailAnswer(c) ==
    /\ mail[c].pc = "sending"
    /\ \/ /\ mail' = [mail EXCEPT ![c].pc = "idle", ![c].status = Recorded(c, "done")]
          /\ Hear("mail", c, mail[c].says)
       \/ /\ mail' = [mail EXCEPT ![c].pc = "ending"]
          /\ UNCHANGED told
       \/ /\ mail' = [mail EXCEPT ![c].pc = "idle"]
          /\ UNCHANGED told
    /\ UNCHANGED <<booking, change, line, job, ref, event, torn, faults>>

(* findCalendarChangeForInviteeEmail *)
MarkedBy(c) == {i \in DOMAIN line : line[i].mail = c /\ line[i].action # "reinvite"}
ReinviteFor(c) == {i \in DOMAIN line : line[i].mail = c /\ line[i].action = "reinvite"}

(* reinviteGuest, hasReinviteFor *)
OwesReinvite(c) ==
    /\ \E i \in MarkedBy(c) : line[i].action # "delete"
    /\ booking.status = "accepted"
    /\ ReinviteFor(c) = {}

(* afterGaveUp, before the end of the mail's row is recorded. *)
AfterGaveUp(c) ==
    /\ mail[c].pc = "ending"
    /\ line' = IF change[c].action # "delete" /\ OwesReinvite(c)
               THEN Append(line, NewRow("reinvite", c)) ELSE line
    /\ mail' = [mail EXCEPT ![c].pc = "ended"]
    /\ UNCHANGED <<booking, change, job, ref, event, told, torn, faults>>

MailEnds(c) ==
    /\ mail[c].pc = "ended"
    /\ mail' = [mail EXCEPT ![c].pc = "idle", ![c].status = Recorded(c, "ended")]
    /\ UNCHANGED <<booking, change, line, job, ref, event, told, torn, faults>>

-----------------------------------------------------------------------------
(* The calendar job.  Its row is the first of the line not ended. *)

h == HeadRow
Mine == line[h]
Filled == {d \in Destinations : ref[d] = "filled"}
First(D) ==
    Dests[CHOOSE i \in DOMAIN Dests : Dests[i] \in D /\ \A j \in 1 .. i - 1 : Dests[j] \notin D]

EndRow(status) == line' = [line EXCEPT ![h].status = status] /\ job' = NoJob

Budget == IF Mine.action = "delete" THEN MaxTries + MaxLooks ELSE MaxTries

(* recordFailure *)
FailRow(row) ==
    /\ line' = [line EXCEPT ![h] = [row EXCEPT !.tries = @ + 1,
                  !.status = IF row.tries + 1 = Budget THEN "failed" ELSE "pending"]]
    /\ job' = NoJob

(* invitingDestination *)
Inviting(D) == IF Organizer \in D \/ D = {} THEN Organizer ELSE First(D)

(* Where a job starts: the events it writes, moves or removes. *)
Work ==
    CASE Mine.action = "create" -> Destinations
      [] Mine.action = "reschedule" -> IF Filled = {} THEN Destinations ELSE Filled
      [] OTHER -> Filled

(* Mutant of TooLate: nothing is done for a booking that is off. *)
TooLateWhenOff == booking.status # "accepted"

(* A write or a move is for a booking that is on. *)
TooLate == Mine.action # "delete" /\ booking.status # "accepted"

Begin ==
    /\ job.pc = "idle" /\ AnyPending
    /\ IF TooLate
       THEN EndRow("skipped")
       ELSE /\ UNCHANGED line
            /\ job' = [pc |-> IF Mine.action = "reinvite" THEN "reinvite" ELSE "decide",
                       time |-> booking.time, invite |-> FALSE, left |-> Work,
                       inviting |-> Inviting(Work)]
    /\ UNCHANGED <<booking, change, mail, ref, event, told, torn, faults>>

(* How the events are reached once it is decided who tells the guest. *)
Act ==
    CASE Mine.action = "delete" -> "remove"
      [] Mine.action = "reschedule" /\ Filled # {} -> "move"
      [] OTHER -> "claim"

Decided(invite, pc) == job' = [job EXCEPT !.invite = invite, !.pc = pc]

StaysQuiet == Mine.action # "delete" /\ Mine.muted

MailStatus == IF Mine.mail = 0 THEN "none" ELSE mail[Mine.mail].status

(* providerInvites, for a write or a move: quiet while the mail may go out.  *)
Decide ==
    /\ job.pc = "decide" /\ Mine.action # "delete"
    /\ IF StaysQuiet THEN Decided(FALSE, Act)
       ELSE IF MailStatus \in {"queued", "done"}
            THEN Decided(FALSE, "mark") ELSE Decided(TRUE, Act)
    /\ UNCHANGED <<booking, change, mail, line, ref, event, told, torn, faults>>

(* Mutant of StillWaits: a mail on its way is waited for without a bound. *)
StillWaitsForEver == Mine.looks < WaitLooks \/ mail[Mine.mail].pc # "idle"

StillWaits ==
    \/ Mine.looks < WaitLooks
    \/ mail[Mine.mail].pc # "idle" /\ Mine.looks < MaxLooks

(* providerInvites, for a removal: it cannot be made up for later, so it    *)
(* waits for the mail, then takes it back.                                  *)
DecideRemoval ==
    LET looked == [Mine EXCEPT !.looks = @ + 1] IN
    /\ job.pc = "decide" /\ Mine.action = "delete"
    /\ \/ /\ MailStatus \in {"none", "ended", "gone"}
          /\ Decided(TRUE, Act) /\ UNCHANGED <<mail, line>>
       \/ /\ MailStatus = "done"
          /\ Decided(FALSE, "mark") /\ UNCHANGED <<mail, line>>
       \/ /\ MailStatus = "queued" /\ StillWaits
          /\ FailRow(looked) /\ UNCHANGED mail
       \/ /\ MailStatus = "queued" /\ ~ StillWaits
          /\ mail' = IF mail[Mine.mail].pc = "idle"
                     THEN [mail EXCEPT ![Mine.mail].status = "ended"] ELSE mail
          /\ Decided(TRUE, Act) /\ UNCHANGED line
    /\ UNCHANGED <<booking, change, ref, event, told, torn, faults>>

(* Mutant of MarkMuted: the choice is not recorded. *)
MarkMutedNot == line

MarkMuted == [line EXCEPT ![h].muted = TRUE]

(* Recorded before the write. *)
Mark ==
    /\ job.pc = "mark"
    /\ line' = MarkMuted
    /\ job' = [job EXCEPT !.pc = Act]
    /\ UNCHANGED <<booking, change, mail, ref, event, told, torn, faults>>

d1 == First(job.left)
Rest == [job EXCEPT !.left = @ \ {d1}, !.pc = IF @ = "fill" THEN "claim" ELSE @]

(* Mutant of MayClaim: only a filled reference counts as claimed. *)
MayClaimUnfilled(d) == ref[d] # "filled"

(* The unique index on (booking, destination). *)
MayClaim(d) == ref[d] = "free"

(* claimBookingDestination *)
Claim ==
    /\ job.pc = "claim" /\ job.left # {}
    /\ IF MayClaim(d1)
       THEN ref' = [ref EXCEPT ![d1] = "claimed"] /\ job' = [job EXCEPT !.pc = "create"]
       ELSE UNCHANGED ref /\ job' = Rest
    /\ UNCHANGED <<booking, change, mail, line, event, told, torn, faults>>

(* The provider tells the guest when it is asked to and something changes. *)
Notify(news) ==
    IF job.invite /\ d1 = job.inviting /\ news
    THEN Hear("provider", Mine.mail, IF Mine.action = "delete" THEN NoMeeting ELSE job.time)
    ELSE UNCHANGED told

Created ==
    /\ event' = [event EXCEPT ![d1] = [n |-> @.n + 1, time |-> job.time, guest |-> TRUE]]
    /\ Notify(TRUE)

Release == ref' = [ref EXCEPT ![d1] = "free"] /\ FailRow(Mine)

CreateEvent ==
    /\ job.pc = "create"
    /\ \/ /\ Created /\ job' = [job EXCEPT !.pc = "fill"] /\ UNCHANGED <<line, ref, torn, faults>>
       \/ /\ Release /\ UNCHANGED <<event, told, torn, faults>>
       \/ /\ Fault("lost") /\ Created /\ Release /\ torn' = "event"
    /\ UNCHANGED <<booking, change, mail>>

(* fillBookingReference *)
Fill ==
    /\ job.pc = "fill"
    /\ ref' = [ref EXCEPT ![d1] = "filled"]
    /\ job' = Rest
    /\ UNCHANGED <<booking, change, mail, line, event, told, torn, faults>>

(* moveEvent: the time and the guests the job read. *)
UpdateEvent ==
    /\ job.pc = "move" /\ job.left # {}
    /\ \/ /\ event' = [event EXCEPT ![d1].time = job.time, ![d1].guest = TRUE]
          /\ Notify(event[d1].n > 0 /\ (event[d1].time # job.time \/ ~ event[d1].guest))
          /\ job' = Rest
          /\ UNCHANGED line
       \/ FailRow(Mine) /\ UNCHANGED <<event, told>>
    /\ UNCHANGED <<booking, change, mail, ref, torn, faults>>

(* Deleting what is already gone is done. *)
DeleteEvent ==
    /\ job.pc = "remove" /\ job.left # {}
    /\ \/ /\ event' = [event EXCEPT ![d1].n = IF @ = 0 THEN 0 ELSE @ - 1]
          /\ Notify(event[d1].n > 0)
          /\ job' = Rest
          /\ UNCHANGED line
       \/ FailRow(Mine) /\ UNCHANGED <<event, told>>
    /\ UNCHANGED <<booking, change, mail, ref, torn, faults>>

(* The job is through: a removal drops the booking's references. *)
EndJob ==
    /\ job.pc \in {"claim", "move", "remove"} /\ job.left = {}
    /\ EndRow("done")
    /\ ref' = IF job.pc = "remove" THEN [d \in Destinations |-> "free"] ELSE ref
    /\ UNCHANGED <<booking, change, mail, event, told, torn, faults>>

-----------------------------------------------------------------------------
(* reinviteGuest *)

Owed == CHOOSE i \in MarkedBy(Mine.mail) : TRUE

(* The change ended quietly, and nobody has invited the guest since.  (It is *)
(* never still pending: the line is in order.)                             *)
Wanted == line[Owed].muted /\ ~ line[Owed].reinvited

(* Nothing to do, not yet, or on to the organizer's event. *)
ReinviteLooks ==
    /\ job.pc = "reinvite"
    /\ \/ /\ ~ Wanted \/ MailStatus = "done" \/ (MailStatus # "queued" /\ Filled = {})
          /\ EndRow("done")
       \/ /\ Wanted /\ MailStatus = "queued"
          /\ FailRow(Mine)
       \/ /\ Wanted /\ MailStatus \in {"ended", "gone"} /\ Filled # {}
          /\ job' = [job EXCEPT !.pc = IF line[Owed].removed THEN "putback" ELSE "takeoff",
                                !.left = {Inviting(Filled)}, !.inviting = Inviting(Filled),
                                !.invite = TRUE]
          /\ UNCHANGED line
    /\ UNCHANGED <<booking, change, mail, ref, event, told, torn, faults>>

(* The guest is taken off quietly, and that is recorded. *)
TakeOff ==
    /\ job.pc = "takeoff"
    /\ \/ /\ event' = [event EXCEPT ![d1].guest = FALSE, ![d1].time = job.time]
          /\ job' = [job EXCEPT !.pc = "takenoff"]
          /\ UNCHANGED line
       \/ FailRow(Mine) /\ UNCHANGED event
    /\ UNCHANGED <<booking, change, mail, ref, told, torn, faults>>

TakenOff ==
    /\ job.pc = "takenoff"
    /\ line' = [line EXCEPT ![Owed].removed = TRUE]
    /\ job' = [job EXCEPT !.pc = "putback"]
    /\ UNCHANGED <<booking, change, mail, ref, event, told, torn, faults>>

(* Then put back with the provider inviting, and that is recorded. *)
PutBack ==
    /\ job.pc = "putback"
    /\ \/ /\ event' = [event EXCEPT ![d1].guest = TRUE, ![d1].time = job.time]
          /\ Notify(event[d1].n > 0 /\ (event[d1].time # job.time \/ ~ event[d1].guest))
          /\ job' = [job EXCEPT !.pc = "reinvited"]
          /\ UNCHANGED line
       \/ FailRow(Mine) /\ UNCHANGED <<event, told>>
    /\ UNCHANGED <<booking, change, mail, ref, torn, faults>>

Reinvited ==
    /\ job.pc = "reinvited"
    /\ line' = [line EXCEPT ![Owed].reinvited = TRUE, ![h].status = "done"]
    /\ job' = NoJob
    /\ UNCHANGED <<booking, change, mail, ref, event, told, torn, faults>>

(* The worker dies: the row is delivered again from the start. *)
JobDies ==
    /\ job.pc # "idle"
    /\ Fault("crash")
    /\ torn' = IF torn = "nothing" /\ job.pc \in {"create", "fill"} THEN "claim" ELSE torn
    /\ job' = NoJob
    /\ UNCHANGED <<booking, change, mail, line, ref, event, told>>

-----------------------------------------------------------------------------
JobStep ==
    \/ Begin \/ Decide \/ DecideRemoval \/ Mark \/ Claim \/ CreateEvent \/ Fill
    \/ UpdateEvent \/ DeleteEvent \/ EndJob
    \/ ReinviteLooks \/ TakeOff \/ TakenOff \/ PutBack \/ Reinvited

RequestStep(c) == QueueMail(c) \/ Tag(c)
MailStep(c) == SendMail(c) \/ MailAnswer(c) \/ AfterGaveUp(c) \/ MailEnds(c)

Next ==
    \/ Accept \/ Move \/ Cancel
    \/ \E c \in DOMAIN change : RequestStep(c) \/ MailStep(c)
    \/ JobStep \/ JobDies

Spec == Init /\ [][Next]_vars

-----------------------------------------------------------------------------
(* Properties. *)

TypeOK ==
    /\ booking \in [status : {"accepted", Cancelled}, time : Changes]
    /\ change \in Seq([action : {"create", "reschedule", "delete"},
                       todo : {"mail", "tag", "nothing"}])
    /\ mail \in [Changes -> Mail]
    /\ line \in Seq(Row)
    /\ job \in Job
    /\ ref \in [Destinations -> {"free", "claimed", "filled"}]
    /\ event \in [Destinations -> [n : Nat, time : Changes, guest : BOOLEAN]]
    /\ told \subseteq [by : {"mail", "provider"}, on : 0 .. MaxChanges, says : Content]
    /\ torn \in {"nothing", "claim", "event"} /\ faults \in 0 .. MaxFaults

(* Nothing is left to do. *)
AtRest ==
    /\ line # <<>> /\ ~ AnyPending
    /\ \A c \in DOMAIN change : change[c].todo = "nothing"
    /\ \A c \in Changes : mail[c].status # "queued" /\ mail[c].pc = "idle"

AllDone == \A i \in DOMAIN line : line[i].status = "done"

(* The guest hears of one change from the mail or from the provider, never *)
(* from both, whatever is retried and whichever of the two ends first.  (A *)
(* mail dropped in flight, and a removal whose looks are spent on a mail   *)
(* in flight, are the exceptions.)                                         *)
ToldOnce ==
    \A a, b \in told :
        a.by = "mail" /\ b.by = "provider" /\ a.on = b.on /\ mail[a.on].status # "gone" =>
            \E i \in MarkedBy(a.on) : line[i].action = "delete" /\ line[i].looks = MaxLooks

(* Once every row is done, somebody told the guest that the booking is on, *)
(* and of each move written quietly that counted on the mail: the mail, or *)
(* the provider in its place, whatever failed and was retried between.     *)
(* (Not when the mail gave up before it had marked the row.)               *)
GuestInvited ==
    AtRest /\ booking.status = "accepted" /\ AllDone /\ torn = "nothing" =>
        \A i \in DOMAIN line :
            /\ line[i].action = "create" \/ (line[i].action = "reschedule" /\ line[i].muted)
            /\ ~ line[i].late
            => \E t \in told : t.on \in {0, line[i].mail}

(* Once every row is done, each destination holds the booking once, at the *)
(* booking's time and with the guest on it, however its changes, their     *)
(* rows and the attempts of those overlapped; and never twice.             *)
OnTheCalendar ==
    /\ \A d \in Destinations : torn # "event" => event[d].n <= 1
    /\ AtRest /\ booking.status = "accepted" /\ AllDone /\ torn = "nothing" =>
           \A d \in Destinations :
               event[d] = [n |-> 1, time |-> booking.time, guest |-> TRUE]

(* A cancelled booking leaves no event behind, even when it was cancelled  *)
(* while its event was being written, unless the removal itself failed.    *)
OffTheCalendar ==
    AtRest /\ booking.status = Cancelled /\ torn = "nothing"
    /\ (\A i \in DOMAIN line : line[i].action = "delete" => line[i].status # "failed")
        => \A d \in Destinations : event[d].n = 0

=============================================================================
