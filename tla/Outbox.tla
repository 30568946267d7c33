-------------------------------- MODULE Outbox --------------------------------
(***************************************************************************)
(* The outbox of packages/db and the worker of apps/api that drains one of *)
(* its lanes.  Every side effect is a row.  The processes that run the     *)
(* worker claim rows with a lease in three statements (the subscribers in  *)
(* flight, the head of each line, one conditional UPDATE), deliver them,   *)
(* and record the outcome while the lease is theirs.                       *)
(*                                                                         *)
(* Times are the ticks left: until a row is due, until its lease runs out. *)
(* A claim's three statements use one clock reading, and a tick is longer  *)
(* than a claim: no tick falls inside one.                                 *)
(***************************************************************************)
EXTENDS Integers, FiniteSets

CONSTANTS
    Rows,         \* outbox rows of the lane, numbered in the order they are queued
    Line,         \* each row's order key; a row without one has a line of its own
    Subscriber,   \* the webhook each row is for, or None
    After,        \* ticks from queueing a row to its first being due
    Mail,         \* invitee mail whose loss needs a follow-up
    Droppable,    \* rows a change of the booking deletes while they are pending
    Recallable,   \* cancellation mail the calendar may send in its place
    Processes,    \* API processes
    Slots,        \* delivery slots; a slot's name is the lease token of what it delivers
    ProcessOf,    \* the process of each slot
    LeaseTime,    \* OUTBOX_LEASE_MS
    MaxBackoff,   \* MAX_BACKOFF_MS
    KeepDelay,    \* COMPENSATION_RETRY_MS
    MaxAttempts,  \* max_attempts
    Horizon,      \* OUTBOX_RETRY_HORIZON_MS
    Floors,       \* waits a failure may name (retryAfterMs), 0 for none
    MaxFaults,    \* bound on crashes, failed writes and leases outlived
    None          \* no value

Ended == {"done", "failed", "skipped"}

ASSUME RowsAssumption ==
    /\ Rows \subseteq Nat /\ IsFiniteSet(Rows)
    /\ DOMAIN Line = Rows /\ DOMAIN Subscriber = Rows
    /\ After \in [Rows -> Nat]
    /\ Mail \subseteq Rows /\ Droppable \subseteq Rows /\ Recallable \subseteq Rows
    /\ Mail \cap Recallable = {}
    /\ \A r \in Droppable \cup Recallable : Subscriber[r] = None

ASSUME SlotsAssumption ==
    /\ ProcessOf \in [Slots -> Processes] /\ IsFiniteSet(Slots)
    /\ None \notin Slots /\ None \notin Rows /\ None \notin Nat

ASSUME TimesAssumption ==
    /\ LeaseTime \in Nat \ {0} /\ MaxAttempts \in Nat \ {0} /\ MaxBackoff \in Nat \ {0}
    /\ KeepDelay \in 1 .. MaxBackoff
    /\ Horizon \in Nat /\ MaxFaults \in Nat /\ Floors \subseteq Nat

VARIABLES
    row,          \* table outbox
    claim,        \* the claim each process is making
    slot,         \* what each slot delivers
    faults,       \* faults so far
    begun,        \* rows whose delivery was ever begun
    lapsed,       \* rows with a delivery that outlived its lease
    kept,         \* rows kept queued untried (attempts not counted) for their follow-up
    followed      \* rows whose follow-up is queued

vars == <<row, claim, slot, faults, begun, lapsed, kept, followed>>

-----------------------------------------------------------------------------
Age == (0 .. Horizon) \cup {None}

Row == [status : {"unqueued", "pending", "gone"} \cup Ended, attempts : Nat, due : Nat,
        age : Age, token : Slots \cup {None}, left : 0 .. LeaseTime]

NewRow == [status |-> "unqueued", attempts |-> 0, due |-> 0, age |-> None, token |-> None,
           left |-> 0]

Claim == [pc : {"idle", "heads", "lease"}, free : Nat, busy : SUBSET {Subscriber[r] : r \in Rows},
          heads : SUBSET Rows]

NoClaim == [pc |-> "idle", free |-> 0, busy |-> {}, heads |-> {}]

Outcomes == {"none", "done", "retry", "kept", "failed", "skipped"}

Slot == [row : Rows \cup {None}, pc : {"idle", "run", "follow", "record"}, out : Outcomes,
         wait : Nat, attempts : Nat, age : Age]

NoSlot == [row |-> None, pc |-> "idle", out |-> "none", wait |-> 0, attempts |-> 0, age |-> None]

FreeSlots(p) == {s \in Slots : ProcessOf[s] = p /\ slot[s].pc = "idle"}

Lesser(a, b) == IF a < b THEN a ELSE b
Greater(a, b) == IF a < b THEN b ELSE a

Backoff(attempts) == Lesser(MaxBackoff, 2 ^ (attempts - 1))

(* A failure that names its own wait is not tried again sooner. *)
RetryDelay(attempts, floor) == Greater(Backoff(attempts), Lesser(floor, MaxBackoff))

(* outboxRetriesExhausted *)
Exhausted(attempts, age) ==
    attempts >= MaxAttempts /\ (IF age = None THEN 0 ELSE age) >= Horizon

-----------------------------------------------------------------------------
(* What a claim may take. *)

(* Mutant of Active: a row backing off does not hold its line. *)
ActiveWhenDue(r) == row[r].status = "pending" /\ row[r].due = 0

(* Tried at least once, or due.  A row backing off is due within MaxBackoff. *)
Active(r) ==
    /\ row[r].status = "pending"
    /\ row[r].due <= MaxBackoff
    /\ row[r].attempts > 0 \/ row[r].due = 0

Head(r) == Active(r) /\ \A q \in Rows : q < r /\ Line[q] = Line[r] => ~ Active(q)

(* Mutant of Takeable: the lease is not looked at. *)
TakeableLeased(r) == row[r].status = "pending" /\ row[r].due = 0

(* Mutant of Takeable: only a lease given back is over. *)
TakeableGivenBack(r) == row[r].status = "pending" /\ row[r].due = 0 /\ row[r].token = None

Takeable(r) == row[r].status = "pending" /\ row[r].due = 0 /\ row[r].left = 0

(* Mutant of InFlight: no subscriber is ever busy. *)
NoneInFlight == {Subscriber[r] : r \in {}}

InFlight ==
    {Subscriber[r] : r \in {q \in Rows : /\ row[q].status = "pending"
                                         /\ row[q].left > 0}} \ {None}

Ready(busy) == {r \in Rows : Head(r) /\ Takeable(r) /\ Subscriber[r] \notin busy}

OnePerSubscriberIn(H) ==
    \A q, r \in H : q # r => Subscriber[q] = None \/ Subscriber[q] # Subscriber[r]

(* Up to n ready rows, one per subscriber, and no fewer than there are. *)
Picks(busy, n) ==
    {H \in SUBSET Ready(busy) :
        /\ OnePerSubscriberIn(H) /\ Cardinality(H) <= n
        /\ Cardinality(H) < n =>
             \A r \in Ready(busy) \ H : ~ OnePerSubscriberIn(H \cup {r})}

-----------------------------------------------------------------------------
Init ==
    /\ row = [r \in Rows |-> NewRow]
    /\ claim = [p \in Processes |-> NoClaim]
    /\ slot = [s \in Slots |-> NoSlot]
    /\ faults = 0
    /\ begun = {} /\ lapsed = {} /\ kept = {} /\ followed = {}

Fault == faults < MaxFaults /\ faults' = faults + 1

(* Rows are queued in the order of their ids. *)
Enqueue(r) ==
    /\ row[r].status = "unqueued"
    /\ \A q \in Rows : q < r => row[q].status # "unqueued"
    /\ row' = [row EXCEPT ![r] = [NewRow EXCEPT !.status = "pending", !.due = After[r]]]
    /\ UNCHANGED <<claim, slot, faults, begun, lapsed, kept, followed>>

(* A process with a free slot, and no claim under way, polls or is woken, and *)
(* reads the subscribers in flight.  A poll that finds nothing ready is left  *)
(* out: it takes nothing, and the next one is the one that counts.           *)
StartClaim(p) ==
    /\ claim[p].pc = "idle"
    /\ FreeSlots(p) # {}
    /\ Ready(InFlight) # {}
    /\ claim' = [claim EXCEPT ![p] = [pc |-> "heads", free |-> Cardinality(FreeSlots(p)),
                                      busy |-> InFlight, heads |-> {}]]
    /\ UNCHANGED <<row, slot, faults, begun, lapsed, kept, followed>>

ReadHeads(p) ==
    /\ claim[p].pc = "heads"
    /\ \E H \in Picks(claim[p].busy, claim[p].free) :
         claim' = [claim EXCEPT ![p] = IF H = {} THEN NoClaim
                                       ELSE [@ EXCEPT !.pc = "lease", !.heads = H]]
    /\ UNCHANGED <<row, slot, faults, begun, lapsed, kept, followed>>

Injective(f) == \A q, r \in DOMAIN f : f[q] = f[r] => q = r

(* The one conditional UPDATE, and the start of what it returned.  The slots *)
(* of a process are alike: any assignment stands for the others.            *)
Lease(p) ==
    LET won == {r \in claim[p].heads : Takeable(r)}
        f   == CHOOSE g \in [won -> FreeSlots(p)] : Injective(g)
    IN
    /\ claim[p].pc = "lease"
    /\ row' = [r \in Rows |-> IF r \in won
                              THEN [row[r] EXCEPT !.token = f[r], !.left = LeaseTime]
                              ELSE row[r]]
    /\ slot' = [s \in Slots |->
                  IF \E r \in won : f[r] = s
                  THEN LET r == CHOOSE r \in won : f[r] = s
                       IN  [NoSlot EXCEPT !.row = r, !.pc = "run",
                                          !.attempts = row[r].attempts, !.age = row[r].age]
                  ELSE slot[s]]
    /\ begun' = begun \cup won
    /\ claim' = [claim EXCEPT ![p] = NoClaim]
    /\ UNCHANGED <<faults, lapsed, kept, followed>>

(* Mutant of Renewed: the lease is lengthened, not set anew. *)
RenewedLater(s) == [row EXCEPT ![slot[s].row].left = @ + LeaseTime]

(* A delivery under way keeps its lease. *)
Renewed(s) == [row EXCEPT ![slot[s].row].left = LeaseTime]

Renew(s) ==
    LET r == slot[s].row IN
    /\ slot[s].pc = "run"
    /\ row[r].status = "pending" /\ row[r].token = s
    /\ row[r].left < LeaseTime
    /\ row' = Renewed(s)
    /\ UNCHANGED <<claim, slot, faults, begun, lapsed, kept, followed>>

(* Mutant of Point: no row has a follow-up. *)
PointNoFollowUp(r, out) == "record"

(* A mail that ends unsent has its follow-up queued before its end is recorded. *)
Point(r, out) == IF out \in {"failed", "skipped"} /\ r \in Mail THEN "follow" ELSE "record"

Ends(s, out, wait) ==
    slot' = [slot EXCEPT ![s].pc = Point(slot[s].row, out), ![s].out = out, ![s].wait = wait]

(* The attempt failed: try again later, or give up. *)
Failed(s) ==
    IF Exhausted(slot[s].attempts + 1, slot[s].age)
    THEN Ends(s, "failed", 0)
    ELSE \E floor \in Floors : Ends(s, "retry", RetryDelay(slot[s].attempts + 1, floor))

(* execute returns, throws, or decides the row is not to be performed *)
(* (OutboxSkipError, which no webhook throws).                        *)
Deliver(s) ==
    /\ slot[s].pc = "run"
    /\ \/ Ends(s, "done", 0)
       \/ Failed(s)
       \/ Subscriber[slot[s].row] = None /\ Ends(s, "skipped", 0)
    /\ UNCHANGED <<row, claim, faults, begun, lapsed, kept, followed>>

(* compensate: when the follow-up cannot be queued the row does not end, *)
(* and its attempt is not counted.                                      *)
FollowUp(s) ==
    /\ slot[s].pc = "follow"
    /\ \/ /\ followed' = followed \cup {slot[s].row}
          /\ slot' = [slot EXCEPT ![s].pc = "record"]
          /\ UNCHANGED <<faults, kept>>
       \/ /\ Fault
          /\ slot' = [slot EXCEPT ![s].pc = "record", ![s].out = "kept", ![s].wait = KeepDelay]
          /\ kept' = kept \cup {slot[s].row}
          /\ UNCHANGED followed
    /\ UNCHANGED <<row, claim, begun, lapsed>>

(* markOutboxDone, markOutboxFailed, markOutboxSkipped, markOutboxRetry.     *)
(* (Nothing reads the attempts and the first failure of a row that ended.)  *)
Marked(x, q) ==
    IF q.out \in Ended
    THEN [NewRow EXCEPT !.status = q.out]
    ELSE [status |-> x.status, due |-> Lesser(q.wait, MaxBackoff), token |-> None, left |-> 0,
          attempts |-> IF q.out = "retry" THEN q.attempts + 1 ELSE q.attempts,
          age |-> IF x.age = None THEN 0 ELSE x.age]

(* Mutant of HeldBy: whoever delivered records the outcome. *)
HeldByAnyone(r, s) == row[r].status # "gone"

(* The lease check of every outcome write.  It reads the token only. *)
HeldBy(r, s) == row[r].token = s

Record(s) ==
    LET r == slot[s].row IN
    /\ slot[s].pc = "record"
    /\ row' = IF HeldBy(r, s) THEN [row EXCEPT ![r] = Marked(row[r], slot[s])] ELSE row
    /\ slot' = [slot EXCEPT ![s] = NoSlot]
    /\ UNCHANGED <<claim, faults, begun, lapsed, kept, followed>>

(* The outcome cannot be written.  A delivery that could not be marked done *)
(* counts as a failed attempt; any other keeps its lease until it runs out. *)
RecordFails(s) ==
    /\ slot[s].pc = "record"
    /\ Fault
    /\ IF slot[s].out = "done" THEN Failed(s) ELSE slot' = [slot EXCEPT ![s] = NoSlot]
    /\ UNCHANGED <<row, claim, begun, lapsed, kept, followed>>

(* deletePendingOutbox: whatever is pending, in flight or not. *)
Drop(r) ==
    /\ r \in Droppable
    /\ row[r].status = "pending"
    /\ row' = [row EXCEPT ![r] = [NewRow EXCEPT !.status = "gone"]]
    /\ UNCHANGED <<claim, slot, faults, begun, lapsed, kept, followed>>

NotInFlight(r) == row[r].left = 0

(* skipQueuedOutboxRow: the row is skipped unless its lease is live.  Its *)
(* token stays.                                                         *)
TakeBack(r) ==
    /\ r \in Recallable
    /\ row[r].status = "pending"
    /\ NotInFlight(r)
    /\ row' = [row EXCEPT ![r].status = "skipped"]
    /\ UNCHANGED <<claim, slot, faults, begun, lapsed, kept, followed>>

(* A process dies, and another takes its place. *)
Crash(p) ==
    /\ Fault
    /\ claim' = [claim EXCEPT ![p] = NoClaim]
    /\ slot' = [s \in Slots |-> IF ProcessOf[s] = p THEN NoSlot ELSE slot[s]]
    /\ UNCHANGED <<row, begun, lapsed, kept, followed>>

Older(age) == IF age = None THEN None ELSE Lesser(age + 1, Horizon)

(* Deliveries whose lease the next tick ends. *)
Outliving ==
    {r \in Rows : \E s \in Slots : slot[s].row = r /\ row[r].token = s /\ row[r].left = 1}

(* Renewing is timely: a delivery outlives its lease only by a fault. *)
Tick ==
    /\ \A p \in Processes : claim[p].pc = "idle"
    /\ row' = [r \in Rows |-> [row[r] EXCEPT !.due = Greater(@ - 1, 0),
                                             !.left = Greater(@ - 1, 0),
                                             !.age = Older(@)]]
    /\ slot' = [s \in Slots |-> [slot[s] EXCEPT !.age = Older(@)]]
    /\ IF Outliving = {} THEN UNCHANGED faults ELSE Fault
    /\ lapsed' = lapsed \cup Outliving
    /\ UNCHANGED <<claim, begun, kept, followed>>

Work(s) == Renew(s) \/ Deliver(s) \/ FollowUp(s) \/ Record(s)

Next ==
    \/ \E r \in Rows : Enqueue(r) \/ Drop(r) \/ TakeBack(r)
    \/ \E p \in Processes : StartClaim(p) \/ ReadHeads(p) \/ Lease(p) \/ Crash(p)
    \/ \E s \in Slots : Work(s) \/ RecordFails(s)
    \/ Tick

Spec == Init /\ [][Next]_vars

(* The poll timer, the deliveries and their timeouts, and time go on.  *)
FairSpec ==
    /\ Spec
    /\ \A p \in Processes :
        WF_vars(StartClaim(p)) /\ WF_vars(ReadHeads(p)) /\ WF_vars(Lease(p))
    /\ \A s \in Slots :
        WF_vars(Renew(s)) /\ WF_vars(Deliver(s)) /\ WF_vars(FollowUp(s)) /\ WF_vars(Record(s))
    /\ WF_vars(Tick)

-----------------------------------------------------------------------------
(* Properties. *)

(* Rows, claims, slots and the sets kept about them have their types. *)
TypeOK ==
    /\ row \in [Rows -> Row]
    /\ claim \in [Processes -> Claim]
    /\ slot \in [Slots -> Slot]
    /\ faults \in 0 .. MaxFaults
    /\ begun \in SUBSET Rows /\ lapsed \in SUBSET Rows
    /\ kept \in SUBSET Rows /\ followed \in SUBSET Rows

(* Rows of one line go in the order queued: nothing begins while an older  *)
(* row of its line, due from the start, has not ended, however often that  *)
(* row is retried and whatever heads the other processes read.  (A row     *)
(* kept queued for its follow-up is the exception HeldLine is about.)      *)
InOrder ==
    \A q, r \in Rows :
        q < r /\ Line[q] = Line[r] /\ After[q] = 0 /\ q \notin kept /\ r \in begun
            => row[q].status \in Ended \cup {"gone"}

(* No row is delivered twice at once, by two processes or by one, as long  *)
(* as no delivery of it outlived its lease.                                *)
OneDelivery ==
    \A s, t \in Slots :
        s # t /\ slot[s].pc # "idle" /\ slot[s].row = slot[t].row => slot[s].row \in lapsed

(* A subscriber, however slow, holds one slot per process.                 *)
OnePerSubscriber ==
    \A s, t \in Slots :
        /\ s # t /\ ProcessOf[s] = ProcessOf[t] /\ slot[s].pc # "idle" /\ slot[t].pc # "idle"
        /\ Subscriber[slot[s].row] # None
        /\ Subscriber[slot[s].row] = Subscriber[slot[t].row]
        => lapsed \cap {slot[s].row, slot[t].row} # {}

(* What ended stays as it ended: a slow worker, whose row another claimed  *)
(* and finished, records nothing over it.  (A row taken back under a lease *)
(* that ran out keeps its token, and is the one exception.)                *)
EndedStays ==
    [][\A r \in Rows :
        row[r].status \in Ended /\ r \notin Recallable \cap lapsed
            => row'[r].status = row[r].status]_vars

(* An invitee mail never ends unsent without its follow-up queued.         *)
FollowUpQueued ==
    \A r \in Mail : row[r].status \in {"failed", "skipped"} => r \in followed

(* No silent loss: every queued row is delivered, given up on or taken     *)
(* back, whatever crashes, once the faults stop.                           *)
EveryRowEnds == \A r \in Rows : row[r].status = "pending" ~> row[r].status # "pending"

-----------------------------------------------------------------------------
(* A statement the code does not keep; see the README. *)

(* While a row backs off after a failure, the rows queued after it wait.   *)
HeldLine ==
    \A q, r \in Rows :
        q < r /\ Line[q] = Line[r] /\ After[q] = 0 /\ r \in begun
            => row[q].status \in Ended \cup {"gone"}

=============================================================================
