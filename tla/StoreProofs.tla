----------------------------- MODULE StoreProofs -----------------------------
(***************************************************************************)
(* More about Bookings: holds, keys, links, how a booking ends, the times    *)
(* kept for holds, the seats of a group, and the diary of HostCalendar that *)
(* the store implements.                                                   *)
(***************************************************************************)
EXTENDS BookingsProofs, FiniteSetTheorems

KeyOps == {"book", "team", "hostEvent", "move"}

(* The bookings of a personal event type are its own host's. *)
SeedsHosted ==
    \A row \in SeedRows :
        row.event # None /\ row.event.kind = "personal" => row.hosts = row.event.hosts

-----------------------------------------------------------------------------
(* Holds: none yet for a request that has not written its own; what one    *)
(* about to be written found free, and the room it found, are there still. *)

Unheld ==
    \A r \in Requests : req[r].pc \in {"idle", "lock", "check", "write"} => hold[r] = NoHold

HoldAsked(q) ==
    /\ q.at <= now
    /\ q.op = "hold" /\ q.pc \in {"lock", "check", "write"} => q.hosts = {q.org} /\ q.org \in Members

HoldsAsked == \A r \in Requests : HoldAsked(req[r])

AboutToHold(r) == req[r].pc = "write" /\ req[r].op = "hold"

HoldsFree ==
    \A r \in Requests :
        AboutToHold(r) => ~ MemberHeld(req[r].org, req[r].start, req[r].at, None)

HoldInv == GuardedInv /\ Unheld /\ HoldsAsked /\ HoldsFree /\ HoldsExclusive

(* The holds of member m in table hd that had not expired at time t. *)
HoldsOf(hd, m, t) == {h \in Requests : hd[h].member = m /\ hd[h].release > t}

RoomLeft ==
    \A r \in Requests :
        AboutToHold(r) => Cardinality(HoldsOf(hold, req[r].org, req[r].at)) < HoldCap

CapInv == HoldInv /\ RoomLeft /\ HoldsWithinCap

-----------------------------------------------------------------------------
(* Keys: who was told their key wrote has the row that bears it. *)

KeysApart ==
    \A a, b \in Ids : a # b /\ booking[a].key # None => booking[a].key # booking[b].key

KeysBorne ==
    \A r \in Requests :
        req[r].ans = "ok" /\ req[r].op \in KeyOps => booking[r].key = req[r].key

KeyInv == GuardedInv /\ KeysApart /\ KeysBorne

-----------------------------------------------------------------------------
(* Links: an answer through a link is followed by its burning. *)

LinksBurned ==
    \A r \in Requests :
        req[r].ans = "ok" /\ req[r].link # None
            => req[r].pc \in {"unhold", "burn"} \/ link[req[r].link] # "live"

UpdatesUnlinked == \A r \in Requests : req[r].pc = "update" => req[r].link = None

LinkInv == GuardedInv /\ LinksBurned /\ UpdatesUnlinked

-----------------------------------------------------------------------------
(* Endings. *)

Ended(b) == booking[b].status \in {"cancelled", "rejected"}

(* What a request past its arrival asks for, of the rows bk. *)
Wants(bk, q) ==
    /\ q.op \in PlaceOps =>
          /\ q.hosts # {} /\ q.start \in Starts
          /\ q.event # None /\ q.event.kind = "personal" => q.hosts = q.event.hosts
    /\ q.op \in MoveOps => q.start \in Starts
    /\ q.op = "move" => q.seen \in {"accepted", "pending"}
    /\ q.op = "seat" => /\ q.target \in Ids /\ bk[q.target].status # "absent"
                        /\ bk[q.target].hosts = q.hosts /\ bk[q.target].event = q.event

Wanted ==
    \A r \in Requests :
        /\ req[r].pc \in {"lock", "check", "write"} => Wants(booking, req[r])
        /\ req[r].pc = "update" => req[r].target \in Ids /\ req[r].op \in {"cancel", "decline"}

(* Who is on a booking that is there. *)
Hosted ==
    \A b \in Ids :
        booking[b].status # "absent" =>
            /\ booking[b].hosts # {}
            /\ booking[b].event # None /\ booking[b].event.kind = "personal"
                  => booking[b].hosts = booking[b].event.hosts

(* A seat and a move write a booking that still stands. *)
TargetsLive ==
    \A r \in Requests :
        req[r].pc = "write" /\ req[r].op \in {"seat", "move"} => Live(req[r].target)

LiveUnmoved == \A b \in Ids : Live(b) => booking[b].to = None

EndKnown(r) ==
    LET b == req[r].target IN
    req[r].ans = "ok" /\ req[r].op \in {"cancel", "decline", "move"} =>
        /\ b \in Ids
        /\ booking[b].status = IF req[r].op = "decline" THEN "rejected" ELSE "cancelled"
        /\ booking[b].to = IF req[r].op = "move" THEN r ELSE None

EndsKnown == \A r \in Requests : EndKnown(r)

EndInv == GuardedInv /\ Wanted /\ Hosted /\ TargetsLive /\ LiveUnmoved /\ EndsKnown

-----------------------------------------------------------------------------
(* What the steps of a request do to it, field by field. *)

(* A seat joins the group booking of a personal event. *)
SeatEntry(n) ==
    \E e \in Events : /\ e.kind = "personal" /\ n.hosts = e.hosts /\ n.event = e
                      /\ n.target \in Ids /\ Live(n.target) /\ booking[n.target].event = e

(* A request as it enters the store. *)
Entry(n) ==
    /\ n.pc \in {"lock", "update", "done"}
    /\ n.ans = "ok" => n.op \in {"release", "guest"} /\ n.link = None
    /\ n.pc = "update" => n.target \in Ids /\ n.op \in {"cancel", "decline"} /\ n.link = None
    /\ n.pc = "lock" =>
          /\ n.op = "hold" => n.hosts = {n.org} /\ n.org \in Members
          /\ n.op = "seat" => SeatEntry(n)
          /\ n.op # "seat" => Wants(booking, n)

Enters(r) ==
    /\ req[r].pc = "idle"
    /\ \E n : req' = [req EXCEPT ![r] = n] /\ Entry(n) /\ n.at \in {now, req[r].at}
    /\ lock' = lock /\ link' = link /\ now' = now
    /\ \A h \in Requests : hold'[h] \in {hold[h], NoHold}
    /\ \/ booking' = booking
       \/ \E b \in Ids : \E who : Live(b) /\ booking' = [booking EXCEPT ![b].people = @ \cup who]

(* What op asks for with rec, as Submit stamps it. *)
LEMMA SubmitEnters ==
  ASSUME NEW r \in Requests, NEW op, NEW rec, NEW n, Submit(r, op, rec),
         n = [rec EXCEPT !.op = op, !.at = now], n.at = now, Entry(n), link' = link,
         \A h \in Requests : hold'[h] \in {hold[h], NoHold}
  PROVE  Enters(r)
  BY DEF Submit, Enters

LEMMA RefuseEnters ==
  ASSUME TypeOK, NEW r \in Requests, Refuse(r)
  PROVE  Enters(r)
<1> DEFINE n == [req[r] EXCEPT !.pc = "done", !.ans = "refused"]
<1>1. req[r] \in Request
  BY DEF TypeOK
<1>2. n.pc = "done" /\ n.ans = "refused" /\ n.at = req[r].at
  BY <1>1 DEF Request
<1>3. req' = [req EXCEPT ![r] = n]
  BY DEF Refuse, Answer, TypeOK
<1> HIDE DEF n
<1>4. Entry(n)
  BY <1>2 DEF Entry
<1> QED
  BY <1>2, <1>3, <1>4 DEF Refuse, Enters

LEMMA ReplayEnters ==
  ASSUME NEW r \in Requests, NEW op, NEW k, Replay(r, op, k)
  PROVE  Enters(r)
<1> DEFINE rec == [Idle EXCEPT !.key = k, !.pc = "done", !.ans = "replay"]
           n == [rec EXCEPT !.op = op, !.at = now]
<1>1. n.pc = "done" /\ n.ans = "replay" /\ n.at = now
  BY DEF Idle
<1>2. Submit(r, op, rec) /\ link' = link /\ hold' = hold
  BY DEF Replay
<1> HIDE DEF rec
<1>3. Entry(n)
  BY <1>1 DEF Entry
<1> QED
  BY <1>1, <1>2, <1>3, SubmitEnters

LEMMA BookEnters ==
  ASSUME NEW r \in Requests, BookRequest(r)
  PROVE  Enters(r)
<1>1. PICK e \in Events, s \in Starts, h \in Requests \cup {None}, k \in Keys \cup {None},
           l \in Links \cup {None}, people \in SUBSET People, strict \in BOOLEAN, m \in Members :
        BookRequest(r)!(e, s, h, k, l, people, strict, m)
  BY DEF BookRequest
<1> DEFINE rec == [Idle EXCEPT !.event = e, !.hosts = {m}, !.org = m, !.start = s,
                               !.hold = h, !.link = l, !.key = k, !.who = people,
                               !.strict = strict, !.pc = "lock"]
<1>2. e.kind = "personal" /\ e.hosts = {m} /\ link' = link /\ hold' = hold
  BY <1>1
<1>3. CASE Submit(r, "book", rec)
  <2> DEFINE n == [rec EXCEPT !.op = "book", !.at = now]
  <2>1. /\ n.pc = "lock" /\ n.ans = "none" /\ n.at = now /\ n.op = "book"
        /\ n.hosts = {m} /\ n.start = s /\ n.event = e
    BY DEF Idle
  <2> HIDE DEF rec
  <2>2. Entry(n)
    BY <1>2, <2>1 DEF Entry, Wants, PlaceOps, MoveOps
  <2> QED
    BY <1>2, <1>3, <2>1, <2>2, SubmitEnters
<1>4. ASSUME NEW b, Submit(r, "seat", [rec EXCEPT !.pc = "done", !.ans = "replay"])
      PROVE  Enters(r)
  <2> DEFINE old == [rec EXCEPT !.pc = "done", !.ans = "replay"]
             n == [old EXCEPT !.op = "seat", !.at = now]
  <2>1. n.pc = "done" /\ n.ans = "replay" /\ n.at = now
    BY DEF Idle
  <2>2. Submit(r, "seat", old)
    BY <1>4
  <2> HIDE DEF old
  <2>3. Entry(n)
    BY <2>1 DEF Entry
  <2> QED
    BY <1>2, <2>1, <2>2, <2>3, SubmitEnters
<1>5. ASSUME NEW b \in GroupRows(e, s), Submit(r, "seat", [rec EXCEPT !.target = b])
      PROVE  Enters(r)
  <2> DEFINE new == [rec EXCEPT !.target = b]
             n == [new EXCEPT !.op = "seat", !.at = now]
  <2>1. /\ n.pc = "lock" /\ n.ans = "none" /\ n.at = now /\ n.op = "seat"
        /\ n.hosts = {m} /\ n.target = b /\ n.event = e
    BY DEF Idle
  <2>2. Submit(r, "seat", new)
    BY <1>5
  <2> HIDE DEF new
  <2>3. b \in Ids /\ Live(b) /\ booking[b].event = e
    BY DEF GroupRows
  <2>4. SeatEntry(n)
    BY <1>2, <2>1, <2>3 DEF SeatEntry
  <2>5. Entry(n)
    BY <2>1, <2>4 DEF Entry
  <2> QED
    BY <1>2, <2>1, <2>2, <2>5, SubmitEnters
<1> HIDE DEF rec
<1> QED
  BY <1>1, <1>3, <1>4, <1>5 DEF rec

LEMMA ExpiredHoldEnters ==
  ASSUME TypeOK, NEW r \in Requests, BookWithExpiredHold(r)
  PROVE  Enters(r)
<1>1. PICK h \in Requests : BookWithExpiredHold(r)!(h)
  BY DEF BookWithExpiredHold
<1> DEFINE rec == [Idle EXCEPT !.hold = h, !.pc = "done", !.ans = "refused"]
           n == [rec EXCEPT !.op = "book", !.at = now]
<1>2. n.pc = "done" /\ n.ans = "refused" /\ n.at = now
  BY DEF Idle
<1>3. Submit(r, "book", rec) /\ link' = link
  BY <1>1
<1>4. \A g \in Requests : hold'[g] \in {hold[g], NoHold}
  BY <1>1 DEF TypeOK
<1> HIDE DEF rec
<1>5. Entry(n)
  BY <1>2 DEF Entry
<1> QED
  BY <1>2, <1>3, <1>4, <1>5, SubmitEnters

LEMMA TeamEnters ==
  ASSUME NEW r \in Requests, TeamRequest(r)
  PROVE  Enters(r)
<1>1. PICK e \in Events, s \in Starts, k \in Keys \cup {None}, l \in Links \cup {None},
           people \in SUBSET People : TeamRequest(r)!(e, s, k, l, people)
  BY DEF TeamRequest
<1> DEFINE free == {m \in e.hosts : ~ Busy({m}, s, None) /\ ~ Held({m}, s, now, None)}
<1>2. e.kind # "personal" /\ link' = link /\ hold' = hold
  BY <1>1
<1> DEFINE asked(hosts, org) ==
             [Idle EXCEPT !.event = e, !.hosts = hosts, !.org = org, !.start = s,
                          !.link = l, !.key = k, !.who = people, !.strict = TRUE, !.pc = "lock"]
<1>7. PICK hosts \in Assignments(e, free) : \E org \in hosts : Submit(r, "team", asked(hosts, org))
  BY <1>1
<1>3. PICK org \in hosts : Submit(r, "team", asked(hosts, org))
  BY <1>7
<1> DEFINE rec == [Idle EXCEPT !.event = e, !.hosts = hosts, !.org = org, !.start = s,
                               !.link = l, !.key = k, !.who = people, !.strict = TRUE,
                               !.pc = "lock"]
           n == [rec EXCEPT !.op = "team", !.at = now]
<1>4. /\ n.pc = "lock" /\ n.ans = "none" /\ n.at = now /\ n.op = "team"
      /\ n.hosts = hosts /\ n.start = s /\ n.event = e
  BY DEF Idle
<1>5. hosts # {}
  BY <1>3
<1> HIDE DEF rec
<1>6. Entry(n)
  BY <1>2, <1>4, <1>5 DEF Entry, Wants, PlaceOps, MoveOps
<1> QED
  BY <1>2, <1>3, <1>4, <1>6, SubmitEnters DEF rec

LEMMA HostEventEnters ==
  ASSUME NEW r \in Requests, HostEventRequest(r)
  PROVE  Enters(r)
<1>1. PICK m \in Members, s \in Starts, k \in Keys \cup {None}, strict \in BOOLEAN,
           people \in SUBSET People : HostEventRequest(r)!(m, s, k, strict, people)
  BY DEF HostEventRequest
<1> DEFINE rec == [Idle EXCEPT !.hosts = {m}, !.org = m, !.start = s, !.key = k,
                               !.who = people, !.strict = strict, !.pc = "lock"]
           n == [rec EXCEPT !.op = "hostEvent", !.at = now]
<1>2. /\ n.pc = "lock" /\ n.ans = "none" /\ n.at = now /\ n.op = "hostEvent"
      /\ n.hosts = {m} /\ n.start = s /\ n.event = None
  BY DEF Idle
<1>3. Submit(r, "hostEvent", rec) /\ link' = link /\ hold' = hold
  BY <1>1
<1> HIDE DEF rec
<1>4. Entry(n)
  BY <1>2 DEF Entry, Wants, PlaceOps, MoveOps
<1> QED
  BY <1>2, <1>3, <1>4, SubmitEnters

LEMMA HoldEnters ==
  ASSUME TypeOK, NEW r \in Requests, HoldRequest(r)
  PROVE  Enters(r)
<1>1. PICK e \in Events, m \in Members, s \in Starts : HoldRequest(r)!(e, m, s)
  BY DEF HoldRequest
<1> DEFINE rec == [Idle EXCEPT !.event = e, !.hosts = {m}, !.org = m, !.start = s]
           open == [rec EXCEPT !.pc = "lock"]
           shut == [rec EXCEPT !.pc = "done", !.ans = "refused"]
           asks == [open EXCEPT !.op = "hold", !.at = now]
           fails == [shut EXCEPT !.op = "hold", !.at = now]
<1>2. /\ asks.pc = "lock" /\ asks.ans = "none" /\ asks.at = now /\ asks.op = "hold"
      /\ asks.hosts = {m} /\ asks.org = m
      /\ fails.pc = "done" /\ fails.ans = "refused" /\ fails.at = now
  BY DEF Idle
<1>3. Submit(r, "hold", open) \/ Submit(r, "hold", shut)
  BY <1>1
<1>4. link' = link
  BY <1>1
<1>5. \A h \in Requests : hold'[h] \in {hold[h], NoHold}
  BY <1>1 DEF Sweep
<1> HIDE DEF open, shut
<1>6. Entry(asks) /\ Entry(fails)
  BY <1>2 DEF Entry, Wants, PlaceOps, MoveOps
<1> QED
  BY <1>2, <1>3, <1>4, <1>5, <1>6, SubmitEnters

LEMMA ReleaseEnters ==
  ASSUME TypeOK, NEW r \in Requests, ReleaseRequest(r)
  PROVE  Enters(r)
<1>1. PICK h \in Requests : ReleaseRequest(r)!(h)
  BY DEF ReleaseRequest
<1> DEFINE rec == [Idle EXCEPT !.hold = h, !.pc = "done", !.ans = "ok"]
           n == [rec EXCEPT !.op = "release", !.at = now]
<1>2. n.pc = "done" /\ n.ans = "ok" /\ n.at = now /\ n.op = "release" /\ n.link = None
  BY DEF Idle
<1>3. Submit(r, "release", rec) /\ link' = link
  BY <1>1
<1>4. \A g \in Requests : hold'[g] \in {hold[g], NoHold}
  BY <1>1 DEF TypeOK
<1> HIDE DEF rec
<1>5. Entry(n)
  BY <1>2 DEF Entry
<1> QED
  BY <1>2, <1>3, <1>4, <1>5, SubmitEnters

LEMMA RescheduleEnters ==
  ASSUME NEW r \in Requests, RescheduleRequest(r)
  PROVE  Enters(r)
<1>1. PICK b \in Ids, s \in Starts, k \in Keys \cup {None} : RescheduleRequest(r)!(b, s, k)
  BY DEF RescheduleRequest
<1> DEFINE old == [About(b) EXCEPT !.key = k, !.pc = "done", !.ans = "replay"]
           new == [About(b) EXCEPT !.start = s, !.key = k, !.pc = "lock"]
           oldN == [old EXCEPT !.op = "reschedule", !.at = now]
           newN == [new EXCEPT !.op = "reschedule", !.at = now]
<1>2. /\ oldN.pc = "done" /\ oldN.ans = "replay" /\ oldN.at = now
      /\ newN.pc = "lock" /\ newN.ans = "none" /\ newN.at = now
      /\ newN.op = "reschedule" /\ newN.start = s
  BY DEF About, Idle
<1>3. Submit(r, "reschedule", old) \/ Submit(r, "reschedule", new)
  BY <1>1
<1>4. link' = link /\ hold' = hold
  BY <1>1
<1> HIDE DEF old, new
<1>5. Entry(oldN) /\ Entry(newN)
  BY <1>2 DEF Entry, Wants, PlaceOps, MoveOps
<1> QED
  BY <1>2, <1>3, <1>4, <1>5, SubmitEnters

LEMMA MoveEnters ==
  ASSUME NEW r \in Requests, MoveRequest(r)
  PROVE  Enters(r)
<1>1. PICK b \in Ids, s \in Starts, k \in Keys \cup {None}, strict \in BOOLEAN :
        MoveRequest(r)!(b, s, k, strict)
  BY DEF MoveRequest
<1> DEFINE rec == [About(b) EXCEPT !.start = s, !.key = k, !.strict = strict, !.pc = "lock"]
           n == [rec EXCEPT !.op = "move", !.at = now]
<1>2. /\ n.pc = "lock" /\ n.ans = "none" /\ n.at = now
      /\ n.op = "move" /\ n.start = s /\ n.seen = booking[b].status
  BY DEF About, Idle
<1>3. Submit(r, "move", rec) /\ link' = link /\ hold' = hold /\ Live(b)
  BY <1>1
<1> HIDE DEF rec
<1>4. Entry(n)
  BY <1>2, <1>3 DEF Entry, Wants, PlaceOps, MoveOps, Live
<1> QED
  BY <1>2, <1>3, <1>4, SubmitEnters

LEMMA ConfirmEnters ==
  ASSUME NEW r \in Requests, ConfirmRequest(r)
  PROVE  Enters(r)
<1>1. PICK b \in Ids : ConfirmRequest(r)!(b)
  BY DEF ConfirmRequest
<1> DEFINE rec == [About(b) EXCEPT !.pc = "lock"]
           n == [rec EXCEPT !.op = "confirm", !.at = now]
<1>2. n.pc = "lock" /\ n.ans = "none" /\ n.at = now /\ n.op = "confirm"
  BY DEF About, Idle
<1>3. Submit(r, "confirm", rec) /\ link' = link /\ hold' = hold
  BY <1>1
<1> HIDE DEF rec
<1>4. Entry(n)
  BY <1>2 DEF Entry, Wants, PlaceOps, MoveOps
<1> QED
  BY <1>2, <1>3, <1>4, SubmitEnters

LEMMA CancelEnters ==
  ASSUME NEW r \in Requests, CancelRequest(r)
  PROVE  Enters(r)
<1>1. PICK b \in Ids : CancelRequest(r)!(b)
  BY DEF CancelRequest
<1> DEFINE new == [About(b) EXCEPT !.pc = "update"]
           old == [About(b) EXCEPT !.pc = "done", !.ans = "replay"]
           newN == [new EXCEPT !.op = "cancel", !.at = now]
           oldN == [old EXCEPT !.op = "cancel", !.at = now]
<1>2. /\ oldN.pc = "done" /\ oldN.ans = "replay" /\ oldN.at = now
      /\ newN.pc = "update" /\ newN.ans = "none" /\ newN.at = now
      /\ newN.op = "cancel" /\ newN.target = b /\ newN.link = None
  BY DEF About, Idle
<1>3. Submit(r, "cancel", new) \/ Submit(r, "cancel", old)
  BY <1>1
<1>4. link' = link /\ hold' = hold
  BY <1>1
<1> HIDE DEF old, new
<1>5. Entry(oldN) /\ Entry(newN)
  BY <1>2 DEF Entry
<1> QED
  BY <1>2, <1>3, <1>4, <1>5, SubmitEnters

LEMMA DeclineEnters ==
  ASSUME NEW r \in Requests, DeclineRequest(r)
  PROVE  Enters(r)
<1>1. PICK b \in Ids : DeclineRequest(r)!(b)
  BY DEF DeclineRequest
<1> DEFINE rec == [About(b) EXCEPT !.pc = "update"]
           n == [rec EXCEPT !.op = "decline", !.at = now]
<1>2. /\ n.pc = "update" /\ n.ans = "none" /\ n.at = now
      /\ n.op = "decline" /\ n.target = b /\ n.link = None
  BY DEF About, Idle
<1>3. Submit(r, "decline", rec) /\ link' = link /\ hold' = hold
  BY <1>1
<1> HIDE DEF rec
<1>4. Entry(n)
  BY <1>2 DEF Entry
<1> QED
  BY <1>2, <1>3, <1>4, SubmitEnters

LEMMA GuestEnters ==
  ASSUME NEW r \in Requests, GuestRequest(r)
  PROVE  Enters(r)
<1>1. PICK b \in Ids, who \in SUBSET People : GuestRequest(r)!(b, who)
  BY DEF GuestRequest
<1>2. PICK new \in SUBSET People, fits \in BOOLEAN :
        /\ req[r].pc = "idle" /\ (fits => Live(b))
        /\ req' = [req EXCEPT ![r] = [About(b) EXCEPT !.op = "guest", !.at = now, !.pc = "done",
                                         !.ans = IF fits THEN "ok" ELSE "refused"]]
        /\ booking' = IF fits THEN [booking EXCEPT ![b].people = @ \cup new] ELSE booking
        /\ UNCHANGED <<hold, link, lock, now>>
  <2> DEFINE new == who \ booking[b].people
             fits == Live(b) /\ (new # {} => Cardinality(booking[b].people) + Cardinality(new)
                                    <= (IF PeopleCap > Seats(booking[b].event) THEN PeopleCap
                                        ELSE Seats(booking[b].event)))
  <2>1. new \in SUBSET People /\ fits \in BOOLEAN /\ (fits => Live(b))
    BY DEF Live
  <2>2. /\ req[r].pc = "idle"
        /\ req' = [req EXCEPT ![r] = [About(b) EXCEPT !.op = "guest", !.at = now, !.pc = "done",
                                         !.ans = IF fits THEN "ok" ELSE "refused"]]
        /\ booking' = IF fits THEN [booking EXCEPT ![b].people = @ \cup new] ELSE booking
        /\ UNCHANGED <<hold, link, lock, now>>
    BY <1>1
  <2> HIDE DEF new, fits
  <2> QED
    BY <2>1, <2>2
<1> DEFINE n == [About(b) EXCEPT !.op = "guest", !.at = now, !.pc = "done",
                                 !.ans = IF fits THEN "ok" ELSE "refused"]
<1>3. n.pc = "done" /\ n.op = "guest" /\ n.at = now /\ n.link = None
  BY DEF About, Idle
<1>4. req' = [req EXCEPT ![r] = n]
  BY <1>2
<1> HIDE DEF n
<1>5. Entry(n)
  BY <1>3 DEF Entry
<1> QED
  BY <1>2, <1>3, <1>4, <1>5 DEF Enters

LEMMA ArriveEnters ==
  ASSUME TypeOK, NEW r \in Requests, Arrive(r)
  PROVE  Enters(r)
  BY RefuseEnters, ReplayEnters, BookEnters, ExpiredHoldEnters, TeamEnters, HostEventEnters,
     HoldEnters, ReleaseEnters, RescheduleEnters, MoveEnters, ConfirmEnters, CancelEnters,
     DeclineEnters, GuestEnters DEF Arrive

(* A request under way keeps what it asked for; its place and its answer   *)
(* change together.                                                        *)
SameAsk(n, q) ==
    /\ n.op = q.op /\ n.at = q.at /\ n.event = q.event /\ n.hosts = q.hosts /\ n.org = q.org
    /\ n.start = q.start /\ n.target = q.target /\ n.seen = q.seen /\ n.link = q.link
    /\ n.key = q.key /\ n.hold = q.hold /\ n.strict = q.strict /\ n.who = q.who

GoesOn(q, p, a) ==
    \/ a = q.ans /\ q.pc = "lock" /\ p \in {"lock", "check"}
    \/ a = q.ans /\ q.pc = "check" /\ p = "write"
    \/ a = q.ans /\ q.pc = "unhold" /\ p = AfterHold(q)
    \/ a = q.ans /\ q.pc = "burn" /\ p = "done"
    \/ a = "ok" /\ q.pc = "update" /\ p = "done"
    \/ a = "ok" /\ q.pc = "write" /\ p = AfterWrite(q)
    \/ a \in {"replay", "refused", "crashed"} /\ q.pc \notin {"idle", "done"} /\ p = "done"

TurnsTo(r, n) == req' = [req EXCEPT ![r] = n] /\ SameAsk(n, req[r])

Turns(r) == \E n : TurnsTo(r, n) /\ GoesOn(req[r], n.pc, n.ans)

TurnsAs(r, p, a) == \E n : TurnsTo(r, n) /\ n.pc = p /\ n.ans = a

(* After the commit no request is before it any more. *)
LEMMA AfterPoints ==
  ASSUME NEW q
  PROVE  AfterHold(q) \in {"burn", "done"} /\ AfterWrite(q) \in {"unhold", "burn", "done"}
  BY DEF AfterHold, AfterWrite

LEMMA PcTurns ==
  ASSUME TypeOK, NEW r \in Requests, NEW p \in Points, req' = [req EXCEPT ![r].pc = p]
  PROVE  TurnsAs(r, p, req[r].ans)
<1> DEFINE n == [req[r] EXCEPT !.pc = p]
<1>1. req[r] \in Request
  BY DEF TypeOK
<1>2. SameAsk(n, req[r]) /\ n.pc = p /\ n.ans = req[r].ans
  BY <1>1 DEF Request, SameAsk
<1>3. req' = [req EXCEPT ![r] = n]
  BY DEF TypeOK
<1> HIDE DEF n
<1> QED
  BY <1>2, <1>3 DEF TurnsTo, TurnsAs

LEMMA AnswerTurns ==
  ASSUME TypeOK, NEW r \in Requests, NEW p \in Points,
         NEW a \in {"ok", "replay", "refused", "crashed"},
         req' = [req EXCEPT ![r].pc = p, ![r].ans = a]
  PROVE  TurnsAs(r, p, a)
<1> DEFINE n == [req[r] EXCEPT !.pc = p, !.ans = a]
<1>1. req[r] \in Request
  BY DEF TypeOK
<1>2. SameAsk(n, req[r]) /\ n.pc = p /\ n.ans = a
  BY <1>1 DEF Request, SameAsk
<1>3. req' = [req EXCEPT ![r] = n]
  BY DEF TypeOK
<1> HIDE DEF n
<1> QED
  BY <1>2, <1>3 DEF TurnsTo, TurnsAs

(* A transaction turned down or committed. *)
LEMMA EndTurns ==
  ASSUME TypeOK, NEW r \in Requests, req[r].pc \notin {"idle", "done"},
         NEW a \in {"replay", "refused", "crashed"}, Answer(r, a)
  PROVE  TurnsAs(r, "done", a)
  BY AnswerTurns DEF Answer, Points

LEMMA CommitTurns ==
  ASSUME TypeOK, NEW r \in Requests, Commit(r)
  PROVE  TurnsAs(r, AfterWrite(req[r]), "ok")
<1>1. AfterWrite(req[r]) \in Points
  BY AfterPoints DEF Points
<1>2. req' = [req EXCEPT ![r].pc = AfterWrite(req[r]), ![r].ans = "ok"]
  BY DEF Commit
<1> QED
  BY <1>1, <1>2, AnswerTurns

LEMMA AsTurns ==
  ASSUME NEW r \in Requests, NEW p, NEW a, TurnsAs(r, p, a), GoesOn(req[r], p, a)
  PROVE  Turns(r)
  BY DEF TurnsAs, Turns

LEMMA EndedTurns ==
  ASSUME TypeOK, NEW r \in Requests, req[r].pc \notin {"idle", "done"},
         NEW a \in {"replay", "refused", "crashed"}, Answer(r, a)
  PROVE  Turns(r)
<1>1. GoesOn(req[r], "done", a)
  BY DEF GoesOn
<1> QED
  BY <1>1, EndTurns, AsTurns

LEMMA StepTurns ==
  ASSUME TypeOK, NEW r \in Requests, Step(r) \/ Crash(r)
  PROVE  Turns(r)
<1>1. CASE CancelUpdate(r) \/ DeclineUpdate(r)
  <2>1. req[r].pc = "update"
    BY <1>1 DEF CancelUpdate, DeclineUpdate
  <2>2. PICK a \in {"ok", "replay", "refused"} : Answer(r, a)
    BY <1>1 DEF CancelUpdate, DeclineUpdate
  <2>3. TurnsAs(r, "done", a)
    BY <2>2, AnswerTurns DEF Answer, Points
  <2>4. GoesOn(req[r], "done", a)
    BY <2>1 DEF GoesOn
  <2> QED
    BY <2>3, <2>4, AsTurns
<1>2. CASE TakeLock(r)
  <2>1. req[r].pc = "lock" /\ (req' = req \/ req' = [req EXCEPT ![r].pc = "check"])
    BY <1>2 DEF TakeLock
  <2>2. CASE req' = req
    <3>1. req' = [req EXCEPT ![r] = req[r]] /\ SameAsk(req[r], req[r])
      BY <2>2 DEF TypeOK, SameAsk
    <3> QED
      BY <2>1, <3>1 DEF Turns, TurnsTo, GoesOn
  <2>3. CASE req' = [req EXCEPT ![r].pc = "check"]
    <3>1. TurnsAs(r, "check", req[r].ans)
      BY <2>3, PcTurns DEF Points
    <3>2. GoesOn(req[r], "check", req[r].ans)
      BY <2>1 DEF GoesOn
    <3> QED
      BY <3>1, <3>2, AsTurns
  <2> QED
    BY <2>1, <2>2, <2>3
<1>3. CASE Check(r)
  <2>1. req[r].pc = "check"
    BY <1>3 DEF Check
  <2>2. CASE End(r, "replay") \/ End(r, "refused")
    BY <2>1, <2>2, EndedTurns DEF End
  <2>3. CASE req' = [req EXCEPT ![r].pc = "write"]
    <3>1. TurnsAs(r, "write", req[r].ans)
      BY <2>3, PcTurns DEF Points
    <3>2. GoesOn(req[r], "write", req[r].ans)
      BY <2>1 DEF GoesOn
    <3> QED
      BY <3>1, <3>2, AsTurns
  <2> QED
    BY <1>3, <2>2, <2>3 DEF Check
<1>4. CASE Write(r)
  <2>1. req[r].pc = "write"
    BY <1>4 DEF Write, WriteBooking, WriteHold, WriteSeat, WriteReschedule, WriteConfirm,
                WriteMove, Writing
  <2>2. Commit(r) \/ End(r, "replay") \/ End(r, "refused")
    BY <1>4 DEF Write, WriteBooking, WriteHold, WriteSeat, WriteReschedule, WriteConfirm,
                WriteMove
  <2>3. CASE Commit(r)
    <3>1. GoesOn(req[r], AfterWrite(req[r]), "ok")
      BY <2>1 DEF GoesOn
    <3> QED
      BY <2>3, <3>1, CommitTurns, AsTurns
  <2>4. CASE End(r, "replay") \/ End(r, "refused")
    BY <2>1, <2>4, EndedTurns DEF End
  <2> QED
    BY <2>2, <2>3, <2>4
<1>5. CASE DropHold(r)
  <2>1. req[r].pc = "unhold" /\ req' = [req EXCEPT ![r].pc = AfterHold(req[r])]
    BY <1>5 DEF DropHold
  <2>2. AfterHold(req[r]) \in Points
    BY AfterPoints DEF Points
  <2>3. TurnsAs(r, AfterHold(req[r]), req[r].ans)
    BY <2>1, <2>2, PcTurns
  <2>4. GoesOn(req[r], AfterHold(req[r]), req[r].ans)
    BY <2>1 DEF GoesOn
  <2> QED
    BY <2>3, <2>4, AsTurns
<1>6. CASE BurnLink(r)
  <2>1. req[r].pc = "burn" /\ req' = [req EXCEPT ![r].pc = "done"]
    BY <1>6 DEF BurnLink
  <2>2. TurnsAs(r, "done", req[r].ans)
    BY <2>1, PcTurns DEF Points
  <2>3. GoesOn(req[r], "done", req[r].ans)
    BY <2>1 DEF GoesOn
  <2> QED
    BY <2>2, <2>3, AsTurns
<1>7. CASE Crash(r)
  <2>1. req[r].pc \notin {"idle", "done"} /\ Answer(r, "crashed")
    BY <1>7 DEF Crash
  <2> QED
    BY <2>1, EndedTurns
<1> QED
  BY <1>1, <1>2, <1>3, <1>4, <1>5, <1>6, <1>7 DEF Step

LEMMA CrashTurns ==
  ASSUME TypeOK, NEW r \in Requests, Crash(r)
  PROVE  req'[r].ans = "crashed"
  BY DEF Crash, Answer, TypeOK, Request

(* What is neither a request's step nor an arrival changes the clock, or   *)
(* revokes a link.                                                         *)
Aside ==
    /\ booking' = booking /\ hold' = hold /\ lock' = lock /\ req' = req
    /\ now' \in {now, now + 1}
    /\ link' = link \/ \E l \in Links : link' = [link EXCEPT ![l] = "revoked"]

LEMMA NextCases ==
  ASSUME TypeOK, [Next]_vars
  PROVE  \/ \E r \in Requests : Enters(r)
         \/ \E r \in Requests : Step(r)
         \/ \E r \in Requests : Crash(r)
         \/ Aside
<1>1. ASSUME NEW l \in Links, Revoke(l)
      PROVE  Aside
  BY <1>1 DEF Revoke, Aside
<1>2. CASE Tick
  BY <1>2 DEF Tick, Aside
<1>3. CASE UNCHANGED vars
  BY <1>3 DEF vars, Aside
<1> QED
  BY <1>1, <1>2, <1>3, ArriveEnters DEF Next, Finished

LEMMA TurnsReq ==
  ASSUME TypeOK, NEW r \in Requests, Turns(r)
  PROVE  /\ \A s \in Requests \ {r} : req'[s] = req[s]
         /\ SameAsk(req'[r], req[r]) /\ GoesOn(req[r], req'[r].pc, req'[r].ans)
<1>1. PICK n : TurnsTo(r, n) /\ GoesOn(req[r], n.pc, n.ans)
  BY DEF Turns
<1>2. req'[r] = n /\ \A s \in Requests \ {r} : req'[s] = req[s]
  BY <1>1 DEF TurnsTo, TypeOK
<1> QED
  BY <1>1, <1>2 DEF TurnsTo

LEMMA EntersReq ==
  ASSUME TypeOK, NEW r \in Requests, Enters(r)
  PROVE  /\ \A s \in Requests \ {r} : req'[s] = req[s]
         /\ Entry(req'[r]) /\ req'[r].at \in {now, req[r].at}
<1>1. PICK n : req' = [req EXCEPT ![r] = n] /\ Entry(n) /\ n.at \in {now, req[r].at}
  BY DEF Enters
<1>2. req'[r] = n /\ \A s \in Requests \ {r} : req'[s] = req[s]
  BY <1>1 DEF TypeOK
<1> QED
  BY <1>1, <1>2

-----------------------------------------------------------------------------
(* Links. *)

(* No link comes to life again. *)
LEMMA LinksDie ==
  ASSUME TypeOK, "live" \notin Ids, [Next]_vars, NEW l \in Links, link'[l] = "live"
  PROVE  link[l] = "live"
<1>1. ASSUME NEW r \in Requests, Step(r)
      PROVE  link[l] = "live"
  <2>1. CASE BurnLink(r)
    <3> DEFINE by == IF req[r].target = None THEN r ELSE req[r].target
    <3>1. by \in Ids
      BY DEF TypeOK, Request, Ids
    <3>2. link' = link \/ link' = [link EXCEPT ![req[r].link] = by]
      BY <2>1 DEF BurnLink
    <3> HIDE DEF by
    <3> QED
      BY <3>1, <3>2 DEF TypeOK
  <2>2. CASE ~ BurnLink(r)
    <3>1. link' = link
      BY <1>1, <2>2 DEF Step, CancelUpdate, DeclineUpdate, TakeLock, Check, Write, WriteBooking,
                        WriteHold, WriteSeat, WriteReschedule, WriteConfirm, WriteMove, DropHold
    <3> QED
      BY <3>1
  <2> QED
    BY <2>1, <2>2
<1>2. CASE \E r \in Requests : Enters(r) \/ Crash(r)
  BY <1>2 DEF Enters, Crash
<1>3. CASE Aside
  BY <1>3 DEF Aside, TypeOK
<1> QED
  BY <1>1, <1>2, <1>3, NextCases

(* Only the burning itself leaves the point before it. *)
LEMMA BurnIsBurn ==
  ASSUME TypeOK, NEW r \in Requests, Step(r), req[r].pc = "burn"
  PROVE  BurnLink(r)
  BY DEF Step, CancelUpdate, DeclineUpdate, TakeLock, Check, Write, WriteBooking,
         WriteHold, WriteSeat, WriteReschedule, WriteConfirm, WriteMove, DropHold, Writing

LEMMA LinkStep ==
  ASSUME LinkInv, "live" \notin Ids, [Next]_vars
  PROVE  LinksBurned' /\ UpdatesUnlinked'
<1>0. TypeOK
  BY DEF LinkInv, GuardedInv
<1> DEFINE Burned(q) == q.ans = "ok" /\ q.link # None
                           => q.pc \in {"unhold", "burn"} \/ link[q.link] # "live"
           Then(q) == q.ans = "ok" /\ q.link # None
                           => q.pc \in {"unhold", "burn"} \/ link'[q.link] # "live"
<1>1. ASSUME NEW s \in Requests, req'[s] = req[s]
      PROVE  Then(req'[s]) /\ (req'[s].pc = "update" => req'[s].link = None)
  <2>1. req[s].link # None => req[s].link \in Links
    BY <1>0 DEF TypeOK, Request
  <2>2. Burned(req[s]) /\ (req[s].pc = "update" => req[s].link = None)
    BY DEF LinkInv, LinksBurned, UpdatesUnlinked
  <2> QED
    BY <1>0, <1>1, <2>1, <2>2, LinksDie
<1>2. ASSUME NEW r \in Requests, Enters(r)
      PROVE  Then(req'[r]) /\ (req'[r].pc = "update" => req'[r].link = None)
  BY <1>0, <1>2, EntersReq DEF Entry
<1>3. ASSUME NEW r \in Requests, Step(r) \/ Crash(r)
      PROVE  Then(req'[r]) /\ (req'[r].pc = "update" => req'[r].link = None)
  <2>1. SameAsk(req'[r], req[r]) /\ GoesOn(req[r], req'[r].pc, req'[r].ans)
    BY <1>0, <1>3, StepTurns, TurnsReq
  <2>2. Burned(req[r]) /\ (req[r].pc = "update" => req[r].link = None)
    BY DEF LinkInv, LinksBurned, UpdatesUnlinked
  <2>3. req[r].link # None => req[r].link \in Links
    BY <1>0 DEF TypeOK, Request
  <2>4. req'[r].pc # "update"
    BY <2>1, AfterPoints DEF GoesOn
  <2>5. ASSUME req'[r].ans = "ok", req'[r].link # None, req'[r].pc \notin {"unhold", "burn"}
        PROVE  link'[req'[r].link] # "live"
    <3>1. req[r].link = req'[r].link
      BY <2>1 DEF SameAsk
    <3>2. CASE req[r].pc \in {"lock", "check"}
      <4>1. req[r].ans = "ok"
        BY <2>1, <2>5, <3>2 DEF GoesOn
      <4> QED
        BY <1>0, <2>2, <2>3, <2>5, <3>1, <3>2, <4>1, LinksDie
    <3>3. CASE req[r].pc = "burn"
      <4>1. BurnLink(r)
        BY <1>0, <1>3, <2>1, <2>5, <3>3, BurnIsBurn, CrashTurns
      <4>2. link[req[r].link] # "live" \/ link' = [link EXCEPT ![req[r].link] =
                 IF req[r].target = None THEN r ELSE req[r].target]
        BY <4>1 DEF BurnLink
      <4>3. (IF req[r].target = None THEN r ELSE req[r].target) \in Ids
        BY <1>0 DEF TypeOK, Request, Ids
      <4> QED
        BY <1>0, <2>3, <2>5, <3>1, <4>2, <4>3, LinksDie DEF TypeOK
    <3>4. req[r].pc \in {"lock", "check", "burn"}
      BY <2>1, <2>2, <2>5, <3>1 DEF GoesOn, AfterWrite, AfterHold
    <3> QED
      BY <3>2, <3>3, <3>4
  <2> QED
    BY <2>4, <2>5
<1>4. ASSUME NEW s \in Requests
      PROVE  Then(req'[s]) /\ (req'[s].pc = "update" => req'[s].link = None)
  <2>1. CASE Aside
    BY <1>1, <2>1 DEF Aside
  <2>2. ASSUME NEW r \in Requests, Enters(r)
        PROVE  Then(req'[s]) /\ (req'[s].pc = "update" => req'[s].link = None)
    BY <1>0, <1>1, <1>2, <2>2, EntersReq
  <2>3. ASSUME NEW r \in Requests, Step(r) \/ Crash(r)
        PROVE  Then(req'[s]) /\ (req'[s].pc = "update" => req'[s].link = None)
    BY <1>0, <1>1, <1>3, <2>3, StepTurns, TurnsReq
  <2> QED
    BY <1>0, <2>1, <2>2, <2>3, NextCases
<1> QED
  BY <1>4 DEF LinksBurned, UpdatesUnlinked

(* Once a booking through a one-off link is answered the link opens nothing *)
(* more, however many bookings, revocations and deaths come between.       *)
THEOREM LinksAreSpent == ASSUME "live" \notin Ids PROVE Spec => []AnsweredLinkIsSpent
<1>1. Init => LinkInv
  <2> SUFFICES ASSUME Init PROVE LinkInv
    OBVIOUS
  <2>1. \A r \in Requests : req[r] = Idle
    BY DEF Init
  <2>2. LinksBurned /\ UpdatesUnlinked
    BY <2>1 DEF LinksBurned, UpdatesUnlinked, Idle
  <2> QED
    BY <2>2, InitGuarded DEF LinkInv
<1>2. LinkInv /\ [Next]_vars => LinkInv'
  BY LinkStep, NextGuarded DEF LinkInv
<1>3. LinkInv => AnsweredLinkIsSpent
  BY DEF LinkInv, LinksBurned, AnsweredLinkIsSpent
<1> QED
  BY <1>1, <1>2, <1>3, PTL DEF Spec

-----------------------------------------------------------------------------
(* Rows. *)

(* One row is written, the others stay. *)
LEMMA RowSet ==
  ASSUME TypeOK, NEW b \in Ids, NEW row, booking' = [booking EXCEPT ![b] = row]
  PROVE  booking'[b] = row /\ \A c \in Ids \ {b} : booking'[c] = booking[c]
  BY DEF TypeOK

LEMMA StatusRow ==
  ASSUME TypeOK, NEW b \in Ids, NEW st, booking' = [booking EXCEPT ![b].status = st]
  PROVE  /\ \A c \in Ids \ {b} : booking'[c] = booking[c]
         /\ booking'[b].status = st /\ booking'[b].event = booking[b].event
         /\ booking'[b].hosts = booking[b].hosts /\ booking'[b].start = booking[b].start
         /\ booking'[b].key = booking[b].key /\ booking'[b].to = booking[b].to
         /\ booking'[b].people = booking[b].people
<1>1. booking[b] \in Row
  BY DEF TypeOK
<1> DEFINE row == [booking[b] EXCEPT !.status = st]
<1>2. ASSUME NEW x \in Row
      PROVE  /\ [x EXCEPT !.status = st].status = st /\ [x EXCEPT !.status = st].event = x.event
             /\ [x EXCEPT !.status = st].hosts = x.hosts /\ [x EXCEPT !.status = st].start = x.start
             /\ [x EXCEPT !.status = st].key = x.key /\ [x EXCEPT !.status = st].to = x.to
             /\ [x EXCEPT !.status = st].people = x.people
  BY DEF Row
<1>3. booking' = [booking EXCEPT ![b] = row]
  BY DEF TypeOK
<1>4. /\ row.status = st /\ row.event = booking[b].event
      /\ row.hosts = booking[b].hosts /\ row.start = booking[b].start
      /\ row.key = booking[b].key /\ row.to = booking[b].to
      /\ row.people = booking[b].people
  BY <1>1, <1>2
<1> HIDE DEF row
<1>9. booking'[b] = row /\ \A c \in Ids \ {b} : booking'[c] = booking[c]
  BY <1>3, RowSet
<1> QED
  BY <1>4, <1>9

LEMMA PeopleRow ==
  ASSUME TypeOK, NEW b \in Ids, NEW who, booking' = [booking EXCEPT ![b].people = @ \cup who]
  PROVE  /\ \A c \in Ids \ {b} : booking'[c] = booking[c]
         /\ booking'[b].status = booking[b].status /\ booking'[b].event = booking[b].event
         /\ booking'[b].hosts = booking[b].hosts /\ booking'[b].start = booking[b].start
         /\ booking'[b].key = booking[b].key /\ booking'[b].to = booking[b].to
         /\ booking'[b].people = booking[b].people \cup who
<1> DEFINE row == [booking[b] EXCEPT !.people = booking[b].people \cup who]
<1>1. booking[b] \in Row
  BY DEF TypeOK
<1>2. /\ row.status = booking[b].status /\ row.event = booking[b].event
      /\ row.hosts = booking[b].hosts /\ row.start = booking[b].start
      /\ row.key = booking[b].key /\ row.to = booking[b].to
      /\ row.people = booking[b].people \cup who
  BY <1>1 DEF Row
<1>3. booking' = [booking EXCEPT ![b] = row]
  BY DEF TypeOK
<1> HIDE DEF row
<1>9. booking'[b] = row /\ \A c \in Ids \ {b} : booking'[c] = booking[c]
  BY <1>3, RowSet
<1> QED
  BY <1>2, <1>9

LEMMA MovedRow ==
  ASSUME TypeOK, NEW b \in Ids, NEW s, NEW k,
         booking' = [booking EXCEPT ![b].start = s, ![b].moveKey = k]
  PROVE  /\ \A c \in Ids \ {b} : booking'[c] = booking[c]
         /\ booking'[b].status = booking[b].status /\ booking'[b].event = booking[b].event
         /\ booking'[b].hosts = booking[b].hosts /\ booking'[b].start = s
         /\ booking'[b].key = booking[b].key /\ booking'[b].to = booking[b].to
         /\ booking'[b].people = booking[b].people
<1>1. booking[b] \in Row
  BY DEF TypeOK
<1> DEFINE moved(x) == [x EXCEPT !.start = s, !.moveKey = k]
           row == moved(booking[b])
<1>4. ASSUME NEW x \in Row
      PROVE  /\ moved(x).status = x.status /\ moved(x).event = x.event
             /\ moved(x).hosts = x.hosts /\ moved(x).start = s
             /\ moved(x).key = x.key /\ moved(x).to = x.to /\ moved(x).people = x.people
  BY DEF Row
<1>2. /\ row.status = booking[b].status /\ row.event = booking[b].event
      /\ row.hosts = booking[b].hosts /\ row.start = s
      /\ row.key = booking[b].key /\ row.to = booking[b].to
      /\ row.people = booking[b].people
  <2> HIDE DEF moved
  <2> QED
    BY <1>1, <1>4
<1>3. booking' = [booking EXCEPT ![b] = row]
  BY DEF TypeOK
<1> HIDE DEF row
<1>9. booking'[b] = row /\ \A c \in Ids \ {b} : booking'[c] = booking[c]
  BY <1>3, RowSet
<1> QED
  BY <1>2, <1>9

(* Fields of a row that is not there are no field anybody reads: a write   *)
(* to it changes nothing.                                                  *)
LEMMA NoRowSet ==
  ASSUME TypeOK, NEW b, b \notin Ids, NEW row, booking' = [booking EXCEPT ![b] = row]
  PROVE  booking' = booking
  BY DEF TypeOK

(* Row r replaces row b of another name. *)
Replaces(r, b, st, s, k, mk) ==
    booking' = [booking EXCEPT ![b].status = "cancelled", ![b].to = r,
                               ![r] = [booking[b] EXCEPT !.status = st, !.start = s,
                                                         !.key = k, !.moveKey = mk]]

LEMMA ReplacedRows ==
  ASSUME TypeOK, NEW b \in Ids, NEW r \in Ids \ {b}, NEW st, NEW s, NEW k, NEW mk,
         Replaces(r, b, st, s, k, mk)
  PROVE  /\ \A c \in Ids \ {b, r} : booking'[c] = booking[c]
         /\ booking'[b].status = "cancelled" /\ booking'[b].event = booking[b].event
         /\ booking'[b].hosts = booking[b].hosts /\ booking'[b].start = booking[b].start
         /\ booking'[b].key = booking[b].key /\ booking'[b].to = r
         /\ booking'[r].status = st /\ booking'[r].event = booking[b].event
         /\ booking'[r].hosts = booking[b].hosts /\ booking'[r].start = s
         /\ booking'[r].key = k /\ booking'[r].to = booking[b].to
         /\ booking'[b].people = booking[b].people /\ booking'[r].people = booking[b].people
<1> DEFINE old == [booking[b] EXCEPT !.status = "cancelled", !.to = r]
           row == [booking[b] EXCEPT !.status = st, !.start = s, !.key = k, !.moveKey = mk]
<1>1. booking[b] \in Row
  BY DEF TypeOK
<1>2. /\ old.status = "cancelled" /\ old.event = booking[b].event
      /\ old.hosts = booking[b].hosts /\ old.start = booking[b].start
      /\ old.key = booking[b].key /\ old.to = r /\ old.people = booking[b].people
  BY <1>1 DEF Row
<1>3. /\ row.status = st /\ row.event = booking[b].event
      /\ row.hosts = booking[b].hosts /\ row.start = s
      /\ row.key = k /\ row.to = booking[b].to /\ row.people = booking[b].people
  BY <1>1 DEF Row
<1>4. booking' = [[booking EXCEPT ![b] = old] EXCEPT ![r] = row]
  BY DEF TypeOK, Replaces
<1> HIDE DEF old, row
<1>5. /\ booking'[r] = row /\ booking'[b] = old
      /\ \A c \in Ids \ {r, b} : booking'[c] = booking[c]
  BY <1>4 DEF TypeOK
<1> QED
  BY <1>2, <1>3, <1>5

-----------------------------------------------------------------------------
(* Keys. *)

SameKeys == \A b \in Ids : booking'[b].key = booking[b].key

(* Request r writes its row under its key, which no row bears. *)
NewKey(r) ==
    /\ ~ KeyTaken(req[r].key) /\ booking'[r].key = req[r].key
    /\ \A b \in Ids \ {r} : booking'[b].key = booking[b].key

LEMMA OneRowKeys ==
  ASSUME TypeOK, NEW b, NEW st, NEW who, NEW s, NEW k,
         \/ booking' = booking
         \/ booking' = [booking EXCEPT ![b].status = st]
         \/ booking' = [booking EXCEPT ![b].people = @ \cup who]
         \/ booking' = [booking EXCEPT ![b].start = s, ![b].moveKey = k]
  PROVE  SameKeys
<1>1. CASE b \in Ids
  <2>1. CASE booking' = [booking EXCEPT ![b].status = st]
    BY <1>1, <2>1, StatusRow DEF SameKeys
  <2>2. CASE booking' = [booking EXCEPT ![b].people = @ \cup who]
    BY <1>1, <2>2, PeopleRow DEF SameKeys
  <2>3. CASE booking' = [booking EXCEPT ![b].start = s, ![b].moveKey = k]
    BY <1>1, <2>3, MovedRow DEF SameKeys
  <2> QED
    BY <2>1, <2>2, <2>3 DEF SameKeys
<1>2. CASE b \notin Ids
  <2>1. booking' = booking
    BY <1>2 DEF TypeOK
  <2> QED
    BY <2>1 DEF SameKeys
<1> QED
  BY <1>1, <1>2

LEMMA KeyRows ==
  ASSUME GuardedInv, NEW r \in Requests, Step(r)
  PROVE  \/ SameKeys /\ (req'[r].ans = "ok" => req[r].ans = "ok" \/ req[r].op \notin KeyOps)
         \/ NewKey(r)
<1>0. TypeOK
  BY DEF GuardedInv
<1>1. CASE CancelUpdate(r) \/ DeclineUpdate(r)
  <2>1. req[r].op \notin KeyOps
    BY <1>1 DEF CancelUpdate, DeclineUpdate, KeyOps
  <2>2. \/ booking' = booking
        \/ booking' = [booking EXCEPT ![req[r].target].status = "cancelled"]
        \/ booking' = [booking EXCEPT ![req[r].target].status = "rejected"]
    BY <1>1 DEF CancelUpdate, DeclineUpdate
  <2>3. SameKeys
    BY <1>0, <2>2, OneRowKeys
  <2> QED
    BY <2>1, <2>3
<1>2. CASE TakeLock(r) \/ Check(r) \/ DropHold(r) \/ BurnLink(r)
  <2>1. booking' = booking
    BY <1>2 DEF TakeLock, Check, DropHold, BurnLink
  <2>2. req[r].pc \in {"lock", "check", "unhold", "burn"}
    BY <1>2 DEF TakeLock, Check, DropHold, BurnLink
  <2>3. GoesOn(req[r], req'[r].pc, req'[r].ans)
    BY <1>0, StepTurns, TurnsReq
  <2>4. req'[r].ans = "ok" => req[r].ans = "ok"
    BY <2>2, <2>3 DEF GoesOn
  <2> QED
    BY <2>1, <2>4 DEF SameKeys
<1>3. CASE WriteHold(r) \/ WriteSeat(r) \/ WriteReschedule(r) \/ WriteConfirm(r)
  <2>1. req[r].op \notin KeyOps
    BY <1>3 DEF WriteHold, WriteSeat, WriteReschedule, WriteConfirm, Writing, KeyOps
  <2>2. CASE WriteHold(r) \/ WriteConfirm(r)
    <3>1. booking' = booking \/ booking' = [booking EXCEPT ![req[r].target].status = "accepted"]
      BY <2>2 DEF WriteHold, WriteConfirm
    <3> QED
      BY <1>0, <2>1, <3>1, OneRowKeys
  <2>3. CASE WriteSeat(r)
    <3>1. booking' = [booking EXCEPT ![req[r].target].people = @ \cup req[r].who]
      BY <2>3 DEF WriteSeat
    <3> QED
      BY <1>0, <2>1, <3>1, OneRowKeys
  <2>4. CASE WriteReschedule(r)
    <3> DEFINE k == IF req[r].key # None THEN req[r].key ELSE req[r].seenKey
    <3>1. \/ booking' = booking
          \/ booking' = [booking EXCEPT ![req[r].target].start = req[r].start,
                                        ![req[r].target].moveKey = k]
      BY <2>4 DEF WriteReschedule
    <3> HIDE DEF k
    <3> QED
      BY <1>0, <2>1, <3>1, OneRowKeys
  <2> QED
    BY <1>3, <2>2, <2>3, <2>4
<1>4. CASE WriteBooking(r)
  <2> DEFINE q == req[r]
             refused == KeyConflict(q.key) \/ Excluded(q.org, q.start, None)
             row == [status |-> IF q.event # None /\ q.event.gated /\ q.op = "book"
                                THEN "pending" ELSE "accepted",
                     event |-> q.event, org |-> q.org, hosts |-> q.hosts, start |-> q.start,
                     people |-> q.who, key |-> q.key, moveKey |-> None, to |-> None]
  <2>1. /\ IF refused
           THEN End(r, IF q.op = "hostEvent" /\ KeyTaken(q.key) THEN "replay" ELSE "refused")
           ELSE Commit(r)
        /\ booking' = IF refused THEN booking ELSE [booking EXCEPT ![r] = row]
    BY <1>4 DEF WriteBooking
  <2>2. CASE refused
    <3>1. booking' = booking /\ (End(r, "replay") \/ End(r, "refused"))
      BY <2>1, <2>2
    <3>2. req'[r].ans # "ok"
      BY <1>0, <3>1 DEF End, Answer, TypeOK, Request
    <3> QED
      BY <3>1, <3>2 DEF SameKeys
  <2>3. CASE ~ refused
    <3>1. booking' = [booking EXCEPT ![r] = row] /\ ~ KeyTaken(q.key)
      BY <2>1, <2>3 DEF KeyConflict
    <3>2. row.key = q.key /\ r \in Ids
      BY DEF Ids
    <3> HIDE DEF row
    <3> QED
      BY <1>0, <3>1, <3>2, RowSet DEF NewKey
  <2> QED
    BY <2>2, <2>3
<1>5. CASE WriteMove(r)
  <2> DEFINE q == req[r]
             b == q.target
             refused == KeyConflict(q.key) \/ Excluded(q.org, q.start, b)
  <2>1. /\ IF refused THEN End(r, IF KeyTaken(q.key) THEN "replay" ELSE "refused") ELSE Commit(r)
        /\ booking' =
             IF refused THEN booking
             ELSE [booking EXCEPT ![b].status = "cancelled", ![b].to = r,
                                  ![r] = [booking[b] EXCEPT !.status = q.seen, !.start = q.start,
                                                            !.key = q.key,
                                                            !.moveKey = q.seenKey]]
    BY <1>5 DEF WriteMove
  <2>2. CASE refused
    <3>1. booking' = booking /\ (End(r, "replay") \/ End(r, "refused"))
      BY <2>1, <2>2
    <3>2. req'[r].ans # "ok"
      BY <1>0, <3>1 DEF End, Answer, TypeOK, Request
    <3> QED
      BY <3>1, <3>2 DEF SameKeys
  <2>3. CASE ~ refused
    <3>1. ~ KeyTaken(q.key)
      BY <2>3 DEF KeyConflict
    <3>2. q.pc = "write" /\ q.op \in MoveOps
      BY <1>5 DEF WriteMove, Writing, MoveOps
    <3>3. r \in Ids /\ b \in Ids /\ r # b
      BY <3>2 DEF GuardedInv, TargetsKept, RowsUnwritten, Ids
    <3>5. Replaces(r, b, q.seen, q.start, q.key, q.seenKey)
      BY <2>1, <2>3 DEF Replaces
    <3> HIDE DEF b
    <3>4. booking'[r].key = q.key /\ booking'[b].key = booking[b].key
          /\ \A c \in Ids \ {b, r} : booking'[c] = booking[c]
      BY <1>0, <3>3, <3>5, ReplacedRows
    <3> QED
      BY <3>1, <3>4 DEF NewKey
  <2> QED
    BY <2>2, <2>3
<1> QED
  BY <1>1, <1>2, <1>3, <1>4, <1>5 DEF Step, Write

LEMMA KeyStep ==
  ASSUME KeyInv, [Next]_vars
  PROVE  KeysApart' /\ KeysBorne'
<1>0. TypeOK /\ GuardedInv
  BY DEF KeyInv, GuardedInv
<1>1. ASSUME SameKeys, \A s \in Requests : /\ req'[s].op \in KeyOps /\ req'[s].ans = "ok"
                                                 => req[s].ans = "ok" /\ req[s].op \in KeyOps
                                                    /\ req'[s].key = req[s].key
      PROVE  KeysApart' /\ KeysBorne'
  BY <1>1 DEF KeyInv, KeysApart, KeysBorne, SameKeys, Ids
<1>2. CASE Aside
  <2>1. SameKeys /\ req' = req
    BY <1>2 DEF Aside, SameKeys
  <2> QED
    BY <1>1, <2>1
<1>3. ASSUME NEW r \in Requests, Enters(r)
      PROVE  KeysApart' /\ KeysBorne'
  <2>1. SameKeys
    BY <1>0, <1>3, OneRowKeys DEF Enters
  <2>2. (\A s \in Requests \ {r} : req'[s] = req[s]) /\ Entry(req'[r])
    BY <1>0, <1>3, EntersReq
  <2>3. req'[r].ans = "ok" => req'[r].op \notin KeyOps
    BY <2>2 DEF Entry, KeyOps
  <2> QED
    BY <1>1, <2>1, <2>2, <2>3
<1>4. ASSUME NEW r \in Requests, Step(r) \/ Crash(r)
      PROVE  KeysApart' /\ KeysBorne'
  <2>1. /\ \A s \in Requests \ {r} : req'[s] = req[s]
        /\ SameAsk(req'[r], req[r])
    BY <1>0, <1>4, StepTurns, TurnsReq
  <2>2. req'[r].op = req[r].op /\ req'[r].key = req[r].key
    BY <2>1 DEF SameAsk
  <2>3. CASE Crash(r)
    <3>1. SameKeys
      BY <2>3 DEF Crash, SameKeys
    <3>2. req'[r].ans = "crashed"
      BY <1>0, <2>3, CrashTurns
    <3> QED
      BY <1>1, <2>1, <3>1, <3>2
  <2>4. CASE SameKeys /\ (req'[r].ans = "ok" => req[r].ans = "ok" \/ req[r].op \notin KeyOps)
    BY <1>1, <2>1, <2>2, <2>4
  <2>5. CASE NewKey(r)
    <3>1. KeysApart'
      BY <2>5 DEF NewKey, KeyTaken, KeyInv, KeysApart
    <3>2. KeysBorne'
      BY <2>1, <2>2, <2>5 DEF NewKey, KeyInv, KeysBorne, Ids
    <3> QED
      BY <3>1, <3>2
  <2> QED
    BY <1>0, <1>4, <2>3, <2>4, <2>5, KeyRows
<1> QED
  BY <1>0, <1>2, <1>3, <1>4, NextCases

(* Two calls with one idempotency key never both write, whichever of their *)
(* operations race and on either database.                                 *)
THEOREM KeysWriteOnce == Spec => []WrittenOncePerKey
<1>1. Init => KeyInv
  <2> SUFFICES ASSUME Init PROVE KeyInv
    OBVIOUS
  <2>1. \A r \in Requests : req[r] = Idle
    BY DEF Init
  <2>2. KeysBorne
    BY <2>1 DEF KeysBorne, Idle
  <2>3. PICK row \in [Seeds -> SeedRows] :
          booking = [b \in Ids |-> IF b \in Seeds THEN row[b] ELSE NoRow]
    BY DEF Init
  <2>4. \A b \in Ids : booking[b].key = None
    BY <2>3, SeedsAssumption DEF NoRow
  <2> QED
    BY <2>2, <2>4, InitGuarded DEF KeyInv, KeysApart
<1>2. KeyInv /\ [Next]_vars => KeyInv'
  BY KeyStep, NextGuarded DEF KeyInv
<1>3. KeyInv => WrittenOncePerKey
  BY DEF KeyInv, KeysApart, KeysBorne, WrittenOncePerKey, KeyOps, Ids
<1> QED
  BY <1>1, <1>2, <1>3, PTL DEF Spec

-----------------------------------------------------------------------------
(* Holds. *)

(* Holds are given back or swept; none is placed. *)
Shrinks == \A h \in Requests : hold'[h] \in {hold[h], NoHold}

(* MemberHeld, in table hd. *)
HeldIn(hd, m, s, t) ==
    \E h \in Requests : hd[h].member = m /\ hd[h].release > t /\ Overlap(hd[h].start, s)

LEMMA HeldNow ==
  ASSUME NEW m, NEW s, NEW t
  PROVE  MemberHeld(m, s, t, None) <=> HeldIn(hold, m, s, t)
  BY NamesAssumption DEF MemberHeld, HeldIn, Ids

LEMMA HoldRows ==
  ASSUME TypeOK, NEW r \in Requests, Step(r) \/ Crash(r)
  PROVE  Shrinks \/ WriteHold(r)
<1>1. CASE DropHold(r)
  BY <1>1 DEF DropHold, TypeOK, Shrinks
<1>2. CASE ~ DropHold(r) /\ ~ WriteHold(r)
  <2>1. hold' = hold
    BY <1>2 DEF Step, Crash, CancelUpdate, DeclineUpdate, TakeLock, Check, Write, WriteBooking,
                WriteSeat, WriteReschedule, WriteConfirm, WriteMove, BurnLink
  <2> QED
    BY <2>1 DEF Shrinks
<1> QED
  BY <1>1, <1>2

(* The hold a request writes, and the one request that may write it. *)
LEMMA HoldWritten ==
  ASSUME HoldInv, NEW r \in Requests, WriteHold(r)
  PROVE  /\ \A h \in Requests \ {r} : hold'[h] = hold[h]
         /\ hold'[r].member = req[r].org /\ hold'[r].start = req[r].start
         /\ hold'[r].event = req[r].event
         /\ AboutToHold(r) /\ now' = now
         /\ \A s \in Requests \ {r} : AboutToHold(s) => req[s].org # req[r].org
<1>0. TypeOK /\ LocksHeld
  BY DEF HoldInv, GuardedInv
<1> DEFINE new == [member |-> req[r].org, event |-> req[r].event, start |-> req[r].start,
                   release |-> req[r].at + HoldTime]
<1>1. hold' = [hold EXCEPT ![r] = new] /\ AboutToHold(r) /\ now' = now
  BY DEF WriteHold, Writing, AboutToHold
<1>2. new.member = req[r].org /\ new.start = req[r].start /\ new.event = req[r].event
  OBVIOUS
<1> HIDE DEF new
<1>3. ASSUME NEW s \in Requests \ {r}, AboutToHold(s)
      PROVE  req[s].org # req[r].org
  <2>1. req[r].hosts = {req[r].org} /\ req[s].hosts = {req[s].org}
    BY <1>1, <1>3 DEF HoldInv, HoldsAsked, HoldAsked, AboutToHold
  <2>2. req[r].hosts \cap req[s].hosts = {}
    BY <1>0, <1>1, <1>3, LocksApart DEF AboutToHold
  <2> QED
    BY <2>1, <2>2
<1> QED
  BY <1>0, <1>1, <1>2, <1>3 DEF TypeOK

(* Only a check that found the time offered and room for a hold is followed *)
(* by the writing of one.                                                  *)
LEMMA HoldChecked ==
  ASSUME HoldInv, NEW r \in Requests, Step(r), req'[r].pc = "write"
  PROVE  hold' = hold /\ (req[r].op = "hold" =>
             /\ ~ HeldIn(hold, req[r].org, req[r].start, req[r].at)
             /\ Cardinality(HoldsOf(hold, req[r].org, req[r].at)) < HoldCap)
<1>0. TypeOK
  BY DEF HoldInv, GuardedInv
<1>1. req[r].pc = "check"
  BY <1>0, StepTurns, TurnsReq, AfterPoints DEF GoesOn
<1>2. Check(r)
  BY <1>1 DEF Step, CancelUpdate, DeclineUpdate, TakeLock, Write, WriteBooking, WriteHold,
              WriteSeat, WriteReschedule, WriteConfirm, WriteMove, DropHold, BurnLink, Writing
<1>3. ~ End(r, "replay") /\ ~ End(r, "refused")
  BY <1>0 DEF End, Answer, TypeOK, Request
<1>4. Passes(req[r]) /\ hold' = hold
  BY <1>2, <1>3 DEF Check
<1>5. ASSUME req[r].op = "hold"
      PROVE  /\ ~ HeldIn(hold, req[r].org, req[r].start, req[r].at)
             /\ Cardinality(HoldsOf(hold, req[r].org, req[r].at)) < HoldCap
  <2>1. req[r].hosts = {req[r].org}
    BY <1>1, <1>5 DEF HoldInv, HoldsAsked, HoldAsked
  <2>2. HoldsLeft(req[r]) /\ OpenToHold(req[r].event, req[r].org, req[r].start, req[r].at)
    BY <1>4, <1>5, <2>1 DEF Passes
  <2>3. {h \in Requests : hold[h].member \in req[r].hosts /\ hold[h].release > req[r].at}
            = HoldsOf(hold, req[r].org, req[r].at)
    BY <2>1 DEF HoldsOf
  <2> QED
    BY <2>2, <2>3, HeldNow DEF HoldsLeft, OpenToHold
<1> QED
  BY <1>4, <1>5

(* A step leaves the requests of others alone, and whoever is about to     *)
(* write a hold after it was so before, or has just checked.               *)
LEMMA AboutBefore ==
  ASSUME HoldInv, [Next]_vars, NEW s \in Requests, AboutToHold(s)'
  PROVE  \/ req'[s] = req[s] /\ AboutToHold(s)
         \/ Step(s) /\ req'[s].pc = "write" /\ SameAsk(req'[s], req[s]) /\ req[s].op = "hold"
<1>0. TypeOK
  BY DEF HoldInv, GuardedInv
<1>1. ASSUME NEW r \in Requests, Enters(r)
      PROVE  req'[s] = req[s]
  BY <1>0, <1>1, EntersReq DEF Entry, AboutToHold
<1>2. ASSUME NEW r \in Requests, Crash(r)
      PROVE  req'[s] = req[s]
  <2>1. \A u \in Requests \ {r} : req'[u] = req[u]
    BY <1>0, <1>2, StepTurns, TurnsReq
  <2>2. req'[r].pc = "done"
    BY <1>0, <1>2 DEF Crash, Answer, TypeOK, Request
  <2> QED
    BY <2>1, <2>2 DEF AboutToHold
<1>3. ASSUME NEW r \in Requests, Step(r)
      PROVE  req'[s] = req[s] \/ (s = r /\ SameAsk(req'[s], req[s]))
  BY <1>0, <1>3, StepTurns, TurnsReq
<1> QED
  BY <1>0, <1>1, <1>2, <1>3, NextCases DEF AboutToHold, SameAsk, Aside

LEMMA HoldsStep ==
  ASSUME HoldInv, [Next]_vars
  PROVE  Shrinks \/ \E r \in Requests : WriteHold(r)
<1>0. TypeOK
  BY DEF HoldInv, GuardedInv
<1> QED
  BY <1>0, NextCases, HoldRows DEF Enters, Aside, Shrinks

LEMMA UnheldStep ==
  ASSUME HoldInv, [Next]_vars
  PROVE  Unheld' /\ HoldsAsked'
<1>0. TypeOK /\ now \in Nat
  BY TimesAssumption DEF HoldInv, GuardedInv, TypeOK
<1> DEFINE Early == {"idle", "lock", "check", "write"}
           Asked(q, t) == /\ q.at <= t
                          /\ q.op = "hold" /\ q.pc \in {"lock", "check", "write"}
                                => q.hosts = {q.org} /\ q.org \in Members
<1>1. \A s \in Requests : Asked(req[s], now)
  BY DEF HoldInv, HoldsAsked, HoldAsked
<1>2. \A s \in Requests : req[s].at \in Nat
  BY <1>0 DEF TypeOK, Request
<1>3. CASE Aside
  <2>1. Unheld'
    BY <1>3 DEF Aside, Unheld, HoldInv
  <2>2. \A s \in Requests : Asked(req'[s], now')
    BY <1>0, <1>1, <1>2, <1>3 DEF Aside
  <2> QED
    BY <2>1, <2>2 DEF HoldsAsked, HoldAsked
<1>4. ASSUME NEW r \in Requests, Enters(r)
      PROVE  Unheld' /\ HoldsAsked'
  <2>1. /\ \A s \in Requests \ {r} : req'[s] = req[s]
        /\ Entry(req'[r]) /\ req'[r].at \in {now, req[r].at}
    BY <1>0, <1>4, EntersReq
  <2>2. req[r].pc = "idle" /\ now' = now /\ Shrinks
    BY <1>4 DEF Enters, Shrinks
  <2>3. Unheld'
    BY <2>1, <2>2 DEF Unheld, HoldInv, Shrinks
  <2>4. Asked(req'[r], now')
    BY <1>0, <1>1, <2>1, <2>2 DEF Entry
  <2>5. \A s \in Requests : Asked(req'[s], now')
    BY <1>1, <2>1, <2>2, <2>4
  <2> QED
    BY <2>3, <2>5 DEF HoldsAsked, HoldAsked
<1>5. ASSUME NEW r \in Requests, Step(r) \/ Crash(r)
      PROVE  Unheld' /\ HoldsAsked'
  <2>1. /\ \A s \in Requests \ {r} : req'[s] = req[s]
        /\ SameAsk(req'[r], req[r]) /\ GoesOn(req[r], req'[r].pc, req'[r].ans)
    BY <1>0, <1>5, StepTurns, TurnsReq
  <2>2. now' = now
    BY <1>5 DEF Step, Crash, CancelUpdate, DeclineUpdate, TakeLock, Check, Write, WriteBooking,
                WriteHold, WriteSeat, WriteReschedule, WriteConfirm, WriteMove, DropHold, BurnLink
  <2>3. req'[r].pc \in Early => req[r].pc \in {"lock", "check"}
    BY <2>1, AfterPoints DEF GoesOn
  <2>4. Unheld'
    <3>1. CASE Shrinks
      BY <2>1, <2>3, <3>1 DEF Unheld, HoldInv, Shrinks
    <3>2. CASE WriteHold(r)
      <4>1. \A h \in Requests \ {r} : hold'[h] = hold[h]
        BY <3>2, HoldWritten
      <4>2. req[r].pc = "write"
        BY <3>2 DEF WriteHold, Writing
      <4> QED
        BY <2>1, <2>3, <4>1, <4>2 DEF Unheld, HoldInv
    <3> QED
      BY <1>0, <1>5, <3>1, <3>2, HoldRows
  <2>5. req'[r].pc \in {"lock", "check", "write"} => req[r].pc \in {"lock", "check"}
    BY <2>1, AfterPoints DEF GoesOn
  <2>6. Asked(req'[r], now')
    BY <1>1, <2>1, <2>2, <2>5 DEF SameAsk
  <2>7. \A s \in Requests : Asked(req'[s], now')
    BY <1>1, <2>1, <2>2, <2>6
  <2> QED
    BY <2>4, <2>7 DEF HoldsAsked, HoldAsked
<1> QED
  BY <1>0, <1>3, <1>4, <1>5, NextCases

LEMMA FreeStep ==
  ASSUME HoldInv, [Next]_vars
  PROVE  HoldsFree'
<1>0. TypeOK
  BY DEF HoldInv, GuardedInv
<1>1. ASSUME NEW s \in Requests, AboutToHold(s)'
      PROVE  ~ HeldIn(hold', req'[s].org, req'[s].start, req'[s].at)
  <2>1. CASE req'[s] = req[s] /\ AboutToHold(s)
    <3>1. ~ HeldIn(hold, req[s].org, req[s].start, req[s].at)
      BY <2>1, HeldNow DEF HoldInv, HoldsFree
    <3>2. req[s].org # None
      BY <2>1, NamesAssumption DEF HoldInv, HoldsAsked, HoldAsked, AboutToHold
    <3>3. CASE Shrinks
      BY <2>1, <3>1, <3>2, <3>3 DEF HeldIn, Shrinks, NoHold
    <3>4. ASSUME NEW r \in Requests, WriteHold(r)
          PROVE  ~ HeldIn(hold', req'[s].org, req'[s].start, req'[s].at)
      <4>1. s # r
        <5>1. SameAsk(req'[r], req[r]) /\ req'[r].pc # "write"
          BY <1>0, <3>4, StepTurns, TurnsReq, AfterPoints DEF GoesOn, Step, Write, WriteHold, Writing
        <5> QED
          BY <1>1, <5>1 DEF AboutToHold
      <4>2. /\ \A h \in Requests \ {r} : hold'[h] = hold[h]
            /\ hold'[r].member = req[r].org /\ req[s].org # req[r].org
        BY <2>1, <3>4, <4>1, HoldWritten
      <4> QED
        BY <2>1, <3>1, <4>2 DEF HeldIn
    <3> QED
      BY <3>3, <3>4, HoldsStep
  <2>2. CASE Step(s) /\ req'[s].pc = "write" /\ SameAsk(req'[s], req[s]) /\ req[s].op = "hold"
    <3>1. hold' = hold /\ ~ HeldIn(hold, req[s].org, req[s].start, req[s].at)
      BY <2>2, HoldChecked
    <3> QED
      BY <2>2, <3>1 DEF SameAsk
  <2> QED
    BY <1>1, <2>1, <2>2, AboutBefore
<1>2. ASSUME NEW s \in Requests, AboutToHold(s)'
      PROVE  ~ MemberHeld(req[s].org, req[s].start, req[s].at, None)'
  BY <1>1, <1>2, NamesAssumption DEF MemberHeld, HeldIn, Ids
<1> QED
  BY <1>2 DEF HoldsFree

LEMMA ClockOn ==
  ASSUME TypeOK, [Next]_vars
  PROVE  now' \in {now, now + 1}
<1>1. ASSUME NEW r \in Requests, Enters(r)
      PROVE  now' = now
  BY <1>1 DEF Enters
<1>2. ASSUME NEW r \in Requests, Step(r)
      PROVE  now' = now
  <2>1. CASE Write(r)
    BY <2>1 DEF Write, WriteBooking, WriteHold, WriteSeat, WriteReschedule, WriteConfirm,
       WriteMove
  <2>2. CASE ~ Write(r)
    BY <1>2, <2>2 DEF Step, CancelUpdate, DeclineUpdate, TakeLock, Check, DropHold, BurnLink
  <2> QED
    BY <2>1, <2>2
<1>3. ASSUME NEW r \in Requests, Crash(r)
      PROVE  now' = now
  BY <1>3 DEF Crash
<1>4. CASE Aside
  BY <1>4 DEF Aside
<1> QED
  BY <1>1, <1>2, <1>3, <1>4, NextCases

LEMMA ExclusiveStep ==
  ASSUME HoldInv, [Next]_vars
  PROVE  HoldsExclusive'
<1>0. TypeOK /\ now \in Nat /\ \A h \in Requests : hold[h].release \in Nat
  BY TimesAssumption DEF HoldInv, GuardedInv, TypeOK, Hold
<1>1. now' \in {now, now + 1}
  BY <1>0, ClockOn
<1>2. CASE Shrinks
  <2> SUFFICES ASSUME NEW g \in Requests, NEW h \in Requests, g # h,
                      hold'[g].member # None, hold'[g].member = hold'[h].member,
                      hold'[g].release > now', hold'[h].release > now'
               PROVE  ~ Overlap(hold'[g].start, hold'[h].start)
    BY DEF HoldsExclusive
  <2>1. hold'[g] = hold[g] /\ hold'[h] = hold[h]
    BY <1>2 DEF Shrinks, NoHold
  <2>2. hold[g].release > now /\ hold[h].release > now
    BY <1>0, <1>1, <2>1
  <2> QED
    BY <2>1, <2>2 DEF HoldInv, HoldsExclusive
<1>3. ASSUME NEW r \in Requests, WriteHold(r)
      PROVE  HoldsExclusive'
  <2>1. /\ \A h \in Requests \ {r} : hold'[h] = hold[h]
        /\ hold'[r].member = req[r].org /\ hold'[r].start = req[r].start
        /\ AboutToHold(r) /\ now' = now
    BY <1>3, HoldWritten
  <2>2. ~ HeldIn(hold, req[r].org, req[r].start, req[r].at)
    BY <2>1, HeldNow DEF HoldInv, HoldsFree
  <2>3. req[r].at <= now /\ req[r].at \in Nat
    BY <1>0 DEF HoldInv, HoldsAsked, HoldAsked, TypeOK, Request
  <2>4. ASSUME NEW h \in Requests \ {r}, hold'[h].member = req[r].org, hold'[h].release > now'
        PROVE  ~ Overlap(hold[h].start, req[r].start)
    BY <1>0, <2>1, <2>2, <2>3, <2>4 DEF HeldIn
  <2> SUFFICES ASSUME NEW g \in Requests, NEW h \in Requests, g # h,
                      hold'[g].member # None, hold'[g].member = hold'[h].member,
                      hold'[g].release > now', hold'[h].release > now'
               PROVE  ~ Overlap(hold'[g].start, hold'[h].start)
    BY DEF HoldsExclusive
  <2>5. CASE g = r
    BY <2>1, <2>4, <2>5 DEF Overlap
  <2>6. CASE h = r
    BY <2>1, <2>4, <2>6 DEF Overlap
  <2>7. CASE g # r /\ h # r
    BY <2>1, <2>7 DEF HoldInv, HoldsExclusive
  <2> QED
    BY <2>5, <2>6, <2>7
<1> QED
  BY <1>2, <1>3, HoldsStep

LEMMA InitHolds ==
  ASSUME Init
  PROVE  HoldInv
<1>1. /\ \A r \in Requests : req[r] = Idle /\ hold[r] = NoHold
      /\ now = 0
  BY DEF Init
<1>2. Unheld /\ HoldsAsked /\ HoldsFree
  BY <1>1 DEF Unheld, HoldsAsked, HoldAsked, HoldsFree, AboutToHold, Idle
<1>3. HoldsExclusive
  BY <1>1 DEF HoldsExclusive, NoHold
<1> QED
  BY <1>2, <1>3, InitGuarded DEF HoldInv

LEMMA NextHolds ==
  ASSUME HoldInv, [Next]_vars
  PROVE  HoldInv'
  BY UnheldStep, FreeStep, ExclusiveStep, NextGuarded DEF HoldInv

(* No two visitors hold overlapping times of one member, though each saw   *)
(* the time offered, whatever sweeps, releases and deaths come between.    *)
THEOREM HoldsApart == Spec => []HoldsExclusive
<1>1. Init => HoldInv
  BY InitHolds
<1>2. HoldInv /\ [Next]_vars => HoldInv'
  BY NextHolds
<1>3. HoldInv => HoldsExclusive
  BY DEF HoldInv
<1> QED
  BY <1>1, <1>2, <1>3, PTL DEF Spec

(* The holds of a member shrink unless one is written, and then by one. *)
LEMMA HoldsShrink ==
  ASSUME Shrinks, NEW m \in Members, NEW t
  PROVE  HoldsOf(hold', m, t) \subseteq HoldsOf(hold, m, t)
  BY NamesAssumption DEF Shrinks, HoldsOf, NoHold

LEMMA FewerHolds ==
  ASSUME IsFiniteSet(Requests), NEW m, NEW n, NEW t, NEW u, NEW hd, NEW he, NEW k \in Nat,
         HoldsOf(he, n, u) \subseteq HoldsOf(hd, m, t)
  PROVE  /\ Cardinality(HoldsOf(hd, m, t)) < k => Cardinality(HoldsOf(he, n, u)) < k
         /\ Cardinality(HoldsOf(hd, m, t)) <= k => Cardinality(HoldsOf(he, n, u)) <= k
<1>1. HoldsOf(hd, m, t) \subseteq Requests
  BY DEF HoldsOf
<1>2. IsFiniteSet(HoldsOf(hd, m, t))
  BY <1>1, FS_Subset
<1>3. /\ Cardinality(HoldsOf(he, n, u)) <= Cardinality(HoldsOf(hd, m, t))
      /\ IsFiniteSet(HoldsOf(he, n, u))
  BY <1>2, FS_Subset
<1>4. Cardinality(HoldsOf(he, n, u)) \in Nat /\ Cardinality(HoldsOf(hd, m, t)) \in Nat
  BY <1>2, <1>3, FS_CardinalityType
<1> QED
  BY <1>3, <1>4

LEMMA RoomStep ==
  ASSUME CapInv, [Next]_vars, IsFiniteSet(Requests)
  PROVE  RoomLeft'
<1>0. TypeOK /\ HoldInv /\ HoldCap \in Nat
  BY TimesAssumption DEF CapInv, HoldInv, GuardedInv
<1>1. ASSUME NEW s \in Requests, AboutToHold(s)'
      PROVE  Cardinality(HoldsOf(hold', req'[s].org, req'[s].at)) < HoldCap
  <2>1. CASE req'[s] = req[s] /\ AboutToHold(s)
    <3>1. Cardinality(HoldsOf(hold, req[s].org, req[s].at)) < HoldCap
      BY <2>1 DEF CapInv, RoomLeft
    <3>2. req[s].org \in Members
      BY <2>1 DEF CapInv, HoldInv, HoldsAsked, HoldAsked, AboutToHold
    <3>3. HoldsOf(hold', req[s].org, req[s].at) \subseteq HoldsOf(hold, req[s].org, req[s].at)
      <4>1. CASE Shrinks
        BY <3>2, <4>1, HoldsShrink
      <4>2. ASSUME NEW r \in Requests, WriteHold(r)
            PROVE  HoldsOf(hold', req[s].org, req[s].at) \subseteq HoldsOf(hold, req[s].org, req[s].at)
        <5>1. s # r
          <6>1. req'[r].pc # "write"
            BY <1>0, <4>2, StepTurns, TurnsReq, AfterPoints DEF GoesOn, Step, Write, WriteHold, Writing
          <6> QED
            BY <1>1, <6>1 DEF AboutToHold
        <5>2. /\ \A h \in Requests \ {r} : hold'[h] = hold[h]
              /\ hold'[r].member = req[r].org /\ req[s].org # req[r].org
          BY <1>0, <2>1, <4>2, <5>1, HoldWritten
        <5> QED
          BY <5>2 DEF HoldsOf
      <4> QED
        BY <1>0, <4>1, <4>2, HoldsStep
    <3> QED
      BY <1>0, <2>1, <3>1, <3>3, FewerHolds
  <2>2. CASE Step(s) /\ req'[s].pc = "write" /\ SameAsk(req'[s], req[s]) /\ req[s].op = "hold"
    <3>1. hold' = hold /\ Cardinality(HoldsOf(hold, req[s].org, req[s].at)) < HoldCap
      BY <1>0, <2>2, HoldChecked
    <3> QED
      BY <2>2, <3>1 DEF SameAsk
  <2> QED
    BY <1>0, <1>1, <2>1, <2>2, AboutBefore
<1> QED
  BY <1>1 DEF RoomLeft

LEMMA CapStep ==
  ASSUME CapInv, [Next]_vars, IsFiniteSet(Requests)
  PROVE  HoldsWithinCap'
<1>0. TypeOK /\ HoldInv /\ HoldCap \in Nat /\ now \in Nat
      /\ \A h \in Requests : hold[h].release \in Nat
  BY TimesAssumption DEF CapInv, HoldInv, GuardedInv, TypeOK, Hold
<1>1. \A m \in Members : Cardinality(HoldsOf(hold, m, now)) <= HoldCap
  BY DEF CapInv, HoldsWithinCap, HoldsOf
<1>2. now' \in {now, now + 1}
  BY <1>0, NextCases DEF Enters, Aside, Step, Crash, CancelUpdate, DeclineUpdate, TakeLock, Check,
       Write, WriteBooking, WriteHold, WriteSeat, WriteReschedule, WriteConfirm, WriteMove,
       DropHold, BurnLink
<1>3. ASSUME NEW m \in Members, Shrinks
      PROVE  Cardinality(HoldsOf(hold', m, now')) <= HoldCap
  <2>1. HoldsOf(hold', m, now') \subseteq HoldsOf(hold, m, now)
    BY <1>0, <1>2, <1>3, NamesAssumption DEF Shrinks, HoldsOf, NoHold
  <2> QED
    BY <1>0, <1>1, <2>1, FewerHolds
<1>4. ASSUME NEW m \in Members, NEW r \in Requests, WriteHold(r)
      PROVE  Cardinality(HoldsOf(hold', m, now')) <= HoldCap
  <2>1. /\ \A h \in Requests \ {r} : hold'[h] = hold[h]
        /\ hold'[r].member = req[r].org
        /\ AboutToHold(r) /\ now' = now
    BY <1>0, <1>4, HoldWritten
  <2>2. CASE m # req[r].org
    <3>1. HoldsOf(hold', m, now') \subseteq HoldsOf(hold, m, now)
      BY <2>1, <2>2 DEF HoldsOf
    <3> QED
      BY <1>0, <1>1, <3>1, FewerHolds
  <2>3. CASE m = req[r].org
    <3> DEFINE old == HoldsOf(hold, m, req[r].at)
               new == HoldsOf(hold', m, now')
    <3>1. Cardinality(old) < HoldCap
      BY <2>1, <2>3 DEF CapInv, RoomLeft
    <3>2. req[r].at <= now /\ req[r].at \in Nat
      BY <1>0 DEF HoldInv, HoldsAsked, HoldAsked, TypeOK, Request
    <3>3. new \subseteq old \cup {r}
      BY <1>0, <2>1, <3>2 DEF HoldsOf
    <3>4. old \subseteq Requests
      BY DEF HoldsOf
    <3> HIDE DEF old, new
    <3>5. IsFiniteSet(old)
      BY <3>4, FS_Subset
    <3>10. Cardinality(old) \in Nat
      BY <3>5, FS_CardinalityType
    <3>11. /\ IsFiniteSet(old \cup {r})
           /\ Cardinality(old \cup {r}) = IF r \in old THEN Cardinality(old) ELSE Cardinality(old) + 1
      BY <3>5, FS_AddElement
    <3>6. /\ IsFiniteSet(old \cup {r}) /\ Cardinality(old) \in Nat
          /\ Cardinality(old \cup {r}) <= Cardinality(old) + 1
      BY <3>10, <3>11
    <3>7. Cardinality(new) <= Cardinality(old \cup {r}) /\ IsFiniteSet(new)
      BY <3>3, <3>6, FS_Subset
    <3>8. Cardinality(new) \in Nat /\ Cardinality(old \cup {r}) \in Nat
      BY <3>6, <3>7, FS_CardinalityType
    <3>9. Cardinality(new) <= HoldCap
      BY <1>0, <3>1, <3>6, <3>7, <3>8
    <3> QED
      BY <3>9 DEF new
  <2> QED
    BY <2>2, <2>3
<1>5. \A m \in Members : Cardinality(HoldsOf(hold', m, now')) <= HoldCap
  BY <1>0, <1>3, <1>4, HoldsStep
<1> QED
  BY <1>5 DEF HoldsWithinCap, HoldsOf

(* A member's unexpired holds stay within the cap, however many requests    *)
(* (finitely many) place them at once.                                     *)
THEOREM HoldsCapped == ASSUME IsFiniteSet(Requests) PROVE Spec => []HoldsWithinCap
<1>1. Init => CapInv
  <2> SUFFICES ASSUME Init PROVE CapInv
    OBVIOUS
  <2>1. \A r \in Requests : req[r] = Idle /\ hold[r] = NoHold
    BY DEF Init
  <2>2. RoomLeft
    BY <2>1 DEF RoomLeft, AboutToHold, Idle
  <2>3. \A m \in Members : {h \in Requests : hold[h].member = m /\ hold[h].release > now} = {}
    BY <2>1, NamesAssumption DEF NoHold
  <2>4. HoldsWithinCap
    BY <2>3, FS_EmptySet, TimesAssumption DEF HoldsWithinCap
  <2> QED
    BY <2>2, <2>4, InitHolds DEF CapInv
<1>2. CapInv /\ [Next]_vars => CapInv'
  BY RoomStep, CapStep, NextHolds DEF CapInv
<1>3. CapInv => HoldsWithinCap
  BY DEF CapInv
<1> QED
  BY <1>1, <1>2, <1>3, PTL DEF Spec

-----------------------------------------------------------------------------
(* Endings: what each step does to the rows. *)

OthersStay(b) == \A c \in Ids \ {b} : booking'[c] = booking[c]

KeepsPlan(b) ==
    /\ booking'[b].event = booking[b].event /\ booking'[b].hosts = booking[b].hosts
    /\ booking'[b].to = booking[b].to

KeepsPeople(b) == booking'[b].people = booking[b].people

EndOps == {"cancel", "decline", "move"}

(* No row changes, and nobody is told anew that a booking ended. *)
Stays(r) ==
    booking' = booking /\ (req'[r].ans = "ok" => req[r].ans = "ok" \/ req[r].op \notin EndOps)

Drops(r) ==
    LET b == req[r].target IN
    /\ req[r].pc = "update" /\ req[r].op \in {"cancel", "decline"}
    /\ b \in Ids /\ Live(b) /\ ~ RowLocked(b)
    /\ req[r].op = "decline" => booking[b].status = "pending"
    /\ booking'[b].status = IF req[r].op = "decline" THEN "rejected" ELSE "cancelled"
    /\ KeepsPlan(b) /\ KeepsPeople(b) /\ booking'[b].start = booking[b].start /\ OthersStay(b)

(* People join a booking that stands. *)
Joins(b) ==
    /\ b \in Ids /\ Live(b)
    /\ booking'[b].status = booking[b].status
    /\ KeepsPlan(b) /\ booking'[b].start = booking[b].start /\ OthersStay(b)

Shifts(r) ==
    LET b == req[r].target IN
    /\ req[r].op = "reschedule" /\ req[r].pc = "write"
    /\ b \in Ids /\ booking[b].status = "accepted" /\ booking'[b].status = "accepted"
    /\ booking'[b].start = req[r].start
    /\ KeepsPlan(b) /\ KeepsPeople(b) /\ OthersStay(b)

Agrees(r) ==
    LET b == req[r].target IN
    /\ req[r].op = "confirm"
    /\ b \in Ids /\ booking[b].status = "pending" /\ booking'[b].status = "accepted"
    /\ KeepsPlan(b) /\ KeepsPeople(b) /\ booking'[b].start = booking[b].start /\ OthersStay(b)

Opens(r) ==
    /\ req[r].op \in PlaceOps /\ req[r].pc = "write"
    /\ booking[r].status = "absent" /\ booking'[r].status \in {"accepted", "pending"}
    /\ booking'[r].event = req[r].event /\ booking'[r].hosts = req[r].hosts
    /\ booking'[r].start = req[r].start /\ booking'[r].to = None
    /\ booking'[r].people = req[r].who /\ OthersStay(r)

Replaced(r) ==
    LET b == req[r].target IN
    /\ req[r].op = "move" /\ req[r].pc = "write"
    /\ b \in Ids \ {r} /\ Live(b) /\ booking[r].status = "absent"
    /\ \A c \in Ids \ {b, r} : booking'[c] = booking[c]
    /\ booking'[b].status = "cancelled" /\ booking'[b].to = r
    /\ booking'[b].event = booking[b].event /\ booking'[b].hosts = booking[b].hosts
    /\ booking'[b].start = booking[b].start
    /\ booking'[r].status = req[r].seen /\ booking'[r].to = booking[b].to
    /\ booking'[r].event = booking[b].event /\ booking'[r].hosts = booking[b].hosts
    /\ booking'[r].start = req[r].start /\ booking'[r].people = booking[b].people
    /\ KeepsPeople(b)

RowsTurn(r) ==
    \/ Stays(r)
    \/ Drops(r)
    \/ Joins(req[r].target) /\ req[r].op = "seat"
    \/ Shifts(r)
    \/ Agrees(r)
    \/ Opens(r)
    \/ Replaced(r)

LEMMA TurnedDown ==
  ASSUME TypeOK, NEW r \in Requests, End(r, "replay") \/ End(r, "refused")
  PROVE  req'[r].ans # "ok"
  BY DEF End, Answer, TypeOK, Request

LEMMA UpdateRows ==
  ASSUME EndInv, NEW r \in Requests, CancelUpdate(r) \/ DeclineUpdate(r)
  PROVE  RowsTurn(r)
<1>0. TypeOK /\ req[r].pc = "update" /\ req[r].target \in Ids
  BY DEF EndInv, GuardedInv, Wanted, CancelUpdate, DeclineUpdate
<1>1. CASE CancelUpdate(r)
  <2>1. CASE Live(req[r].target)
    <3>1. booking' = [booking EXCEPT ![req[r].target].status = "cancelled"]
      BY <1>1, <2>1 DEF CancelUpdate
    <3>2. req[r].op = "cancel" /\ ~ RowLocked(req[r].target)
      BY <1>1 DEF CancelUpdate, MayWriteRow
    <3>4. /\ \A c \in Ids \ {req[r].target} : booking'[c] = booking[c]
          /\ booking'[req[r].target].status = "cancelled"
          /\ booking'[req[r].target].event = booking[req[r].target].event
          /\ booking'[req[r].target].hosts = booking[req[r].target].hosts
          /\ booking'[req[r].target].start = booking[req[r].target].start
          /\ booking'[req[r].target].to = booking[req[r].target].to
          /\ booking'[req[r].target].people = booking[req[r].target].people
      BY <1>0, <3>1, StatusRow
    <3>3. Drops(r)
      BY <1>0, <2>1, <3>2, <3>4 DEF Drops, KeepsPlan, KeepsPeople, OthersStay
    <3> QED
      BY <3>3 DEF RowsTurn
  <2>2. CASE ~ Live(req[r].target)
    <3>1. booking' = booking /\ (Answer(r, "replay") \/ Answer(r, "refused"))
      BY <1>1, <2>2 DEF CancelUpdate
    <3>2. req'[r].ans # "ok"
      BY <1>0, <3>1 DEF Answer, TypeOK, Request
    <3> QED
      BY <3>1, <3>2 DEF RowsTurn, Stays
  <2> QED
    BY <2>1, <2>2
<1>2. CASE DeclineUpdate(r)
  <2>1. CASE StillPending(req[r].target)
    <3>1. booking' = [booking EXCEPT ![req[r].target].status = "rejected"]
      BY <1>2, <2>1 DEF DeclineUpdate
    <3>2. req[r].op = "decline" /\ ~ RowLocked(req[r].target) /\ Live(req[r].target)
          /\ booking[req[r].target].status = "pending"
      BY <1>2, <2>1 DEF DeclineUpdate, MayWriteRow, StillPending, Live
    <3>4. /\ \A c \in Ids \ {req[r].target} : booking'[c] = booking[c]
          /\ booking'[req[r].target].status = "rejected"
          /\ booking'[req[r].target].event = booking[req[r].target].event
          /\ booking'[req[r].target].hosts = booking[req[r].target].hosts
          /\ booking'[req[r].target].start = booking[req[r].target].start
          /\ booking'[req[r].target].to = booking[req[r].target].to
          /\ booking'[req[r].target].people = booking[req[r].target].people
      BY <1>0, <3>1, StatusRow
    <3>3. Drops(r)
      BY <1>0, <3>2, <3>4 DEF Drops, KeepsPlan, KeepsPeople, OthersStay
    <3> QED
      BY <3>3 DEF RowsTurn
  <2>2. CASE ~ StillPending(req[r].target)
    <3>1. booking' = booking /\ Answer(r, "refused")
      BY <1>2, <2>2 DEF DeclineUpdate
    <3>2. req'[r].ans # "ok"
      BY <1>0, <3>1 DEF Answer, TypeOK, Request
    <3> QED
      BY <3>1, <3>2 DEF RowsTurn, Stays
  <2> QED
    BY <2>1, <2>2
<1> QED
  BY <1>1, <1>2

LEMMA SeatRows ==
  ASSUME EndInv, NEW r \in Requests, WriteSeat(r)
  PROVE  RowsTurn(r)
<1>1. TypeOK /\ req[r].pc = "write" /\ req[r].op = "seat"
  BY DEF EndInv, GuardedInv, WriteSeat, Writing
<1>2. req[r].target \in Ids /\ Live(req[r].target)
  BY <1>1 DEF EndInv, Wanted, Wants, TargetsLive
<1>3. booking' = [booking EXCEPT ![req[r].target].people = @ \cup req[r].who]
  BY DEF WriteSeat
<1>4. Joins(req[r].target)
  BY <1>1, <1>2, <1>3, PeopleRow DEF Joins, KeepsPlan, OthersStay
<1> QED
  BY <1>1, <1>4 DEF RowsTurn

LEMMA RescheduleRows ==
  ASSUME EndInv, NEW r \in Requests, WriteReschedule(r)
  PROVE  RowsTurn(r)
<1>1. TypeOK /\ req[r].pc = "write" /\ req[r].op = "reschedule"
  BY DEF EndInv, GuardedInv, WriteReschedule, Writing
<1>2. req[r].target \in Ids
  BY <1>1 DEF EndInv, GuardedInv, TargetsKept, MoveOps
<1> DEFINE k == IF req[r].key # None THEN req[r].key ELSE req[r].seenKey
<1>3. CASE UNCHANGED booking
  BY <1>1, <1>3 DEF RowsTurn, Stays, EndOps
<1>4. CASE booking' # booking
  <2>1. /\ StillAccepted(req[r].target)
        /\ booking' = [booking EXCEPT ![req[r].target].start = req[r].start,
                                      ![req[r].target].moveKey = k]
    BY <1>4 DEF WriteReschedule
  <2> HIDE DEF k
  <2>2. Shifts(r)
    BY <1>1, <1>2, <2>1, MovedRow DEF Shifts, StillAccepted, KeepsPlan, KeepsPeople, OthersStay
  <2> QED
    BY <2>2 DEF RowsTurn
<1> QED
  BY <1>3, <1>4

LEMMA ConfirmRows ==
  ASSUME EndInv, NEW r \in Requests, WriteConfirm(r)
  PROVE  RowsTurn(r)
<1>1. TypeOK /\ req[r].op = "confirm"
  BY DEF EndInv, GuardedInv, WriteConfirm, Writing
<1>2. CASE UNCHANGED booking
  BY <1>1, <1>2 DEF RowsTurn, Stays, EndOps
<1>3. CASE booking' # booking
  <2>1. /\ StillPending(req[r].target)
        /\ booking' = [booking EXCEPT ![req[r].target].status = "accepted"]
    BY <1>3 DEF WriteConfirm
  <2>2. req[r].target \in Ids
    BY <1>1, <1>3, <2>1 DEF TypeOK
  <2>3. Agrees(r)
    BY <1>1, <2>1, <2>2, StatusRow DEF Agrees, StillPending, KeepsPlan, KeepsPeople, OthersStay
  <2> QED
    BY <2>3 DEF RowsTurn
<1> QED
  BY <1>2, <1>3

LEMMA BookingRows ==
  ASSUME EndInv, NEW r \in Requests, WriteBooking(r)
  PROVE  RowsTurn(r)
<1>0. TypeOK /\ r \in Ids
  BY DEF EndInv, GuardedInv, Ids
<1> DEFINE q == req[r]
           refused == KeyConflict(q.key) \/ Excluded(q.org, q.start, None)
           row == [status |-> IF q.event # None /\ q.event.gated /\ q.op = "book"
                              THEN "pending" ELSE "accepted",
                   event |-> q.event, org |-> q.org, hosts |-> q.hosts, start |-> q.start,
                   people |-> q.who, key |-> q.key, moveKey |-> None, to |-> None]
<1>1. /\ q.pc = "write" /\ q.op \in PlaceOps
      /\ IF refused
         THEN End(r, IF q.op = "hostEvent" /\ KeyTaken(q.key) THEN "replay" ELSE "refused")
         ELSE Commit(r)
      /\ booking' = IF refused THEN booking ELSE [booking EXCEPT ![r] = row]
  BY DEF WriteBooking, Writing, PlaceOps
<1>2. CASE refused
  <2>1. booking' = booking /\ (End(r, "replay") \/ End(r, "refused"))
    BY <1>1, <1>2
  <2> QED
    BY <1>0, <2>1, TurnedDown DEF RowsTurn, Stays
<1>3. CASE ~ refused
  <2>1. booking' = [booking EXCEPT ![r] = row]
    BY <1>1, <1>3
  <2>2. /\ row.status \in {"accepted", "pending"} /\ row.event = q.event /\ row.hosts = q.hosts
        /\ row.start = q.start /\ row.to = None /\ row.people = q.who
    OBVIOUS
  <2> HIDE DEF row
  <2>3. booking'[r] = row /\ OthersStay(r)
    BY <1>0, <2>1, RowSet DEF OthersStay
  <2>4. booking[r].status = "absent"
    BY <1>1 DEF EndInv, GuardedInv, RowsUnwritten
  <2>5. Opens(r)
    BY <1>1, <2>2, <2>3, <2>4 DEF Opens
  <2> QED
    BY <2>5 DEF RowsTurn
<1> QED
  BY <1>2, <1>3

LEMMA MoveRows ==
  ASSUME EndInv, NEW r \in Requests, WriteMove(r)
  PROVE  RowsTurn(r)
<1>0. TypeOK /\ r \in Ids
  BY DEF EndInv, GuardedInv, Ids
<1> DEFINE q == req[r]
           b == q.target
           refused == KeyConflict(q.key) \/ Excluded(q.org, q.start, b)
<1>1. /\ q.pc = "write" /\ q.op = "move"
      /\ IF refused THEN End(r, IF KeyTaken(q.key) THEN "replay" ELSE "refused") ELSE Commit(r)
      /\ booking' =
           IF refused THEN booking
           ELSE [booking EXCEPT ![b].status = "cancelled", ![b].to = r,
                                ![r] = [booking[b] EXCEPT !.status = q.seen, !.start = q.start,
                                                          !.key = q.key,
                                                          !.moveKey = q.seenKey]]
  BY DEF WriteMove, Writing
<1>2. CASE refused
  <2>1. booking' = booking /\ (End(r, "replay") \/ End(r, "refused"))
    BY <1>1, <1>2
  <2> QED
    BY <1>0, <2>1, TurnedDown DEF RowsTurn, Stays
<1>3. CASE ~ refused
  <2>1. Replaces(r, b, q.seen, q.start, q.key, q.seenKey)
    BY <1>1, <1>3 DEF Replaces
  <2>2. Live(b)
    BY <1>1 DEF EndInv, TargetsLive
  <2>3. b \in Ids /\ booking[r].status = "absent"
    BY <1>1 DEF EndInv, GuardedInv, TargetsKept, RowsUnwritten, MoveOps
  <2>4. b \in Ids \ {r}
    BY <2>2, <2>3 DEF Live
  <2>5. /\ \A c \in Ids \ {b, r} : booking'[c] = booking[c]
        /\ booking'[b].status = "cancelled" /\ booking'[b].event = booking[b].event
        /\ booking'[b].hosts = booking[b].hosts /\ booking'[b].start = booking[b].start
        /\ booking'[b].to = r
        /\ booking'[r].status = q.seen /\ booking'[r].event = booking[b].event
        /\ booking'[r].hosts = booking[b].hosts /\ booking'[r].start = q.start
        /\ booking'[r].to = booking[b].to
        /\ booking'[b].people = booking[b].people /\ booking'[r].people = booking[b].people
    BY <1>0, <2>1, <2>4, ReplacedRows
  <2>6. Replaced(r)
    BY <1>1, <2>2, <2>3, <2>4, <2>5 DEF Replaced, KeepsPeople
  <2> QED
    BY <2>6 DEF RowsTurn
<1> QED
  BY <1>2, <1>3

LEMMA StepRows ==
  ASSUME EndInv, NEW r \in Requests, Step(r) \/ Crash(r)
  PROVE  RowsTurn(r)
<1>0. TypeOK
  BY DEF EndInv, GuardedInv
<1>1. CASE TakeLock(r) \/ Check(r) \/ DropHold(r) \/ BurnLink(r)
  <2>1. booking' = booking /\ req[r].pc \in {"lock", "check", "unhold", "burn"}
    BY <1>1 DEF TakeLock, Check, DropHold, BurnLink
  <2>2. GoesOn(req[r], req'[r].pc, req'[r].ans)
    BY <1>0, StepTurns, TurnsReq
  <2>3. req'[r].ans = "ok" => req[r].ans = "ok"
    BY <2>1, <2>2 DEF GoesOn
  <2> QED
    BY <2>1, <2>3 DEF RowsTurn, Stays
<1>2. CASE WriteHold(r)
  BY <1>2 DEF WriteHold, Writing, RowsTurn, Stays, EndOps
<1>3. CASE Crash(r)
  <2>1. booking' = booking /\ req'[r].ans = "crashed"
    BY <1>0, <1>3, CrashTurns DEF Crash
  <2> QED
    BY <2>1 DEF RowsTurn, Stays
<1> QED
  BY <1>1, <1>2, <1>3, UpdateRows, SeatRows, RescheduleRows, ConfirmRows, BookingRows, MoveRows
     DEF Step, Write

-----------------------------------------------------------------------------
(* Endings: the invariant. *)

(* How the rows may change in a step: by one request, or by guests who join. *)
RowsMay ==
    \/ booking' = booking
    \/ \E b \in Ids : Joins(b)
    \/ \E r \in Requests : Drops(r) \/ Shifts(r) \/ Agrees(r) \/ Opens(r) \/ Replaced(r)

LEMMA EntersRows ==
  ASSUME TypeOK, NEW r \in Requests, Enters(r)
  PROVE  booking' = booking \/ \E b \in Ids : Joins(b)
<1>1. CASE booking' # booking
  <2>3. PICK b \in Ids : \E who : Live(b) /\ booking' = [booking EXCEPT ![b].people = @ \cup who]
    BY <1>1 DEF Enters
  <2>1. PICK who : Live(b) /\ booking' = [booking EXCEPT ![b].people = @ \cup who]
    BY <2>3
  <2>2. Joins(b)
    BY <2>1, PeopleRow DEF Joins, KeepsPlan, OthersStay
  <2> QED
    BY <2>2
<1> QED
  BY <1>1

LEMMA NextRows ==
  ASSUME EndInv, [Next]_vars
  PROVE  RowsMay
<1>0. TypeOK
  BY DEF EndInv, GuardedInv
<1>1. ASSUME NEW r \in Requests, Step(r) \/ Crash(r)
      PROVE  RowsMay
  <2>1. RowsTurn(r)
    BY <1>1, StepRows
  <2> QED
    BY <2>1 DEF RowsTurn, RowsMay, Stays, Joins
<1> QED
  BY <1>0, <1>1, NextCases, EntersRows DEF RowsMay, Aside

(* A row that is there keeps its event and its hosts. *)
LEMMA PlansKept ==
  ASSUME RowsMay, NEW b \in Ids, booking[b].status # "absent",
         \A r \in Requests : req[r].op = "move" => req[r].seen # "absent" \/ req[r].pc # "write"
  PROVE  /\ booking'[b].status # "absent"
         /\ booking'[b].event = booking[b].event /\ booking'[b].hosts = booking[b].hosts
<1>1. ASSUME NEW c \in Ids, Joins(c)
      PROVE  /\ booking'[b].status # "absent"
             /\ booking'[b].event = booking[b].event /\ booking'[b].hosts = booking[b].hosts
  BY <1>1 DEF Joins, KeepsPlan, OthersStay
<1>2. ASSUME NEW r \in Requests, Drops(r) \/ Shifts(r) \/ Agrees(r) \/ Opens(r)
      PROVE  /\ booking'[b].status # "absent"
             /\ booking'[b].event = booking[b].event /\ booking'[b].hosts = booking[b].hosts
  BY <1>2 DEF Drops, Shifts, Agrees, Opens, KeepsPlan, OthersStay
<1>3. ASSUME NEW r \in Requests, Replaced(r)
      PROVE  /\ booking'[b].status # "absent"
             /\ booking'[b].event = booking[b].event /\ booking'[b].hosts = booking[b].hosts
  BY <1>3 DEF Replaced
<1> QED
  BY <1>1, <1>2, <1>3 DEF RowsMay

LEMMA Kept ==
  ASSUME EndInv, [Next]_vars, NEW b \in Ids, booking[b].status # "absent"
  PROVE  /\ booking'[b].status # "absent"
         /\ booking'[b].event = booking[b].event /\ booking'[b].hosts = booking[b].hosts
<1>1. RowsMay
  BY NextRows
<1>2. ASSUME NEW r \in Requests, req[r].op = "move", req[r].pc = "write"
      PROVE  req[r].seen # "absent"
  BY <1>2 DEF EndInv, Wanted, Wants
<1> QED
  BY <1>1, <1>2, PlansKept

LEMMA HostedStep ==
  ASSUME EndInv, [Next]_vars
  PROVE  Hosted'
<1> DEFINE H(row) == /\ row.hosts # {}
                     /\ row.event # None /\ row.event.kind = "personal"
                          => row.hosts = row.event.hosts
<1>1. \A b \in Ids : booking[b].status # "absent" => H(booking[b])
  BY DEF EndInv, Hosted
<1>2. RowsMay
  BY NextRows
<1>3. ASSUME NEW b \in Ids, booking'[b].status # "absent"
      PROVE  H(booking'[b])
  <2>1. CASE booking[b].status # "absent"
    BY <1>1, <2>1, Kept
  <2>2. CASE booking[b].status = "absent"
    <3>1. ASSUME NEW r \in Requests, Opens(r), b = r
          PROVE  H(booking'[b])
      <4>1. Wants(booking, req[r]) /\ req[r].op \in PlaceOps
        BY <3>1 DEF EndInv, Wanted, Opens
      <4> QED
        BY <3>1, <4>1 DEF Wants, Opens
    <3>2. ASSUME NEW r \in Requests, Replaced(r), b = r
          PROVE  H(booking'[b])
      <4>1. req[r].target \in Ids /\ booking[req[r].target].status # "absent"
        BY <3>2 DEF Replaced, Live
      <4> QED
        BY <1>1, <3>2, <4>1 DEF Replaced
    <3>4. booking' # booking /\ booking'[b] # booking[b]
      BY <1>3, <2>2
    <3>5. \A c \in Ids : Live(c) => c # b
      BY <2>2 DEF Live
    <3>6. \A c \in Ids : ~ Joins(c)
      BY <3>4, <3>5 DEF Joins, OthersStay
    <3>7. ASSUME NEW r \in Requests
          PROVE  ~ Drops(r) /\ ~ Agrees(r) /\ ~ Shifts(r)
      <4>1. ~ Drops(r)
        BY <3>4, <3>5 DEF Drops, OthersStay
      <4>2. ~ Agrees(r)
        BY <3>4, <3>5 DEF Agrees, OthersStay, Live
      <4>3. ~ Shifts(r)
        BY <3>4, <3>5 DEF Shifts, OthersStay, Live
      <4> QED
        BY <4>1, <4>2, <4>3
    <3>8. PICK r \in Requests : Opens(r) \/ Replaced(r)
      BY <1>2, <3>4, <3>6, <3>7 DEF RowsMay
    <3>9. ASSUME Opens(r)
          PROVE  b = r
      BY <3>4, <3>9 DEF Opens, OthersStay
    <3>10. ASSUME Replaced(r)
           PROVE  b = r
      BY <3>4, <3>5, <3>10 DEF Replaced
    <3>3. \E q \in Requests : b = q /\ (Opens(q) \/ Replaced(q))
      BY <3>8, <3>9, <3>10
    <3> QED
      BY <3>1, <3>2, <3>3
  <2> QED
    BY <2>1, <2>2
<1> QED
  BY <1>3 DEF Hosted

LEMMA WantedStep ==
  ASSUME EndInv, [Next]_vars
  PROVE  Wanted'
<1>0. TypeOK
  BY DEF EndInv, GuardedInv
<1> DEFINE Past(q) == q.pc \in {"lock", "check", "write"} => Wants(booking', q)
           Upd(q) == q.pc = "update" => q.target \in Ids /\ q.op \in {"cancel", "decline"}
<1>1. ASSUME NEW q, Wants(booking, q)
      PROVE  Wants(booking', q)
  BY <1>1, Kept DEF Wants
<1>2. ASSUME NEW s \in Requests, req'[s] = req[s]
      PROVE  Past(req'[s]) /\ Upd(req'[s])
  <2>1. (req[s].pc \in {"lock", "check", "write"} => Wants(booking, req[s])) /\ Upd(req[s])
    BY DEF EndInv, Wanted
  <2> QED
    BY <1>1, <1>2, <2>1
<1>3. ASSUME NEW r \in Requests, Enters(r)
      PROVE  Past(req'[r]) /\ Upd(req'[r])
  <2>1. PICK n : n = req'[r]
    OBVIOUS
  <2>2. Entry(n)
    BY <1>0, <1>3, <2>1, EntersReq
  <2>3. ASSUME n.pc = "lock"
        PROVE  Wants(booking, n)
    <3>1. CASE n.op # "seat"
      BY <2>2, <2>3, <3>1 DEF Entry
    <3>2. CASE n.op = "seat"
      <4>1. PICK e \in Events : /\ e.kind = "personal" /\ n.hosts = e.hosts /\ n.event = e
                                /\ n.target \in Ids /\ Live(n.target)
                                /\ booking[n.target].event = e
        BY <2>2, <2>3, <3>2 DEF Entry, SeatEntry
      <4>2. booking[n.target].status # "absent" /\ e # None
        BY <4>1, NamesAssumption DEF Live
      <4>3. booking[n.target].hosts = n.hosts
        BY <4>1, <4>2 DEF EndInv, Hosted
      <4> QED
        BY <3>2, <4>1, <4>2, <4>3 DEF Wants, PlaceOps, MoveOps
    <3> QED
      BY <3>1, <3>2
  <2>4. n.pc \in {"lock", "update", "done"} /\ Upd(n)
    BY <2>2 DEF Entry
  <2> QED
    BY <1>1, <2>1, <2>3, <2>4
<1>4. ASSUME NEW r \in Requests, Step(r) \/ Crash(r)
      PROVE  Past(req'[r]) /\ Upd(req'[r])
  <2>1. PICK n : n = req'[r]
    OBVIOUS
  <2>2. SameAsk(n, req[r]) /\ GoesOn(req[r], n.pc, n.ans)
    BY <1>0, <1>4, <2>1, StepTurns, TurnsReq
  <2>3. n.pc # "update"
        /\ (n.pc \in {"lock", "check", "write"} => req[r].pc \in {"lock", "check"})
    BY <2>2, AfterPoints DEF GoesOn
  <2>4. ASSUME n.pc \in {"lock", "check", "write"}
        PROVE  Wants(booking, n)
    <3>1. Wants(booking, req[r])
      BY <2>3, <2>4 DEF EndInv, Wanted
    <3> QED
      BY <2>2, <3>1 DEF Wants, SameAsk
  <2> QED
    BY <1>1, <2>1, <2>3, <2>4
<1>5. ASSUME NEW s \in Requests
      PROVE  Past(req'[s]) /\ Upd(req'[s])
  <2>1. CASE Aside
    BY <1>2, <2>1 DEF Aside
  <2>2. ASSUME NEW r \in Requests, Enters(r)
        PROVE  Past(req'[s]) /\ Upd(req'[s])
    <3>1. s = r \/ req'[s] = req[s]
      BY <1>0, <2>2, EntersReq
    <3> QED
      BY <1>2, <1>3, <2>2, <3>1
  <2>3. ASSUME NEW r \in Requests, Step(r) \/ Crash(r)
        PROVE  Past(req'[s]) /\ Upd(req'[s])
    <3>1. s = r \/ req'[s] = req[s]
      BY <1>0, <2>3, StepTurns, TurnsReq
    <3> QED
      BY <1>2, <1>4, <2>3, <3>1
  <2> QED
    BY <1>0, <2>1, <2>2, <2>3, NextCases
<1> QED
  BY <1>5 DEF Wanted

LEMMA UnmovedStep ==
  ASSUME EndInv, [Next]_vars
  PROVE  LiveUnmoved'
<1>1. RowsMay
  BY NextRows
<1>2. \A b \in Ids : booking[b].status \in {"accepted", "pending"} => booking[b].to = None
  BY DEF EndInv, LiveUnmoved, Live
<1>3. ASSUME NEW b \in Ids, booking'[b].status \in {"accepted", "pending"}
      PROVE  booking'[b].to = None
  <2>1. ASSUME NEW c \in Ids, Joins(c)
        PROVE  booking'[b].to = None
    BY <1>2, <1>3, <2>1 DEF Joins, KeepsPlan, OthersStay
  <2>2. ASSUME NEW r \in Requests, Drops(r) \/ Shifts(r) \/ Agrees(r) \/ Opens(r)
        PROVE  booking'[b].to = None
    BY <1>2, <1>3, <2>2 DEF Drops, Shifts, Agrees, Opens, KeepsPlan, OthersStay
  <2>3. ASSUME NEW r \in Requests, Replaced(r)
        PROVE  booking'[b].to = None
    BY <1>2, <1>3, <2>3 DEF Replaced, Live
  <2> QED
    BY <1>1, <1>2, <1>3, <2>1, <2>2, <2>3 DEF RowsMay
<1> QED
  BY <1>3 DEF LiveUnmoved, Live

(* Who holds a booking's row for a seat or a move shares a member with    *)
(* every other who does.                                                  *)
LEMMA OneMover ==
  ASSUME EndInv, NEW r \in Requests, NEW s \in Requests \ {r}, req[r].pc = "write",
         req[s].pc = "write", req[r].op \in {"seat", "move"}, req[s].op \in {"seat", "move"}
  PROVE  req[r].target # req[s].target
<1> SUFFICES ASSUME req[r].target = req[s].target
             PROVE  FALSE
  OBVIOUS
<1>1. req[r].hosts \cap req[s].hosts = {}
  BY LocksApart DEF EndInv, GuardedInv
<1>2. /\ req[r].target \in Ids /\ booking[req[r].target].status # "absent"
      /\ booking[req[r].target].hosts = req[r].hosts
  BY DEF EndInv, GuardedInv, TargetsKept, MoveOps, Wanted, Wants
<1>3. booking[req[s].target].hosts = req[s].hosts
  BY DEF EndInv, GuardedInv, TargetsKept, MoveOps, Wanted, Wants
<1>4. booking[req[r].target].hosts # {}
  BY <1>2 DEF EndInv, Hosted
<1> QED
  BY <1>1, <1>2, <1>3, <1>4

LEMMA CheckedTarget ==
  ASSUME TypeOK, NEW r \in Requests, Step(r), req'[r].pc = "write"
  PROVE  booking' = booking /\ (req[r].op \in {"seat", "move"} => Live(req[r].target))
<1>1. req[r].pc = "check"
  BY StepTurns, TurnsReq, AfterPoints DEF GoesOn
<1>2. Check(r)
  BY <1>1 DEF Step, CancelUpdate, DeclineUpdate, TakeLock, Write, WriteBooking, WriteHold,
              WriteSeat, WriteReschedule, WriteConfirm, WriteMove, DropHold, BurnLink, Writing
<1>3. ~ End(r, "replay") /\ ~ End(r, "refused")
  BY DEF End, Answer, TypeOK, Request
<1>4. Passes(req[r]) /\ booking' = booking
  BY <1>2, <1>3 DEF Check
<1> QED
  BY <1>4 DEF Passes, StillLive

LEMMA LiveStep ==
  ASSUME EndInv, [Next]_vars
  PROVE  TargetsLive'
<1>0. TypeOK
  BY DEF EndInv, GuardedInv
<1> DEFINE Stands(b) == booking'[b].status \in {"accepted", "pending"}
<1>1. ASSUME NEW s \in Requests, req'[s] = req[s], req[s].pc = "write",
             req[s].op \in {"seat", "move"}
      PROVE  Stands(req[s].target)
  <2> DEFINE b == req[s].target
  <2>1. Live(b) /\ b \in Ids
    BY <1>1 DEF EndInv, TargetsLive, GuardedInv, TargetsKept, MoveOps, Wanted, Wants
  <2>2. RowLocked(b)
    BY <1>1 DEF RowLocked
  <2> HIDE DEF b
  <2>3. ASSUME NEW c \in Ids, Joins(c)
        PROVE  Stands(b)
    BY <2>1, <2>3 DEF Joins, OthersStay, Live
  <2>4. ASSUME NEW r \in Requests, Drops(r)
        PROVE  Stands(b)
    BY <2>1, <2>2, <2>4 DEF Drops, OthersStay, Live
  <2>5. ASSUME NEW r \in Requests, Shifts(r) \/ Agrees(r) \/ Opens(r)
        PROVE  Stands(b)
    BY <2>1, <2>5 DEF Shifts, Agrees, Opens, OthersStay, Live
  <2>6. ASSUME NEW r \in Requests \ {s}, Replaced(r)
        PROVE  Stands(b)
    <3>1. req[r].target # b
      BY <1>1, <2>6, OneMover DEF Replaced, b
    <3>2. b # r
      BY <2>1, <2>6 DEF Replaced, Live
    <3> QED
      BY <2>1, <2>6, <3>1, <3>2 DEF Replaced, Live
  <2>7. ~ Replaced(s)
    <3>1. ASSUME Replaced(s)
          PROVE  FALSE
      <4>1. booking[s].status = "absent" /\ booking'[s].status # "absent"
        BY <1>1, <3>1 DEF Replaced, EndInv, Wanted, Wants
      <4>2. GuardedInv'
        BY NextGuarded DEF EndInv
      <4>3. booking'[s].status = "absent"
        BY <1>1, <4>2 DEF GuardedInv, RowsUnwritten
      <4> QED
        BY <4>1, <4>3
    <3> QED
      BY <3>1
  <2>8. RowsMay
    BY NextRows
  <2>9. Stands(b)
    BY <2>1, <2>3, <2>4, <2>5, <2>6, <2>7, <2>8 DEF RowsMay, Live
  <2> QED
    BY <2>9 DEF b
<1>2. ASSUME NEW s \in Requests, req'[s].pc = "write", req'[s].op \in {"seat", "move"}
      PROVE  Stands(req'[s].target)
  <2>1. CASE req'[s] = req[s]
    BY <1>1, <1>2, <2>1
  <2>2. CASE Step(s) /\ SameAsk(req'[s], req[s])
    BY <1>0, <1>2, <2>2, CheckedTarget DEF SameAsk, Live
  <2>3. ASSUME NEW r \in Requests, Enters(r)
        PROVE  req'[s] = req[s]
    BY <1>0, <1>2, <2>3, EntersReq DEF Entry
  <2>4. ASSUME NEW r \in Requests, Crash(r)
        PROVE  req'[s] = req[s]
    <3>1. \A u \in Requests \ {r} : req'[u] = req[u]
      BY <1>0, <2>4, StepTurns, TurnsReq
    <3>2. req'[r].pc = "done"
      BY <1>0, <2>4 DEF Crash, Answer, TypeOK, Request
    <3> QED
      BY <1>2, <3>1, <3>2
  <2>5. ASSUME NEW r \in Requests, Step(r)
        PROVE  req'[s] = req[s] \/ (s = r /\ SameAsk(req'[s], req[s]))
    BY <1>0, <2>5, StepTurns, TurnsReq
  <2> QED
    BY <1>0, <2>1, <2>2, <2>3, <2>4, <2>5, NextCases DEF Aside
<1> QED
  BY <1>2 DEF TargetsLive, Live

(* What EndedStaysEnded says of a step. *)
LEMMA EndedStep ==
  ASSUME EndInv, [Next]_vars, NEW b \in Ids
  PROVE  /\ booking[b].status \in {"cancelled", "rejected"} => booking'[b] = booking[b]
         /\ booking[b].status = "accepted" => booking'[b].status \in {"accepted", "cancelled"}
<1>1. ASSUME NEW c \in Ids, Joins(c)
      PROVE  /\ booking[b].status \in {"cancelled", "rejected"} => booking'[b] = booking[b]
             /\ booking[b].status = "accepted" => booking'[b].status = "accepted"
  BY <1>1 DEF Joins, OthersStay, Live
<1>2. ASSUME NEW r \in Requests, Drops(r)
      PROVE  /\ booking[b].status \in {"cancelled", "rejected"} => booking'[b] = booking[b]
             /\ booking[b].status = "accepted" => booking'[b].status \in {"accepted", "cancelled"}
  BY <1>2 DEF Drops, OthersStay, Live
<1>3. ASSUME NEW r \in Requests, Shifts(r) \/ Agrees(r) \/ Opens(r)
      PROVE  /\ booking[b].status \in {"cancelled", "rejected"} => booking'[b] = booking[b]
             /\ booking[b].status = "accepted" => booking'[b].status = "accepted"
  BY <1>3 DEF Shifts, Agrees, Opens, OthersStay
<1>4. ASSUME NEW r \in Requests, Replaced(r)
      PROVE  /\ booking[b].status \in {"cancelled", "rejected"} => booking'[b] = booking[b]
             /\ booking[b].status = "accepted" => booking'[b].status \in {"accepted", "cancelled"}
  BY <1>4 DEF Replaced, Live
<1>5. RowsMay
  BY NextRows
<1> QED
  BY <1>1, <1>2, <1>3, <1>4, <1>5 DEF RowsMay

LEMMA KnownStep ==
  ASSUME EndInv, [Next]_vars
  PROVE  EndsKnown'
<1>0. TypeOK
  BY DEF EndInv, GuardedInv
<1> DEFINE Asks(q) == q.ans = "ok" /\ q.op \in EndOps
           EndOf(op) == IF op = "decline" THEN "rejected" ELSE "cancelled"
           Told(q, s) ==
             Asks(q) => /\ q.target \in Ids
                        /\ booking'[q.target].status = EndOf(q.op)
                        /\ booking'[q.target].to = IF q.op = "move" THEN s ELSE None
<1>1. ASSUME NEW s \in Requests, Asks(req[s])
      PROVE  /\ req[s].target \in Ids
             /\ booking'[req[s].target].status = EndOf(req[s].op)
             /\ booking'[req[s].target].to = IF req[s].op = "move" THEN s ELSE None
  <2>1. /\ req[s].target \in Ids
        /\ booking[req[s].target].status = EndOf(req[s].op)
        /\ booking[req[s].target].to = IF req[s].op = "move" THEN s ELSE None
    BY <1>1 DEF EndInv, EndsKnown, EndKnown, EndOps
  <2>2. booking'[req[s].target] = booking[req[s].target]
    BY <2>1, EndedStep
  <2> QED
    BY <2>1, <2>2
<1>2. ASSUME NEW s \in Requests, req'[s] = req[s]
      PROVE  Told(req'[s], s)
  BY <1>1, <1>2
<1>3. ASSUME NEW r \in Requests, Enters(r)
      PROVE  Told(req'[r], r)
  BY <1>0, <1>3, EntersReq DEF Entry, EndOps
<1>4. ASSUME NEW r \in Requests, Step(r) \/ Crash(r)
      PROVE  Told(req'[r], r)
  <2>1. PICK n : n = req'[r]
    OBVIOUS
  <2>2. n.op = req[r].op /\ n.target = req[r].target
    BY <1>0, <1>4, <2>1, StepTurns, TurnsReq DEF SameAsk
  <2>3. CASE Stays(r)
    <3>1. Asks(n) => Asks(req[r])
      BY <2>1, <2>2, <2>3 DEF Stays
    <3> QED
      BY <1>1, <2>1, <2>2, <3>1
  <2>4. CASE Drops(r)
    <3>1. booking[req[r].target].to = None
      BY <2>4 DEF Drops, EndInv, LiveUnmoved
    <3> QED
      BY <2>1, <2>2, <2>4, <3>1 DEF Drops, KeepsPlan
  <2>5. CASE (Joins(req[r].target) /\ req[r].op = "seat") \/ Shifts(r) \/ Agrees(r) \/ Opens(r)
    <3>1. n.op \notin EndOps
      BY <2>2, <2>5 DEF Shifts, Agrees, Opens, EndOps, PlaceOps
    <3> QED
      BY <2>1, <3>1
  <2>6. CASE Replaced(r)
    BY <2>1, <2>2, <2>6 DEF Replaced
  <2>7. RowsTurn(r)
    BY <1>4, StepRows
  <2> QED
    BY <2>3, <2>4, <2>5, <2>6, <2>7 DEF RowsTurn
<1>5. ASSUME NEW s \in Requests
      PROVE  Told(req'[s], s)
  <2>1. CASE Aside
    BY <1>2, <2>1 DEF Aside
  <2>2. ASSUME NEW r \in Requests, Enters(r)
        PROVE  Told(req'[s], s)
    <3>1. s = r \/ req'[s] = req[s]
      BY <1>0, <2>2, EntersReq
    <3> QED
      BY <1>2, <1>3, <2>2, <3>1
  <2>3. ASSUME NEW r \in Requests, Step(r) \/ Crash(r)
        PROVE  Told(req'[s], s)
    <3>1. s = r \/ req'[s] = req[s]
      BY <1>0, <2>3, StepTurns, TurnsReq
    <3> QED
      BY <1>2, <1>4, <2>3, <3>1
  <2> QED
    BY <1>0, <2>1, <2>2, <2>3, NextCases
<1> QED
  BY <1>5 DEF EndsKnown, EndKnown, EndOps

LEMMA InitEnds ==
  ASSUME Init, SeedsHosted
  PROVE  EndInv
<1>1. \A r \in Requests : req[r] = Idle
  BY DEF Init
<1>2. PICK row \in [Seeds -> SeedRows] :
        booking = [b \in Ids |-> IF b \in Seeds THEN row[b] ELSE NoRow]
  BY DEF Init
<1>3. Wanted /\ TargetsLive /\ EndsKnown
  BY <1>1 DEF Wanted, TargetsLive, EndsKnown, EndKnown, Idle
<1>4. Hosted /\ LiveUnmoved
  BY <1>2, SeedsAssumption DEF SeedsHosted, Hosted, LiveUnmoved, Live, NoRow
<1> QED
  BY <1>3, <1>4, InitGuarded DEF EndInv

LEMMA NextEnds ==
  ASSUME EndInv, [Next]_vars
  PROVE  EndInv'
  BY WantedStep, HostedStep, LiveStep, UnmovedStep, KnownStep, NextGuarded DEF EndInv

LEMMA EndsAlways == ASSUME SeedsHosted PROVE Spec => []EndInv
<1>1. Init => EndInv
  BY InitEnds
<1>2. EndInv /\ [Next]_vars => EndInv'
  BY NextEnds
<1> QED
  BY <1>1, <1>2, PTL DEF Spec

(* A cancelled or declined booking is never written again, and an accepted  *)
(* one never waits again, whatever a confirmation, a move, a seat or a     *)
(* guest read before it ended.                                             *)
THEOREM EndedStays == ASSUME SeedsHosted PROVE Spec => EndedStaysEnded
<1>1. EndInv /\ [Next]_vars =>
        [\A b \in Ids :
          /\ booking[b].status \in {"cancelled", "rejected"} => booking'[b] = booking[b]
          /\ booking[b].status = "accepted" => booking'[b].status \in {"accepted", "cancelled"}]_vars
  BY EndedStep
<1> QED
  BY <1>1, EndsAlways, PTL DEF Spec, EndedStaysEnded

(* A cancel, a decline or a move that answered ok is how its booking ended, *)
(* and no other caller was told that theirs did.                           *)
THEOREM EndsAreOne == ASSUME SeedsHosted PROVE Spec => []EndsOneWay
<1>1. EndInv => EndsOneWay
  BY DEF EndInv, EndsKnown, EndKnown, EndsOneWay
<1> QED
  BY <1>1, EndsAlways, PTL

-----------------------------------------------------------------------------
(* What a request asks for besides: one that has not arrived asks nothing, *)
(* a guest is answered at once, a v1 reschedule presents no hold and no     *)
(* link, and a first booking of a group's slot asks for seats it has.       *)
PartyFits(q) ==
    q.op \in PlaceOps /\ q.event # None /\ q.event.kind = "personal" /\ q.event.seats > 1
        => Cardinality(q.who) <= q.event.seats

Asks(q) ==
    /\ q.pc = "idle" => q.op = "none"
    /\ q.op = "guest" => q.pc = "done"
    /\ q.op = "reschedule" => q.hold = None /\ q.link = None /\ (q.ans = "ok" => q.pc = "done")
    /\ q.pc \in {"lock", "check", "write"} => PartyFits(q)

AllAsk == \A r \in Requests : Asks(req[r])

LEMMA SubmitReq ==
  ASSUME TypeOK, NEW r \in Requests, NEW op, NEW rec, Submit(r, op, rec)
  PROVE  req'[r] = [rec EXCEPT !.op = op, !.at = now]
  BY DEF TypeOK, Submit

LEMMA DoneAsks ==
  ASSUME NEW r \in Requests, req'[r].pc = "done", req'[r].op # "reschedule"
  PROVE  Asks(req'[r])
  BY DEF Asks

LEMMA OtherAsks ==
  ASSUME NEW r \in Requests, req'[r].pc # "idle",
         req'[r].op \in {"hold", "move", "confirm", "cancel", "decline", "release"}
  PROVE  Asks(req'[r])
  BY DEF Asks, PartyFits, PlaceOps

LEMMA BookAsks ==
  ASSUME TypeOK, NEW r \in Requests, BookRequest(r)
  PROVE  Asks(req'[r])
<1>1. PICK e \in Events, s \in Starts, h \in Requests \cup {None}, k \in Keys \cup {None},
           l \in Links \cup {None}, people \in SUBSET People, strict \in BOOLEAN, m \in Members :
        BookRequest(r)!(e, s, h, k, l, people, strict, m)
  BY DEF BookRequest
<1> DEFINE rec == [Idle EXCEPT !.event = e, !.hosts = {m}, !.org = m, !.start = s,
                               !.hold = h, !.link = l, !.key = k, !.who = people,
                               !.strict = strict, !.pc = "lock"]
<1>3. ASSUME Submit(r, "book", rec), e.seats > 1 => Cardinality(people) <= e.seats
      PROVE  Asks(req'[r])
  <2> DEFINE n == [rec EXCEPT !.op = "book", !.at = now]
  <2>1. n.pc = "lock" /\ n.op = "book" /\ n.event = e /\ n.who = people
    BY DEF Idle
  <2> HIDE DEF rec
  <2>2. req'[r] = n
    BY <1>3, SubmitReq
  <2> QED
    BY <1>3, <2>1, <2>2 DEF Asks, PartyFits
<1>4. ASSUME Submit(r, "seat", [rec EXCEPT !.pc = "done", !.ans = "replay"])
      PROVE  Asks(req'[r])
  <2> DEFINE old == [rec EXCEPT !.pc = "done", !.ans = "replay"]
             n == [old EXCEPT !.op = "seat", !.at = now]
  <2>1. n.pc = "done" /\ n.op = "seat"
    BY DEF Idle
  <2>3. Submit(r, "seat", old)
    BY <1>4
  <2> HIDE DEF old
  <2>2. req'[r] = n
    BY <2>3, SubmitReq
  <2> QED
    BY <2>1, <2>2, DoneAsks
<1>5. ASSUME NEW b \in GroupRows(e, s), Submit(r, "seat", [rec EXCEPT !.target = b])
      PROVE  Asks(req'[r])
  <2> DEFINE new == [rec EXCEPT !.target = b]
             n == [new EXCEPT !.op = "seat", !.at = now]
  <2>1. n.pc = "lock" /\ n.op = "seat" /\ n.target = b /\ n.event = e
    BY DEF Idle
  <2>4. Submit(r, "seat", new)
    BY <1>5
  <2> HIDE DEF new
  <2>2. req'[r] = n
    BY <2>4, SubmitReq
  <2>3. booking[b].event = e
    BY DEF GroupRows
  <2> QED
    BY <2>1, <2>2, <2>3 DEF Asks, PartyFits, PlaceOps
<1> HIDE DEF rec
<1> QED
  BY <1>1, <1>3, <1>4, <1>5 DEF rec

LEMMA ReplayAsks ==
  ASSUME TypeOK, NEW r \in Requests, NEW op \in {"book", "hostEvent", "move"}, NEW k, Replay(r, op, k)
  PROVE  Asks(req'[r])
<1> DEFINE rec == [Idle EXCEPT !.key = k, !.pc = "done", !.ans = "replay"]
           n == [rec EXCEPT !.op = op, !.at = now]
<1>1. n.pc = "done" /\ n.op = op
  BY DEF Idle
<1>3. Submit(r, op, rec)
  BY DEF Replay
<1> HIDE DEF rec
<1>2. req'[r] = n
  BY <1>3, SubmitReq
<1> QED
  BY <1>1, <1>2, DoneAsks

LEMMA TeamAsks ==
  ASSUME TypeOK, NEW r \in Requests, TeamRequest(r)
  PROVE  Asks(req'[r])
<1>1. PICK e \in Events, s \in Starts, k \in Keys \cup {None}, l \in Links \cup {None},
           people \in SUBSET People : TeamRequest(r)!(e, s, k, l, people)
  BY DEF TeamRequest
<1> DEFINE free == {m \in e.hosts : ~ Busy({m}, s, None) /\ ~ Held({m}, s, now, None)}
           asked(hosts, org) ==
             [Idle EXCEPT !.event = e, !.hosts = hosts, !.org = org, !.start = s,
                          !.link = l, !.key = k, !.who = people, !.strict = TRUE, !.pc = "lock"]
<1>2. PICK hosts \in Assignments(e, free) : \E org \in hosts : Submit(r, "team", asked(hosts, org))
  BY <1>1
<1>3. PICK org \in hosts : Submit(r, "team", asked(hosts, org))
  BY <1>2
<1> DEFINE rec == asked(hosts, org)
           n == [rec EXCEPT !.op = "team", !.at = now]
<1>4. n.pc = "lock" /\ n.op = "team" /\ n.event = e
  BY DEF Idle
<1>5. e.kind # "personal" /\ Submit(r, "team", rec)
  BY <1>1, <1>3
<1> HIDE DEF rec
<1>6. req'[r] = n
  BY <1>5, SubmitReq
<1> QED
  BY <1>4, <1>5, <1>6 DEF Asks, PartyFits

LEMMA HostEventAsks ==
  ASSUME TypeOK, NEW r \in Requests, HostEventRequest(r)
  PROVE  Asks(req'[r])
<1>1. PICK m \in Members, s \in Starts, k \in Keys \cup {None}, strict \in BOOLEAN,
           people \in SUBSET People : HostEventRequest(r)!(m, s, k, strict, people)
  BY DEF HostEventRequest
<1> DEFINE rec == [Idle EXCEPT !.hosts = {m}, !.org = m, !.start = s, !.key = k,
                               !.who = people, !.strict = strict, !.pc = "lock"]
           n == [rec EXCEPT !.op = "hostEvent", !.at = now]
<1>3. n.pc = "lock" /\ n.op = "hostEvent" /\ n.event = None
  BY DEF Idle
<1>5. Submit(r, "hostEvent", rec)
  BY <1>1
<1> HIDE DEF rec
<1>4. req'[r] = n
  BY <1>5, SubmitReq
<1> QED
  BY <1>3, <1>4 DEF Asks, PartyFits

LEMMA ExpiredHoldAsks ==
  ASSUME TypeOK, NEW r \in Requests, BookWithExpiredHold(r)
  PROVE  Asks(req'[r])
<1>1. PICK h \in Requests : BookWithExpiredHold(r)!(h)
  BY DEF BookWithExpiredHold
<1> DEFINE rec == [Idle EXCEPT !.hold = h, !.pc = "done", !.ans = "refused"]
           n == [rec EXCEPT !.op = "book", !.at = now]
<1>3. n.pc = "done" /\ n.op = "book"
  BY DEF Idle
<1>5. Submit(r, "book", rec)
  BY <1>1
<1> HIDE DEF rec
<1>4. req'[r] = n
  BY <1>5, SubmitReq
<1> QED
  BY <1>3, <1>4, DoneAsks

LEMMA HoldAsks ==
  ASSUME TypeOK, NEW r \in Requests, HoldRequest(r) \/ ReleaseRequest(r)
  PROVE  Asks(req'[r])
<1>1. CASE HoldRequest(r)
  <2>1. PICK e \in Events, m \in Members, s \in Starts : HoldRequest(r)!(e, m, s)
    BY <1>1 DEF HoldRequest
  <2> DEFINE rec == [Idle EXCEPT !.event = e, !.hosts = {m}, !.org = m, !.start = s]
             new == [rec EXCEPT !.pc = "lock"]
             old == [rec EXCEPT !.pc = "done", !.ans = "refused"]
             n(q) == [q EXCEPT !.op = "hold", !.at = now]
  <2>2. n(new).pc = "lock" /\ n(new).op = "hold" /\ n(old).pc = "done" /\ n(old).op = "hold"
    BY DEF Idle
  <2>3. Submit(r, "hold", new) \/ Submit(r, "hold", old)
    BY <2>1
  <2> HIDE DEF new, old
  <2>4. req'[r] = n(new) \/ req'[r] = n(old)
    BY <2>3, SubmitReq
  <2> QED
    BY <2>2, <2>4, OtherAsks
<1>2. CASE ReleaseRequest(r)
  <2>1. PICK h \in Requests : ReleaseRequest(r)!(h)
    BY <1>2 DEF ReleaseRequest
  <2> DEFINE rec == [Idle EXCEPT !.hold = h, !.pc = "done", !.ans = "ok"]
             n == [rec EXCEPT !.op = "release", !.at = now]
  <2>2. n.pc = "done" /\ n.op = "release"
    BY DEF Idle
  <2>4. Submit(r, "release", rec)
    BY <2>1
  <2> HIDE DEF rec
  <2>3. req'[r] = n
    BY <2>4, SubmitReq
  <2> QED
    BY <2>2, <2>3, DoneAsks
<1> QED
  BY <1>1, <1>2

LEMMA RescheduleAsks ==
  ASSUME TypeOK, NEW r \in Requests, RescheduleRequest(r)
  PROVE  Asks(req'[r])
<1>1. PICK b \in Ids, s \in Starts, k \in Keys \cup {None} : RescheduleRequest(r)!(b, s, k)
  BY DEF RescheduleRequest
<1> DEFINE old == [About(b) EXCEPT !.key = k, !.pc = "done", !.ans = "replay"]
           new == [About(b) EXCEPT !.start = s, !.key = k, !.pc = "lock"]
           n(q) == [q EXCEPT !.op = "reschedule", !.at = now]
<1>2. /\ n(old).pc = "done" /\ n(old).op = "reschedule" /\ n(old).hold = None /\ n(old).link = None
      /\ n(new).pc = "lock" /\ n(new).op = "reschedule" /\ n(new).hold = None /\ n(new).link = None
      /\ n(old).ans = "replay" /\ n(new).ans = "none"
  BY DEF About, Idle
<1>3. Submit(r, "reschedule", old) \/ Submit(r, "reschedule", new)
  BY <1>1
<1> HIDE DEF old, new
<1>4. req'[r] = n(old) \/ req'[r] = n(new)
  BY <1>3, SubmitReq
<1> QED
  BY <1>2, <1>4 DEF Asks, PartyFits, PlaceOps

LEMMA MoveAsks ==
  ASSUME TypeOK, NEW r \in Requests, MoveRequest(r) \/ ConfirmRequest(r)
  PROVE  Asks(req'[r])
<1>1. CASE MoveRequest(r)
  <2>1. PICK b \in Ids, s \in Starts, k \in Keys \cup {None}, strict \in BOOLEAN :
          MoveRequest(r)!(b, s, k, strict)
    BY <1>1 DEF MoveRequest
  <2> DEFINE rec == [About(b) EXCEPT !.start = s, !.key = k, !.strict = strict, !.pc = "lock"]
             n == [rec EXCEPT !.op = "move", !.at = now]
  <2>2. n.pc = "lock" /\ n.op = "move"
    BY DEF About, Idle
  <2>4. Submit(r, "move", rec)
    BY <2>1
  <2> HIDE DEF rec
  <2>3. req'[r] = n
    BY <2>4, SubmitReq
  <2> QED
    BY <2>2, <2>3, OtherAsks
<1>2. CASE ConfirmRequest(r)
  <2>1. PICK b \in Ids : ConfirmRequest(r)!(b)
    BY <1>2 DEF ConfirmRequest
  <2> DEFINE rec == [About(b) EXCEPT !.pc = "lock"]
             n == [rec EXCEPT !.op = "confirm", !.at = now]
  <2>2. n.pc = "lock" /\ n.op = "confirm"
    BY DEF About, Idle
  <2>4. Submit(r, "confirm", rec)
    BY <2>1
  <2> HIDE DEF rec
  <2>3. req'[r] = n
    BY <2>4, SubmitReq
  <2> QED
    BY <2>2, <2>3, OtherAsks
<1> QED
  BY <1>1, <1>2

LEMMA CancelAsks ==
  ASSUME TypeOK, NEW r \in Requests, CancelRequest(r) \/ DeclineRequest(r)
  PROVE  Asks(req'[r])
<1>0. PICK b \in Ids : \/ CancelRequest(r)!(b)
                       \/ DeclineRequest(r)!(b)
  BY DEF CancelRequest, DeclineRequest
<1> DEFINE upd == [About(b) EXCEPT !.pc = "update"]
           old == [About(b) EXCEPT !.pc = "done", !.ans = "replay"]
           n(q, op) == [q EXCEPT !.op = op, !.at = now]
<1>1. /\ n(upd, "cancel").pc = "update" /\ n(upd, "cancel").op = "cancel"
      /\ n(old, "cancel").pc = "done" /\ n(old, "cancel").op = "cancel"
      /\ n(upd, "decline").pc = "update" /\ n(upd, "decline").op = "decline"
  BY DEF About, Idle
<1>2. Submit(r, "cancel", upd) \/ Submit(r, "cancel", old) \/ Submit(r, "decline", upd)
  BY <1>0
<1> HIDE DEF upd, old
<1>3. CASE Submit(r, "cancel", upd)
  <2>1. req'[r] = n(upd, "cancel")
    BY <1>3, SubmitReq
  <2> QED
    BY <1>1, <2>1, OtherAsks
<1>4. CASE Submit(r, "cancel", old)
  <2>1. req'[r] = n(old, "cancel")
    BY <1>4, SubmitReq
  <2> QED
    BY <1>1, <2>1, OtherAsks
<1>5. CASE Submit(r, "decline", upd)
  <2>1. req'[r] = n(upd, "decline")
    BY <1>5, SubmitReq
  <2> QED
    BY <1>1, <2>1, OtherAsks
<1> QED
  BY <1>2, <1>3, <1>4, <1>5

(* Guests who do not fit change nothing. *)
LEMMA GuestAsks ==
  ASSUME TypeOK, NEW r \in Requests, GuestRequest(r)
  PROVE  Asks(req'[r])
<1>1. PICK b \in Ids, who \in SUBSET People : GuestRequest(r)!(b, who)
  BY DEF GuestRequest
<1>2. PICK a : req' = [req EXCEPT ![r] = [About(b) EXCEPT !.op = "guest", !.at = now,
                                              !.pc = "done", !.ans = a]]
  BY <1>1
<1> DEFINE n == [About(b) EXCEPT !.op = "guest", !.at = now, !.pc = "done", !.ans = a]
<1>3. n.pc = "done" /\ n.op = "guest"
  BY DEF About, Idle
<1> HIDE DEF n
<1>4. req'[r] = n
  BY <1>2 DEF TypeOK, n
<1> QED
  BY <1>3, <1>4, DoneAsks

LEMMA RefuseAsks ==
  ASSUME TypeOK, NEW r \in Requests, Refuse(r), Asks(req[r])
  PROVE  Asks(req'[r])
<1> DEFINE n == [req[r] EXCEPT !.pc = "done", !.ans = "refused"]
<1>1. req[r] \in Request
  BY DEF TypeOK
<1>2. n.pc = "done" /\ n.op = req[r].op
  BY <1>1 DEF Request
<1>3. req'[r] = n
  BY DEF Refuse, Answer, TypeOK
<1> HIDE DEF n
<1> QED
  BY <1>2, <1>3, DoneAsks DEF Refuse, Asks

LEMMA ArriveAsks ==
  ASSUME TypeOK, NEW r \in Requests, Arrive(r), Asks(req[r])
  PROVE  Asks(req'[r])
  BY BookAsks, ReplayAsks, TeamAsks, HostEventAsks, ExpiredHoldAsks, HoldAsks,
     RescheduleAsks, MoveAsks, CancelAsks, GuestAsks, RefuseAsks DEF Arrive

LEMMA AskStep ==
  ASSUME TypeOK, AllAsk, [Next]_vars
  PROVE  AllAsk'
<1> DEFINE A(q) == /\ q.pc = "idle" => q.op = "none"
                   /\ q.op = "guest" => q.pc = "done"
                   /\ q.op = "reschedule" => q.hold = None /\ q.link = None /\ (q.ans = "ok" => q.pc = "done")
                   /\ q.pc \in {"lock", "check", "write"} => PartyFits(q)
<1>1. \A s \in Requests : A(req[s])
  BY DEF AllAsk, Asks
<1>2. ASSUME NEW r \in Requests, Arrive(r)
      PROVE  \A s \in Requests : A(req'[s])
  <2>1. \A s \in Requests \ {r} : req'[s] = req[s]
    BY <1>2, ArriveEnters, EntersReq
  <2>2. A(req'[r])
    BY <1>2, ArriveAsks DEF Asks, AllAsk
  <2> QED
    BY <1>1, <2>1, <2>2
<1>3. ASSUME NEW r \in Requests, Step(r) \/ Crash(r)
      PROVE  \A s \in Requests : A(req'[s])
  <2>1. /\ \A s \in Requests \ {r} : req'[s] = req[s]
        /\ SameAsk(req'[r], req[r]) /\ GoesOn(req[r], req'[r].pc, req'[r].ans)
    BY <1>3, StepTurns, TurnsReq
  <2>2. A(req[r])
    BY <1>1
  <2>3. /\ req'[r].pc # "idle" /\ req[r].pc # "done"
        /\ req'[r].pc \in {"lock", "check", "write"} => req[r].pc \in {"lock", "check"}
    BY <2>1, AfterPoints DEF GoesOn
  <2>4. /\ req'[r].op = req[r].op /\ req'[r].hold = req[r].hold /\ req'[r].link = req[r].link
        /\ PartyFits(req'[r]) <=> PartyFits(req[r])
    BY <2>1 DEF SameAsk, PartyFits
  <2>5. ASSUME req[r].op = "reschedule", req'[r].ans = "ok"
        PROVE  req'[r].pc = "done"
    BY <2>1, <2>2, <2>3, <2>5 DEF GoesOn, AfterWrite, AfterHold
  <2>6. A(req'[r])
    BY <2>2, <2>3, <2>4, <2>5
  <2> QED
    BY <1>1, <2>1, <2>6
<1>4. ASSUME req' = req
      PROVE  \A s \in Requests : A(req'[s])
  BY <1>1, <1>4
<1>5. \A s \in Requests : A(req'[s])
  BY <1>2, <1>3, <1>4 DEF Next, Revoke, Tick, Finished, vars
<1>6. ASSUME NEW s \in Requests, A(req'[s])
      PROVE  Asks(req[s])'
  BY <1>6 DEF Asks, PartyFits
<1> HIDE DEF A
<1> QED
  BY <1>5, <1>6 DEF AllAsk

(* Who has come in asks what it asked, and who is done stays as it is. *)
LEMMA AskKept ==
  ASSUME TypeOK, [Next]_vars, NEW s \in Requests, req[s].pc # "idle"
  PROVE  SameAsk(req'[s], req[s]) /\ (req[s].pc = "done" => req'[s] = req[s])
<1>1. SameAsk(req[s], req[s])
  BY DEF SameAsk
<1>2. ASSUME NEW r \in Requests, Enters(r)
      PROVE  req'[s] = req[s]
  BY <1>2, EntersReq DEF Enters
<1>3. ASSUME NEW r \in Requests, Step(r) \/ Crash(r)
      PROVE  req'[s] = req[s] \/ (SameAsk(req'[s], req[s]) /\ req[s].pc # "done")
  BY <1>3, StepTurns, TurnsReq DEF GoesOn
<1> QED
  BY <1>1, <1>2, <1>3, NextCases DEF Aside

-----------------------------------------------------------------------------
(* Held times: what a strict booking found free of holds, and the time a    *)
(* hold found offered, are so until the write.                              *)

HoldersFree ==
    \A r \in Requests :
        req[r].pc = "write" /\ req[r].op \in PlaceOps \cup {"move"} => NotHeld(req[r])

(* The bookings bk leave member m's time at s to e's own group. *)
OfferedIn(bk, e, m, s) ==
    \A b \in Ids :
        /\ bk[b].status \in {"accepted", "pending"} /\ m \in bk[b].hosts /\ Overlap(bk[b].start, s)
        => bk[b].event = e /\ bk[b].start = s

OffersOpen ==
    \A r \in Requests :
        AboutToHold(r) => OfferedIn(booking, req[r].event, req[r].org, req[r].start)

HoldTimesInv == EndInv /\ HoldInv /\ HoldersFree /\ OffersOpen /\ AllAsk /\ HeldTimeKept

(* Who is about to write after a step was so before, or has just checked.  *)
LEMMA WriteBefore ==
  ASSUME TypeOK, [Next]_vars, NEW s \in Requests, req'[s].pc = "write"
  PROVE  \/ req'[s] = req[s]
         \/ /\ Passes(req[s]) /\ SameAsk(req'[s], req[s]) /\ req[s].pc = "check"
            /\ booking' = booking /\ hold' = hold
<1>1. ASSUME NEW r \in Requests, Enters(r)
      PROVE  req'[s] = req[s]
  BY <1>1, EntersReq DEF Entry
<1>2. ASSUME NEW r \in Requests, Crash(r)
      PROVE  req'[s] = req[s]
  <2>1. \A u \in Requests \ {r} : req'[u] = req[u]
    BY <1>2, StepTurns, TurnsReq
  <2>2. req'[r].pc = "done"
    BY <1>2 DEF Crash, Answer, TypeOK, Request
  <2> QED
    BY <2>1, <2>2
<1>3. ASSUME NEW r \in Requests, Step(r), s # r
      PROVE  req'[s] = req[s]
  BY <1>3, StepTurns, TurnsReq
<1>4. ASSUME Step(s)
      PROVE  /\ Passes(req[s]) /\ SameAsk(req'[s], req[s]) /\ req[s].pc = "check"
             /\ booking' = booking /\ hold' = hold
  <2>1. req[s].pc = "check" /\ SameAsk(req'[s], req[s])
    BY <1>4, StepTurns, TurnsReq, AfterPoints DEF GoesOn
  <2>2. Check(s)
    BY <1>4, <2>1 DEF Step, CancelUpdate, DeclineUpdate, TakeLock, Write, WriteBooking, WriteHold,
                WriteSeat, WriteReschedule, WriteConfirm, WriteMove, DropHold, BurnLink, Writing
  <2>3. ~ End(s, "replay") /\ ~ End(s, "refused")
    BY DEF End, Answer, TypeOK, Request
  <2> QED
    BY <2>1, <2>2, <2>3 DEF Check
<1> QED
  BY <1>1, <1>2, <1>3, <1>4, NextCases DEF Aside

(* Who writes a hold is done with it. *)
LEMMA HoldDone ==
  ASSUME HoldInv, NEW r \in Requests, WriteHold(r)
  PROVE  req'[r].pc # "write" /\ booking' = booking
<1>0. TypeOK
  BY DEF HoldInv, GuardedInv
<1> QED
  BY <1>0, StepTurns, TurnsReq, AfterPoints DEF GoesOn, Step, Write, WriteHold, Writing

LEMMA HoldersStep ==
  ASSUME HoldInv, HoldersFree, [Next]_vars
  PROVE  HoldersFree'
<1>0. TypeOK /\ LocksHeld
  BY DEF HoldInv, GuardedInv
<1> DEFINE NoneHeld(hd, q) ==
      q.strict => \A m \in q.hosts : \A h \in Requests \ {q.hold} :
        ~ (hd[h].member = m /\ hd[h].release > q.at /\ Overlap(hd[h].start, q.start))
<1>1. \A q : NotHeld(q) <=> NoneHeld(hold, q)
  BY DEF NotHeld, Held, MemberHeld
<1>2. ASSUME NEW s \in Requests, req'[s].pc = "write", req'[s].op \in PlaceOps \cup {"move"}
      PROVE  NoneHeld(hold', req'[s])
  <2>1. CASE req'[s] = req[s]
    <3>1. NoneHeld(hold, req[s])
      BY <1>1, <1>2, <2>1 DEF HoldersFree
    <3>2. req[s].hosts \subseteq Members
      BY <1>0 DEF TypeOK, Request
    <3>3. CASE Shrinks
      BY <2>1, <3>1, <3>2, <3>3, NamesAssumption DEF Shrinks, NoHold
    <3>4. ASSUME NEW r \in Requests, WriteHold(r)
          PROVE  NoneHeld(hold', req[s])
      <4>1. /\ \A h \in Requests \ {r} : hold'[h] = hold[h]
            /\ hold'[r].member = req[r].org /\ AboutToHold(r)
        BY <3>4, HoldWritten
      <4>2. s # r
        BY <1>2, <3>4, HoldDone
      <4>3. req[r].org \in req[r].hosts
        BY <4>1 DEF HoldInv, HoldsAsked, HoldAsked, AboutToHold
      <4>4. req[r].hosts \cap req[s].hosts = {}
        BY <1>0, <1>2, <2>1, <4>1, <4>2, LocksApart DEF AboutToHold
      <4> QED
        BY <3>1, <4>1, <4>3, <4>4
    <3> QED
      BY <2>1, <3>3, <3>4, HoldsStep
  <2>2. CASE Passes(req[s]) /\ SameAsk(req'[s], req[s]) /\ hold' = hold
    <3>1. NotHeld(req[s])
      BY <1>2, <2>2 DEF Passes, SameAsk, PlaceOps
    <3>2. NoneHeld(hold, req[s])
      BY <1>1, <3>1
    <3> QED
      BY <2>2, <3>2 DEF SameAsk
  <2> QED
    BY <1>0, <1>2, <2>1, <2>2, WriteBefore
<1>3. ASSUME NEW s \in Requests, req'[s].pc = "write", req'[s].op \in PlaceOps \cup {"move"}
      PROVE  NotHeld(req[s])'
  <2>1. NoneHeld(hold', req'[s])
    BY <1>2, <1>3
  <2> QED
    BY <2>1 DEF NotHeld, Held, MemberHeld
<1> QED
  BY <1>3 DEF HoldersFree

LEMMA OffersStep ==
  ASSUME EndInv, HoldInv, OffersOpen, [Next]_vars
  PROVE  OffersOpen'
<1>0. TypeOK /\ LocksHeld
  BY DEF HoldInv, GuardedInv
<1>1. ASSUME NEW s \in Requests, req[s].pc = "write", req[s].op = "hold"
      PROVE  OfferedIn(booking', req[s].event, req[s].org, req[s].start)
  <2> DEFINE e == req[s].event
             m == req[s].org
             t == req[s].start
  <2>1. OfferedIn(booking, e, m, t)
    BY <1>1 DEF OffersOpen, AboutToHold
  <2>2. m \in req[s].hosts
    BY <1>1 DEF HoldInv, HoldsAsked, HoldAsked
  <2>3. ASSUME NEW r \in Requests, req[r].pc = "write", req[r].op # "hold"
        PROVE  m \notin req[r].hosts
    BY <1>0, <1>1, <2>2, <2>3, LocksApart
  <2> HIDE DEF e, m, t
  <2>4. ASSUME NEW b \in Ids, Joins(b)
        PROVE  OfferedIn(booking', e, m, t)
    BY <2>1, <2>4 DEF OfferedIn, Joins, KeepsPlan, OthersStay
  <2>5. ASSUME NEW r \in Requests, Drops(r) \/ Agrees(r)
        PROVE  OfferedIn(booking', e, m, t)
    BY <2>1, <2>5 DEF OfferedIn, Drops, Agrees, KeepsPlan, OthersStay
  <2>6. ASSUME NEW r \in Requests, Shifts(r)
        PROVE  OfferedIn(booking', e, m, t)
    <3>1. booking[req[r].target].hosts = req[r].hosts
      BY <2>6 DEF Shifts, HoldInv, GuardedInv, TargetsKept, MoveOps
    <3>2. m \notin booking'[req[r].target].hosts
      BY <2>3, <2>6, <3>1 DEF Shifts, KeepsPlan
    <3> QED
      BY <2>1, <2>6, <3>2 DEF OfferedIn, Shifts, OthersStay
  <2>7. ASSUME NEW r \in Requests, Opens(r)
        PROVE  OfferedIn(booking', e, m, t)
    <3>1. m \notin booking'[r].hosts
      BY <2>3, <2>7 DEF Opens, PlaceOps
    <3> QED
      BY <2>1, <2>7, <3>1 DEF OfferedIn, Opens, OthersStay
  <2>8. ASSUME NEW r \in Requests, Replaced(r)
        PROVE  OfferedIn(booking', e, m, t)
    <3>1. booking[req[r].target].hosts = req[r].hosts
      BY <2>8 DEF Replaced, HoldInv, GuardedInv, TargetsKept, MoveOps
    <3>2. m \notin booking'[r].hosts
      BY <2>3, <2>8, <3>1 DEF Replaced
    <3> QED
      BY <2>1, <2>8, <3>2 DEF OfferedIn, Replaced
  <2>9. RowsMay
    BY NextRows
  <2>10. OfferedIn(booking', e, m, t)
    BY <2>1, <2>4, <2>5, <2>6, <2>7, <2>8, <2>9 DEF RowsMay
  <2> QED
    BY <2>10 DEF e, m, t
<1>2. ASSUME NEW s \in Requests, req'[s].pc = "write", req'[s].op = "hold"
      PROVE  OfferedIn(booking', req'[s].event, req'[s].org, req'[s].start)
  <2>1. CASE req'[s] = req[s]
    BY <1>1, <1>2, <2>1
  <2>2. CASE /\ Passes(req[s]) /\ SameAsk(req'[s], req[s]) /\ req[s].pc = "check"
             /\ booking' = booking
    <3>1. req[s].op = "hold" /\ req[s].org \in req[s].hosts
      BY <1>2, <2>2 DEF HoldInv, HoldsAsked, HoldAsked, SameAsk
    <3>2. OpenToHold(req[s].event, req[s].org, req[s].start, req[s].at)
      BY <2>2, <3>1 DEF Passes
    <3>3. OfferedIn(booking, req[s].event, req[s].org, req[s].start)
      BY <3>2 DEF OpenToHold, OfferedIn, Clashes, Live
    <3> QED
      BY <2>2, <3>3 DEF SameAsk
  <2> QED
    BY <1>0, <1>2, <2>1, <2>2, WriteBefore
<1> QED
  BY <1>2 DEF OffersOpen, AboutToHold

LEMMA RescheduledKept ==
  ASSUME TypeOK, AllAsk, [Next]_vars, NEW b \in Ids, Rescheduled(b)
  PROVE  Rescheduled(b)'
<1>1. PICK r \in Requests : req[r].op = "reschedule" /\ req[r].target = b /\ req[r].ans = "ok"
  BY DEF Rescheduled
<1>2. req[r].pc = "done"
  BY <1>1 DEF AllAsk, Asks
<1>3. req'[r] = req[r]
  BY <1>2, AskKept
<1> QED
  BY <1>1, <1>3 DEF Rescheduled

(* Only a v1 reschedule gives a booking that is there another time. *)
LEMMA StartKept ==
  ASSUME EndInv, [Next]_vars, NEW b \in Ids, booking[b].status # "absent"
  PROVE  booking'[b].start = booking[b].start \/ Rescheduled(b)'
<1>0. TypeOK
  BY DEF EndInv, GuardedInv
<1>1. ASSUME NEW c \in Ids, Joins(c)
      PROVE  booking'[b].start = booking[b].start
  BY <1>1 DEF Joins, OthersStay
<1>2. ASSUME NEW r \in Requests, Enters(r)
      PROVE  booking'[b].start = booking[b].start
  BY <1>0, <1>1, <1>2, EntersRows
<1>3. ASSUME NEW r \in Requests, Step(r)
      PROVE  booking'[b].start = booking[b].start \/ Rescheduled(b)'
  <2>1. CASE Shifts(r)
    <3>1. WriteReschedule(r)
      BY <1>3, <2>1 DEF Shifts, Step, CancelUpdate, DeclineUpdate, TakeLock, Check, Write,
         WriteBooking, WriteHold, WriteSeat, WriteConfirm, WriteMove, DropHold, BurnLink, Writing
    <3>2. booking' = booking \/ Commit(r)
      BY <3>1 DEF WriteReschedule
    <3>3. CASE Commit(r)
      <4>1. req'[r].ans = "ok"
        BY <1>0, <3>3 DEF Commit, TypeOK, Request
      <4>2. SameAsk(req'[r], req[r])
        BY <1>0, <1>3, StepTurns, TurnsReq
      <4>3. req[r].target = b => Rescheduled(b)'
        BY <2>1, <4>1, <4>2 DEF Shifts, SameAsk, Rescheduled
      <4> QED
        BY <2>1, <4>3 DEF Shifts, OthersStay
    <3> QED
      BY <3>2, <3>3
  <2>2. CASE Drops(r) \/ Agrees(r) \/ Opens(r)
    BY <2>2 DEF Drops, Agrees, Opens, OthersStay
  <2>3. CASE Replaced(r)
    BY <2>3 DEF Replaced
  <2>4. CASE Stays(r)
    BY <2>4 DEF Stays
  <2>5. RowsTurn(r)
    BY <1>3, StepRows
  <2>6. Joins(req[r].target) => req[r].target \in Ids
    BY DEF Joins
  <2> QED
    BY <1>1, <2>1, <2>2, <2>3, <2>4, <2>5, <2>6 DEF RowsTurn
<1>4. CASE booking' = booking
  BY <1>4
<1> QED
  BY <1>0, <1>2, <1>3, <1>4, NextCases DEF Aside, Crash

(* A row that comes up is the one its request was about to write. *)
LEMMA NewRow ==
  ASSUME EndInv, [Next]_vars, NEW b \in Requests, booking[b].status = "absent",
         booking'[b].status # "absent"
  PROVE  /\ req[b].pc = "write" /\ req[b].op \in PlaceOps \cup {"move"}
         /\ booking'[b].hosts = req[b].hosts /\ booking'[b].start = req[b].start
<1>1. \E r \in Requests : b = r /\ (Opens(r) \/ Replaced(r))
  BY NextRows DEF RowsMay, Joins, Drops, Shifts, Agrees, Opens, Replaced, OthersStay, Live, Ids
<1>2. CASE Opens(b)
  BY <1>2 DEF Opens
<1>3. CASE Replaced(b)
  <2>1. booking[req[b].target].hosts = req[b].hosts
    BY <1>3 DEF Replaced, EndInv, GuardedInv, TargetsKept, MoveOps
  <2> QED
    BY <1>3, <2>1 DEF Replaced
<1> QED
  BY <1>1, <1>2, <1>3

(* Booking b, asked for by q, and hold g. *)
Meets(row, q, g, t) ==
    /\ row.status \in {"accepted", "pending"} /\ q.strict
    /\ g.member \in row.hosts /\ g.release > t /\ Overlap(g.start, row.start)

Spared(row, q, h, g) == q.hold = h \/ (row.event = g.event /\ row.start = g.start)

LEMMA HeldStep ==
  ASSUME HoldTimesInv, [Next]_vars
  PROVE  HeldTimeKept'
<1>0. /\ TypeOK /\ TypeOK' /\ now \in Nat /\ now' \in {now, now + 1}
      /\ EndInv /\ HoldInv /\ AllAsk /\ RowsUnwritten
      /\ \A h \in Requests : hold[h].release \in Nat /\ req[h].at \in Nat /\ req[h].at <= now
  <2>1. TypeOK /\ EndInv /\ HoldInv /\ AllAsk /\ RowsUnwritten
    BY DEF HoldTimesInv, EndInv, GuardedInv
  <2>2. TypeOK'
    BY <2>1, NextGuarded DEF EndInv, GuardedInv
  <2> QED
    BY <2>1, <2>2, ClockOn, TimesAssumption DEF TypeOK, Hold, Request, HoldInv, HoldsAsked, HoldAsked
<1>1. ASSUME NEW b \in Requests, NEW h \in Requests, ~ Rescheduled(b)',
             Meets(booking'[b], req'[b], hold'[h], now')
      PROVE  Spared(booking'[b], req'[b], h, hold'[h])
  <2>0. b \in Ids /\ booking'[b].hosts \subseteq Members
    BY <1>0 DEF Ids, TypeOK, Row
  <2>1. hold'[h].member # None
    BY <1>1, <2>0, NamesAssumption DEF Meets
  <2>2. CASE booking[b].status # "absent"
    <3>1. SameAsk(req'[b], req[b])
      BY <1>0, <2>2, AskKept DEF RowsUnwritten
    <3>2. ~ Rescheduled(b)
      BY <1>0, <1>1, <2>0, RescheduledKept
    <3>3. /\ booking'[b].event = booking[b].event /\ booking'[b].hosts = booking[b].hosts
          /\ booking'[b].start = booking[b].start
      BY <1>0, <1>1, <2>0, <2>2, Kept, StartKept
    <3>4. Live(b)
      <4>1. booking[b].status \in Status
        BY <1>0, <2>0 DEF TypeOK, Row
      <4>2. booking[b].status \notin {"cancelled", "rejected"}
        BY <1>0, <1>1, <2>0, EndedStep DEF Meets
      <4> QED
        BY <2>2, <4>1, <4>2 DEF Status, Live
    <3>5. ASSUME hold'[h] = hold[h]
          PROVE  Spared(booking'[b], req'[b], h, hold'[h])
      <4>1. hold[h].release > now
        BY <1>0, <1>1, <3>5 DEF Meets
      <4>2. req[b].hold = h \/ (booking[b].event = hold[h].event /\ booking[b].start = hold[h].start)
        BY <1>1, <3>1, <3>2, <3>3, <3>4, <3>5, <4>1 DEF HoldTimesInv, HeldTimeKept, Meets, SameAsk
      <4> QED
        BY <3>1, <3>3, <3>5, <4>2 DEF Spared, SameAsk
    <3>6. CASE Shrinks
      BY <2>1, <3>5, <3>6 DEF Shrinks, NoHold
    <3>7. ASSUME NEW r \in Requests, WriteHold(r)
          PROVE  Spared(booking'[b], req'[b], h, hold'[h])
      <4>1. /\ \A g \in Requests \ {r} : hold'[g] = hold[g]
            /\ hold'[r].member = req[r].org /\ hold'[r].start = req[r].start
            /\ hold'[r].event = req[r].event /\ AboutToHold(r)
        BY <1>0, <3>7, HoldWritten
      <4>2. OfferedIn(booking, req[r].event, req[r].org, req[r].start)
        BY <4>1 DEF HoldTimesInv, OffersOpen
      <4>3. ASSUME h = r
            PROVE  booking[b].event = req[r].event /\ booking[b].start = req[r].start
        <5>1. Overlap(booking[b].start, req[r].start)
          BY <1>1, <3>3, <4>1, <4>3 DEF Meets, Overlap
        <5> QED
          BY <1>1, <2>0, <3>3, <3>4, <4>1, <4>2, <4>3, <5>1 DEF OfferedIn, Meets, Live
      <4> QED
        BY <3>3, <3>5, <4>1, <4>3 DEF Spared
    <3> QED
      BY <1>0, <3>6, <3>7, HoldsStep
  <2>3. CASE booking[b].status = "absent"
    <3>1. /\ req[b].pc = "write" /\ req[b].op \in PlaceOps \cup {"move"}
          /\ booking'[b].hosts = req[b].hosts /\ booking'[b].start = req[b].start
      BY <1>0, <1>1, <2>3, NewRow DEF Meets
    <3>2. hold'[h] = hold[h]
      <4>1. ~ \E r \in Requests : WriteHold(r)
        BY <1>1, <2>3 DEF WriteHold, Meets
      <4> QED
        BY <1>0, <2>1, <4>1, HoldsStep DEF Shrinks, NoHold
    <3>3. SameAsk(req'[b], req[b])
      BY <1>0, <3>1, AskKept
    <3>4. NotHeld(req[b])
      BY <3>1 DEF HoldTimesInv, HoldersFree
    <3>5. hold[h].release > req[b].at
      BY <1>0, <1>1, <3>2 DEF Meets
    <3>6. req[b].hold = h
      BY <1>1, <3>1, <3>2, <3>3, <3>4, <3>5 DEF Meets, NotHeld, Held, MemberHeld, SameAsk
    <3> QED
      BY <3>3, <3>6 DEF Spared, SameAsk
  <2> QED
    BY <2>2, <2>3
<1>2. ASSUME NEW b \in Requests, NEW h \in Requests,
             /\ booking'[b].status \in {"accepted", "pending"} /\ req'[b].strict
             /\ ~ Rescheduled(b)' /\ hold'[h].member \in booking'[b].hosts
             /\ hold'[h].release > now' /\ Overlap(hold'[h].start, booking'[b].start)
      PROVE  \/ req'[b].hold = h
             \/ booking'[b].event = hold'[h].event /\ booking'[b].start = hold'[h].start
  <2>1. Meets(booking'[b], req'[b], hold'[h], now')
    BY <1>2 DEF Meets
  <2>2. Spared(booking'[b], req'[b], h, hold'[h])
    BY <1>1, <1>2, <2>1
  <2> QED
    BY <2>2 DEF Spared
<1> QED
  BY <1>2 DEF HeldTimeKept, Live, Overlap

LEMMA InitHeld ==
  ASSUME Init, SeedsHosted
  PROVE  HoldTimesInv
<1>1. \A r \in Requests : req[r] = Idle /\ hold[r] = NoHold
  BY DEF Init
<1>2. HoldersFree /\ OffersOpen /\ AllAsk
  BY <1>1 DEF HoldersFree, OffersOpen, AboutToHold, AllAsk, Asks, Idle
<1>3. HeldTimeKept
  BY <1>1 DEF HeldTimeKept, Idle
<1> QED
  BY <1>2, <1>3, InitEnds, InitHolds DEF HoldTimesInv

(* A hold and a booking over one host never both get through, for every    *)
(* booking that promises to mind holds and that no v1 reschedule has moved. *)
THEOREM HeldTimesKept == ASSUME SeedsHosted PROVE Spec => []HeldTimeKept
<1>1. Init => HoldTimesInv
  BY InitHeld
<1>2. HoldTimesInv /\ [Next]_vars => HoldTimesInv'
  <2> SUFFICES ASSUME HoldTimesInv, [Next]_vars PROVE HoldTimesInv'
    OBVIOUS
  <2>1. EndInv /\ HoldInv /\ HoldersFree /\ OffersOpen /\ AllAsk /\ TypeOK
    BY DEF HoldTimesInv, EndInv, GuardedInv
  <2>2. EndInv' /\ HoldInv' /\ HoldersFree' /\ OffersOpen' /\ AllAsk'
    BY <2>1, NextEnds, NextHolds, HoldersStep, OffersStep, AskStep
  <2> QED
    BY <2>2, HeldStep DEF HoldTimesInv
<1>3. HoldTimesInv => HeldTimeKept
  BY DEF HoldTimesInv
<1> QED
  BY <1>1, <1>2, <1>3, PTL DEF Spec

-----------------------------------------------------------------------------
(* People. *)

(* A group of a personal event type that has no more people than seats. *)
Fits(row) ==
    row.event # None /\ row.event.kind = "personal" /\ row.event.seats > 1
        => Cardinality(row.people) <= row.event.seats

SeedsFit == \A row \in SeedRows : Fits(row)

(* The seats a request found are there until it writes. *)
SeatsStay ==
    \A r \in Requests : req[r].pc = "write" /\ req[r].op = "seat" => SeatsFit(req[r])

PeopleInv == EndInv /\ AllAsk /\ SeatsStay /\ PeopleWithinLimit

(* The host's guests join a booking that stands and that no seat or move   *)
(* is about to write.                                                      *)
GuestRoom(b) == IF PeopleCap > Seats(booking[b].event) THEN PeopleCap ELSE Seats(booking[b].event)

Invites(r) ==
    \E b \in Ids :
        /\ Live(b) /\ ~ RowLocked(b) /\ OthersStay(b)
        /\ booking'[b].people \subseteq People
        /\ \/ KeepsPeople(b)
           \/ Cardinality(booking'[b].people) <= GuestRoom(b)
        /\ req'[r].op = "guest" /\ req'[r].ans = "ok" /\ req'[r].target = b

(* A request takes its seats. *)
Seated(r) ==
    LET b == req[r].target IN
    /\ req[r].pc = "write" /\ req[r].op = "seat" /\ b \in Ids
    /\ booking'[b].people = booking[b].people \cup req[r].who /\ OthersStay(b)

(* The rows that were there keep their people. *)
PeopleStay == \A b \in Ids : booking[b].status # "absent" => KeepsPeople(b)

LEMMA GuestsInvite ==
  ASSUME TypeOK, IsFiniteSet(People), NEW r \in Requests, GuestRequest(r)
  PROVE  booking' = booking \/ Invites(r)
<1>1. PICK b \in Ids, who \in SUBSET People : GuestRequest(r)!(b, who)
  BY DEF GuestRequest
<1> DEFINE new == who \ booking[b].people
           fits == Live(b) /\ (new # {} => Cardinality(booking[b].people) + Cardinality(new)
                                  <= (IF PeopleCap > Seats(booking[b].event) THEN PeopleCap
                                      ELSE Seats(booking[b].event)))
           n == [About(b) EXCEPT !.op = "guest", !.at = now, !.pc = "done",
                                 !.ans = IF fits THEN "ok" ELSE "refused"]
<1>2. /\ MayWriteRow(b) /\ req' = [req EXCEPT ![r] = n]
      /\ booking' = IF fits THEN [booking EXCEPT ![b].people = @ \cup new] ELSE booking
  BY <1>1
<1>3. n.op = "guest" /\ n.target = b /\ (fits => n.ans = "ok")
  BY DEF About, Idle
<1>4. CASE ~ fits
  <2>1. booking' = booking
    BY <1>2, <1>4
  <2> QED
    BY <2>1
<1>5. CASE fits
  <2>1. booking' = [booking EXCEPT ![b].people = @ \cup new] /\ Live(b)
    BY <1>2, <1>5
  <2>2. /\ booking[b].people \subseteq People /\ new \subseteq People
        /\ booking[b].people \cap new = {}
    BY DEF TypeOK, Row
  <2>3. new # {} => Cardinality(booking[b].people) + Cardinality(new) <= GuestRoom(b)
    BY <1>5 DEF GuestRoom
  <2> HIDE DEF n, fits, new
  <2>4. booking'[b].people = booking[b].people \cup new /\ OthersStay(b)
    BY <2>1, PeopleRow DEF OthersStay
  <2>5. req'[r] = n
    BY <1>2 DEF TypeOK
  <2>6. CASE new = {}
    <3>1. KeepsPeople(b)
      BY <2>4, <2>6 DEF KeepsPeople
    <3> QED
      BY <1>2, <1>3, <1>5, <2>1, <2>2, <2>4, <2>5, <3>1 DEF Invites, MayWriteRow
  <2>7. CASE new # {}
    <3>1. IsFiniteSet(booking[b].people) /\ IsFiniteSet(new)
      BY <2>2, FS_Subset
    <3>2. Cardinality(booking[b].people) \in Nat /\ Cardinality(new) \in Nat
      BY <3>1, FS_CardinalityType
    <3>3. Cardinality(booking'[b].people)
            = Cardinality(booking[b].people) + Cardinality(new) - Cardinality(booking[b].people \cap new)
      BY <2>4, <3>1, FS_Union
    <3>6. Cardinality(booking[b].people \cap new) = 0
      BY <2>2, FS_EmptySet
    <3>4. Cardinality(booking'[b].people) = Cardinality(booking[b].people) + Cardinality(new)
      BY <3>2, <3>3, <3>6
    <3>5. Cardinality(booking'[b].people) <= GuestRoom(b)
      BY <2>3, <2>7, <3>4
    <3> QED
      BY <1>2, <1>3, <1>5, <2>1, <2>2, <2>4, <2>5, <3>5 DEF Invites, MayWriteRow
  <2> QED
    BY <2>6, <2>7
<1> HIDE DEF fits
<1> QED
  BY <1>4, <1>5

LEMMA ArrivePeople ==
  ASSUME TypeOK, IsFiniteSet(People), NEW r \in Requests, Arrive(r)
  PROVE  booking' = booking \/ Invites(r)
<1>1. CASE GuestRequest(r)
  BY <1>1, GuestsInvite
<1>2. ASSUME NEW op, NEW rec, Submit(r, op, rec)
      PROVE  booking' = booking
  BY <1>2 DEF Submit
<1>3. CASE BookRequest(r)
  <2>1. PICK e \in Events, s \in Starts, h \in Requests \cup {None}, k \in Keys \cup {None},
             l \in Links \cup {None}, people \in SUBSET People, strict \in BOOLEAN, m \in Members :
          BookRequest(r)!(e, s, h, k, l, people, strict, m)
    BY <1>3 DEF BookRequest
  <2> DEFINE rec == [Idle EXCEPT !.event = e, !.hosts = {m}, !.org = m, !.start = s,
                                 !.hold = h, !.link = l, !.key = k, !.who = people,
                                 !.strict = strict, !.pc = "lock"]
  <2>2. \/ Submit(r, "book", rec)
        \/ Submit(r, "seat", [rec EXCEPT !.pc = "done", !.ans = "replay"])
        \/ \E b \in GroupRows(e, s) : Submit(r, "seat", [rec EXCEPT !.target = b])
    BY <2>1
  <2> HIDE DEF rec
  <2> QED
    BY <1>2, <2>2
<1>4. CASE BookWithExpiredHold(r) \/ HostEventRequest(r)
  BY <1>2, <1>4 DEF BookWithExpiredHold, HostEventRequest
<1>5. CASE TeamRequest(r)
  BY <1>2, <1>5 DEF TeamRequest
<1>6. CASE HoldRequest(r) \/ ReleaseRequest(r) \/ Refuse(r)
           \/ \E op \in {"book", "hostEvent", "move"}, k \in Keys : Replay(r, op, k)
  BY <1>2, <1>6 DEF HoldRequest, ReleaseRequest, Refuse, Replay
<1>7. CASE RescheduleRequest(r) \/ MoveRequest(r) \/ ConfirmRequest(r) \/ CancelRequest(r)
           \/ DeclineRequest(r)
  BY <1>2, <1>7 DEF RescheduleRequest, MoveRequest, ConfirmRequest, CancelRequest, DeclineRequest
<1> QED
  BY <1>1, <1>3, <1>4, <1>5, <1>6, <1>7 DEF Arrive

LEMMA StepPeople ==
  ASSUME EndInv, NEW r \in Requests, Step(r) \/ Crash(r)
  PROVE  PeopleStay \/ Seated(r)
<1>0. TypeOK
  BY DEF EndInv, GuardedInv
<1>1. CASE Joins(req[r].target) /\ req[r].op = "seat"
  <2>1. CASE WriteSeat(r)
    <3>1. req[r].pc = "write" /\ req[r].target \in Ids
      BY <1>1, <2>1 DEF WriteSeat, Writing, Joins
    <3>2. booking' = [booking EXCEPT ![req[r].target].people = @ \cup req[r].who]
      BY <2>1 DEF WriteSeat
    <3>3. booking'[req[r].target].people = booking[req[r].target].people \cup req[r].who
          /\ OthersStay(req[r].target)
      BY <1>0, <3>1, <3>2, PeopleRow DEF OthersStay
    <3> QED
      BY <1>1, <3>1, <3>3 DEF Seated
  <2>2. CASE ~ WriteSeat(r)
    <3>1. booking' = booking
      BY <1>1, <2>2 DEF Step, Crash, CancelUpdate, DeclineUpdate, TakeLock, Check, Write, WriteBooking,
         WriteHold, WriteReschedule, WriteConfirm, WriteMove, DropHold, BurnLink, Writing
    <3> QED
      BY <3>1 DEF PeopleStay, KeepsPeople
  <2> QED
    BY <2>1, <2>2
<1>2. CASE Stays(r)
  BY <1>2 DEF Stays, PeopleStay, KeepsPeople
<1>3. CASE Drops(r) \/ Shifts(r) \/ Agrees(r) \/ Opens(r)
  BY <1>3 DEF Drops, Shifts, Agrees, Opens, OthersStay, PeopleStay, KeepsPeople
<1>4. CASE Replaced(r)
  BY <1>4 DEF Replaced, PeopleStay, KeepsPeople
<1>5. RowsTurn(r)
  BY StepRows
<1> QED
  BY <1>1, <1>2, <1>3, <1>4, <1>5 DEF RowsTurn

(* How a step changes who is on the bookings that are there. *)
LEMMA NextPeople ==
  ASSUME EndInv, IsFiniteSet(People), [Next]_vars
  PROVE  PeopleStay \/ \E r \in Requests : Seated(r) \/ Invites(r)
<1>0. TypeOK
  BY DEF EndInv, GuardedInv
<1>1. CASE booking' = booking
  BY <1>1 DEF PeopleStay, KeepsPeople
<1>2. CASE booking' # booking
  <2>1. \E r \in Requests : Arrive(r) \/ Step(r) \/ Crash(r)
    BY <1>2 DEF Next, Revoke, Tick, Finished, vars
  <2> QED
    BY <1>0, <1>2, <2>1, ArrivePeople, StepPeople
<1> QED
  BY <1>1, <1>2

LEMMA SeatsStep ==
  ASSUME EndInv, SeatsStay, IsFiniteSet(People), [Next]_vars
  PROVE  SeatsStay'
<1>0. TypeOK
  BY DEF EndInv, GuardedInv
<1> DEFINE Room(bk, q) == Cardinality(bk[q.target].people \cup q.who) <= q.event.seats
<1>1. ASSUME NEW s \in Requests, req[s].pc = "write", req[s].op = "seat"
      PROVE  Room(booking', req[s])
  <2>1. Room(booking, req[s]) /\ RowLocked(req[s].target)
    BY <1>1 DEF SeatsStay, SeatsFit, RowLocked
  <2>2. req[s].target \in Ids /\ booking[req[s].target].status # "absent"
    BY <1>1 DEF EndInv, Wanted, Wants
  <2>3. CASE PeopleStay
    BY <2>1, <2>2, <2>3 DEF PeopleStay, KeepsPeople
  <2>4. ASSUME NEW r \in Requests, Invites(r)
        PROVE  Room(booking', req[s])
    BY <2>1, <2>2, <2>4 DEF Invites, OthersStay
  <2>5. ASSUME NEW r \in Requests, Seated(r)
        PROVE  Room(booking', req[s])
    <3>1. CASE r = s
      <4>1. booking'[req[s].target].people \cup req[s].who = booking[req[s].target].people \cup req[s].who
        BY <2>5, <3>1 DEF Seated
      <4> QED
        BY <2>1, <4>1
    <3>2. CASE r # s
      <4>1. req[r].target # req[s].target
        BY <1>1, <2>5, <3>2, OneMover DEF Seated
      <4> QED
        BY <2>1, <2>2, <2>5, <4>1 DEF Seated, OthersStay
    <3> QED
      BY <3>1, <3>2
  <2> QED
    BY <2>3, <2>4, <2>5, NextPeople
<1>2. ASSUME NEW s \in Requests, req'[s].pc = "write", req'[s].op = "seat"
      PROVE  Room(booking', req'[s])
  <2>1. CASE req'[s] = req[s]
    BY <1>1, <1>2, <2>1
  <2>2. CASE Passes(req[s]) /\ SameAsk(req'[s], req[s]) /\ booking' = booking
    <3>1. SeatsFit(req[s])
      BY <1>2, <2>2 DEF Passes, SameAsk
    <3> QED
      BY <2>2, <3>1 DEF SeatsFit, SameAsk
  <2> QED
    BY <1>0, <1>2, <2>1, <2>2, WriteBefore
<1>3. ASSUME NEW s \in Requests, Room(booking', req'[s])
      PROVE  SeatsFit(req[s])'
  BY <1>3 DEF SeatsFit
<1> QED
  BY <1>2, <1>3 DEF SeatsStay

(* Guests the host has added stay, under the uid the meeting goes on as. *)
LEMMA GuestedKept ==
  ASSUME EndInv, AllAsk, [Next]_vars, NEW b \in Ids, Guested(b)
  PROVE  Guested(b)'
<1>1. PICK r \in Requests : /\ req[r].op = "guest" /\ req[r].ans = "ok"
                            /\ GoesOnAs(req[r].target, b)
  BY DEF Guested
<1>2. req'[r] = req[r]
  BY <1>1, AskKept DEF AllAsk, Asks, EndInv, GuardedInv
<1>3. PICK S \in SUBSET Ids :
        /\ req[r].target \in S /\ b \in S
        /\ \A c \in S \ {b} : booking[c].status = "cancelled" /\ booking[c].to \in S
  BY <1>1 DEF GoesOnAs
<1>4. \A c \in S \ {b} : booking'[c] = booking[c]
  BY <1>3, EndedStep
<1>5. GoesOnAs(req[r].target, b)'
  BY <1>2, <1>3, <1>4 DEF GoesOnAs
<1> QED
  BY <1>1, <1>2, <1>5 DEF Guested

LEMMA GuestedMoved ==
  ASSUME EndInv, AllAsk, [Next]_vars, NEW m \in Requests, Replaced(m), Guested(req[m].target)
  PROVE  Guested(m)'
<1> DEFINE b == req[m].target
<1>0. b \in Ids /\ m \in Ids /\ booking'[b].status = "cancelled" /\ booking'[b].to = m
  BY DEF Replaced, Ids
<1>1. PICK r \in Requests : /\ req[r].op = "guest" /\ req[r].ans = "ok"
                            /\ GoesOnAs(req[r].target, b)
  BY DEF Guested
<1> HIDE DEF b
<1>2. req'[r] = req[r]
  BY <1>1, AskKept DEF AllAsk, Asks, EndInv, GuardedInv
<1>3. PICK S \in SUBSET Ids :
        /\ req[r].target \in S /\ b \in S
        /\ \A c \in S \ {b} : booking[c].status = "cancelled" /\ booking[c].to \in S
  BY <1>1 DEF GoesOnAs
<1>4. \A c \in S \ {b} : booking'[c] = booking[c]
  BY <1>3, EndedStep
<1> DEFINE T == S \cup {m}
<1>5. /\ T \in SUBSET Ids /\ req[r].target \in T /\ m \in T
      /\ \A c \in T \ {m} : booking'[c].status = "cancelled" /\ booking'[c].to \in T
  BY <1>0, <1>3, <1>4
<1>6. GoesOnAs(req[r].target, m)'
  BY <1>2, <1>5 DEF GoesOnAs
<1> QED
  BY <1>1, <1>2, <1>6 DEF Guested

LEMMA WithinStep ==
  ASSUME PeopleInv, IsFiniteSet(People), [Next]_vars
  PROVE  PeopleWithinLimit'
<1>0. /\ TypeOK /\ EndInv /\ AllAsk
      /\ PeopleCap \in Nat
  BY TimesAssumption DEF PeopleInv, EndInv, GuardedInv
<1> DEFINE Group(e) == e # None /\ e.kind = "personal" /\ e.seats > 1
           n(row) == Cardinality(row.people)
<1>1. ASSUME NEW b \in Ids, booking'[b].status \in {"accepted", "pending"}, Group(booking'[b].event)
      PROVE  \/ n(booking'[b]) <= booking'[b].event.seats
             \/ Guested(b)' /\ n(booking'[b]) <= PeopleCap
  <2>1. CASE booking[b].status # "absent"
    <3>1. booking'[b].event = booking[b].event
      BY <1>0, <2>1, Kept
    <3>2. Live(b)
      <4>1. booking[b].status \in Status
        BY <1>0 DEF TypeOK, Row
      <4>2. booking[b].status \notin {"cancelled", "rejected"}
        BY <1>0, <1>1, EndedStep
      <4> QED
        BY <2>1, <4>1, <4>2 DEF Status, Live
    <3>3. ASSUME booking'[b].people = booking[b].people
          PROVE  \/ n(booking'[b]) <= booking'[b].event.seats
                 \/ Guested(b)' /\ n(booking'[b]) <= PeopleCap
      <4>1. n(booking[b]) <= booking[b].event.seats \/ (Guested(b) /\ n(booking[b]) <= PeopleCap)
        BY <1>1, <3>1, <3>2 DEF PeopleInv, PeopleWithinLimit
      <4>2. Guested(b) => Guested(b)'
        BY <1>0, GuestedKept
      <4> QED
        BY <3>1, <3>3, <4>1, <4>2
    <3>4. CASE PeopleStay
      BY <2>1, <3>3, <3>4 DEF PeopleStay, KeepsPeople
    <3>5. ASSUME NEW r \in Requests, Seated(r)
          PROVE  \/ n(booking'[b]) <= booking'[b].event.seats
                 \/ Guested(b)' /\ n(booking'[b]) <= PeopleCap
      <4>1. CASE req[r].target = b
        <5>1. SeatsFit(req[r]) /\ booking[b].event = req[r].event
          BY <3>5, <4>1 DEF Seated, PeopleInv, SeatsStay, EndInv, Wanted, Wants
        <5>2. booking'[b].people = booking[b].people \cup req[r].who
          BY <3>5, <4>1 DEF Seated
        <5> QED
          BY <3>1, <4>1, <5>1, <5>2 DEF SeatsFit
      <4>2. CASE req[r].target # b
        BY <3>3, <3>5, <4>2 DEF Seated, OthersStay
      <4> QED
        BY <4>1, <4>2
    <3>6. ASSUME NEW r \in Requests, Invites(r)
          PROVE  \/ n(booking'[b]) <= booking'[b].event.seats
                 \/ Guested(b)' /\ n(booking'[b]) <= PeopleCap
      <4>1. PICK c \in Ids :
              /\ OthersStay(c) /\ (KeepsPeople(c) \/ n(booking'[c]) <= GuestRoom(c))
              /\ req'[r].op = "guest" /\ req'[r].ans = "ok" /\ req'[r].target = c
        BY <3>6 DEF Invites
      <4>2. CASE c = b /\ n(booking'[b]) <= GuestRoom(b)
        <5>1. GuestRoom(b) = PeopleCap \/ GuestRoom(b) = booking'[b].event.seats
          BY <1>1, <3>1 DEF GuestRoom, Seats
        <5>2. GoesOnAs(b, b)'
          <6>1. {b} \in SUBSET Ids /\ b \in {b} /\ {b} \ {b} = {}
            OBVIOUS
          <6> QED
            BY <6>1 DEF GoesOnAs
        <5>3. Guested(b)'
          BY <4>1, <4>2, <5>2 DEF Guested
        <5> QED
          BY <4>2, <5>1, <5>3
      <4>3. CASE ~ (c = b /\ n(booking'[b]) <= GuestRoom(b))
        BY <3>3, <4>1, <4>3 DEF OthersStay, KeepsPeople
      <4> QED
        BY <4>2, <4>3
    <3> QED
      BY <1>0, <3>4, <3>5, <3>6, NextPeople
  <2>2. CASE booking[b].status = "absent"
    <3>1. \E r \in Requests : b = r /\ (Opens(r) \/ Replaced(r))
      BY <1>0, <1>1, <2>2, NextRows
         DEF RowsMay, Joins, Drops, Shifts, Agrees, Opens, Replaced, OthersStay, Live
    <3>2. ASSUME NEW r \in Requests, b = r, Opens(r)
          PROVE  n(booking'[b]) <= booking'[b].event.seats
      <4>1. PartyFits(req[r]) /\ req[r].op \in PlaceOps
        BY <3>2 DEF Opens, PeopleInv, AllAsk, Asks
      <4> QED
        BY <1>1, <3>2, <4>1 DEF Opens, PartyFits
    <3>3. ASSUME NEW r \in Requests, b = r, Replaced(r)
          PROVE  \/ n(booking'[b]) <= booking'[b].event.seats
                 \/ Guested(b)' /\ n(booking'[b]) <= PeopleCap
      <4>1. /\ req[r].target \in Ids /\ Live(req[r].target)
            /\ booking'[b].event = booking[req[r].target].event
            /\ booking'[b].people = booking[req[r].target].people
        BY <3>3 DEF Replaced
      <4>2. \/ n(booking[req[r].target]) <= booking[req[r].target].event.seats
            \/ Guested(req[r].target) /\ n(booking[req[r].target]) <= PeopleCap
        BY <1>1, <4>1 DEF PeopleInv, PeopleWithinLimit
      <4>3. Guested(req[r].target) => Guested(b)'
        BY <1>0, <3>3, GuestedMoved
      <4> QED
        BY <4>1, <4>2, <4>3
    <3> QED
      BY <3>1, <3>2, <3>3
  <2> QED
    BY <2>1, <2>2
<1> QED
  BY <1>1 DEF PeopleWithinLimit, Live

LEMMA InitPeople ==
  ASSUME Init, SeedsHosted, SeedsFit
  PROVE  PeopleInv
<1>1. \A r \in Requests : req[r] = Idle
  BY DEF Init
<1>2. PICK row \in [Seeds -> SeedRows] :
        booking = [b \in Ids |-> IF b \in Seeds THEN row[b] ELSE NoRow]
  BY DEF Init
<1>3. AllAsk /\ SeatsStay
  BY <1>1 DEF AllAsk, Asks, SeatsStay, Idle
<1>4. PeopleWithinLimit
  <2>1. ASSUME NEW b \in Ids, Live(b)
        PROVE  Fits(booking[b])
    BY <1>2, <2>1 DEF SeedsFit, Live, NoRow
  <2> QED
    BY <2>1 DEF PeopleWithinLimit, Fits
<1> QED
  BY <1>3, <1>4, InitEnds DEF PeopleInv

(* A group slot never seats more people than it has seats, and the guests   *)
(* the host adds never take it past BOOKING_PEOPLE_LIMIT, however many      *)
(* seats, guests and moves race.                                           *)
THEOREM PeopleAreSeated ==
  ASSUME SeedsHosted, SeedsFit, IsFiniteSet(People)
  PROVE  Spec => []PeopleWithinLimit
<1>1. Init => PeopleInv
  BY InitPeople
<1>2. PeopleInv /\ [Next]_vars => PeopleInv'
  <2> SUFFICES ASSUME PeopleInv, [Next]_vars PROVE PeopleInv'
    OBVIOUS
  <2>1. EndInv /\ AllAsk /\ SeatsStay /\ TypeOK
    BY DEF PeopleInv, EndInv, GuardedInv
  <2> QED
    BY <2>1, NextEnds, AskStep, SeatsStep, WithinStep DEF PeopleInv
<1>3. PeopleInv => PeopleWithinLimit
  BY DEF PeopleInv
<1> QED
  BY <1>1, <1>2, <1>3, PTL DEF Spec

-----------------------------------------------------------------------------
(* The diary of HostCalendar. *)

Shown(st) == CASE st = "absent" -> "blank"
               [] st = "pending" -> "requested"
               [] st = "accepted" -> "agreed"
               [] OTHER -> "off"

(* The entry of b in the diary of the rows bk. *)
Page(bk, b) == [state |-> Shown(bk[b].status), hosts |-> bk[b].hosts, start |-> bk[b].start]

LEMMA Pages == Diary = [b \in Ids |-> Page(booking, b)] /\ Diary' = [b \in Ids |-> Page(booking', b)]
  BY DEF Diary, Page, Shown

(* The steps of HostCalendar from diary d to diary e. *)
Stood(d, m) == d[m].state \in {"requested", "agreed"}

FreeOn(d, hosts, t, except) ==
    \A m \in Ids \ except : Stood(d, m) /\ d[m].hosts \cap hosts # {} => ~ Overlap(d[m].start, t)

PlaceOn(d, e, m) ==
    \E hosts \in SUBSET Members, start \in Starts, st \in {"requested", "agreed"} :
        /\ d[m].state = "blank" /\ FreeOn(d, hosts, start, {})
        /\ e = [d EXCEPT ![m] = [state |-> st, hosts |-> hosts, start |-> start]]

AgreeOn(d, e, m) == d[m].state = "requested" /\ e = [d EXCEPT ![m].state = "agreed"]

MoveOn(d, e, m) ==
    \E start \in Starts : /\ d[m].state = "agreed" /\ FreeOn(d, d[m].hosts, start, {m})
                           /\ e = [d EXCEPT ![m].start = start]

ReplaceOn(d, e, m, n) ==
    \E start \in Starts, st \in {"requested", "agreed"} :
        /\ m # n /\ Stood(d, m) /\ d[n].state = "blank" /\ FreeOn(d, d[m].hosts, start, {m})
        /\ e = [d EXCEPT ![m].state = "off",
                         ![n] = [state |-> st, hosts |-> d[m].hosts, start |-> start]]

DropOn(d, e, m) == Stood(d, m) /\ e = [d EXCEPT ![m].state = "off"]

StepOn(d, e) ==
    \E m \in Ids : \/ PlaceOn(d, e, m) \/ AgreeOn(d, e, m) \/ MoveOn(d, e, m) \/ DropOn(d, e, m)
                   \/ \E n \in Ids : ReplaceOn(d, e, m, n)

LEMMA DropsOn ==
  ASSUME NEW m \in Ids, DropOn(Diary, Diary', m)
  PROVE  HC!Next
  BY DEF DropOn, Stood, HC!Drop, HC!Occupies, HC!Next

LEMMA AgreesOn ==
  ASSUME NEW m \in Ids, AgreeOn(Diary, Diary', m)
  PROVE  HC!Next
  BY DEF AgreeOn, HC!Agree, HC!Next

LEMMA MovesOn ==
  ASSUME NEW m \in Ids, MoveOn(Diary, Diary', m)
  PROVE  HC!Next
  BY DEF MoveOn, Stood, FreeOn, Overlap, HC!Move, HC!Occupies, HC!Free, HC!Overlap, HC!Next

LEMMA PlacesOn ==
  ASSUME NEW m \in Ids, PlaceOn(Diary, Diary', m)
  PROVE  HC!Next
  BY DEF PlaceOn, Stood, FreeOn, Overlap, HC!Place, HC!Occupies, HC!Free, HC!Overlap, HC!Next

LEMMA ReplacesOn ==
  ASSUME NEW m \in Ids, NEW n \in Ids, ReplaceOn(Diary, Diary', m, n)
  PROVE  HC!Next
<1>1. HC!Replace(m, n)
  BY DEF ReplaceOn, Stood, FreeOn, Overlap, HC!Replace, HC!Occupies, HC!Free, HC!Overlap
<1> QED
  BY <1>1, Zenon DEF HC!Next, HC!Replace

-----------------------------------------------------------------------------
(* What each step does to the diary. *)

LEMMA OnePage ==
  ASSUME NEW b \in Ids, NEW p, OthersStay(b), Page(booking', b) = p
  PROVE  Diary' = [Diary EXCEPT ![b] = p]
  BY Pages DEF Page, OthersStay

(* A time the locked members are free at is free in the diary. *)
LEMMA PagesFree ==
  ASSUME NEW hosts, NEW t, NEW e, FreeIn(booking, hosts, t, e)
  PROVE  FreeOn(Diary, hosts, t, {e})
  BY Pages DEF FreeIn, FreeOn, Stood, Page, Shown

LEMMA DropPage ==
  ASSUME NEW r \in Requests, Drops(r)
  PROVE  HC!Next
<1> DEFINE b == req[r].target
           p == [Diary[b] EXCEPT !.state = "off"]
<1>1. b \in Ids /\ Live(b) /\ OthersStay(b)
  BY DEF Drops
<1>9. /\ Shown(booking'[b].status) = "off"
      /\ booking'[b].hosts = booking[b].hosts /\ booking'[b].start = booking[b].start
  BY DEF Drops, Shown, KeepsPlan
<1>10. Diary[b] = Page(booking, b)
  BY <1>1, Pages
<1>2. Page(booking', b) = p
  BY <1>9, <1>10 DEF Page
<1>3. Stood(Diary, b)
  BY <1>1, Pages DEF Stood, Page, Shown, Live
<1>4. DropOn(Diary, Diary', b)
  BY <1>1, <1>2, <1>3, OnePage DEF DropOn
<1> QED
  BY <1>1, <1>4, DropsOn

LEMMA JoinPage ==
  ASSUME NEW b, Joins(b)
  PROVE  Diary' = Diary
<1>1. \A c \in Ids : Page(booking', c) = Page(booking, c)
  BY DEF Joins, KeepsPlan, OthersStay, Page
<1> QED
  BY <1>1, Pages

LEMMA AgreePage ==
  ASSUME NEW r \in Requests, Agrees(r)
  PROVE  HC!Next
<1> DEFINE b == req[r].target
           p == [Diary[b] EXCEPT !.state = "agreed"]
<1>1. b \in Ids /\ OthersStay(b)
  BY DEF Agrees
<1>9. /\ Shown(booking'[b].status) = "agreed"
      /\ booking'[b].hosts = booking[b].hosts /\ booking'[b].start = booking[b].start
  BY DEF Agrees, Shown, KeepsPlan
<1>10. Diary[b] = Page(booking, b)
  BY <1>1, Pages
<1>2. Page(booking', b) = p
  BY <1>9, <1>10 DEF Page
<1>3. Diary[b].state = "requested"
  BY <1>1, Pages DEF Agrees, Page, Shown
<1>4. AgreeOn(Diary, Diary', b)
  BY <1>1, <1>2, <1>3, OnePage DEF AgreeOn
<1> QED
  BY <1>1, <1>4, AgreesOn

LEMMA ShiftPage ==
  ASSUME EndInv, NEW r \in Requests, Shifts(r)
  PROVE  HC!Next
<1> DEFINE b == req[r].target
           p == [Diary[b] EXCEPT !.start = req[r].start]
<1>1. b \in Ids /\ OthersStay(b)
  BY DEF Shifts
<1>2. Page(booking', b) = p
  BY <1>1, Pages DEF Shifts, Page, Shown, KeepsPlan
<1>3. Diary[b].state = "agreed" /\ Diary[b].hosts = booking[b].hosts
  BY <1>1, Pages DEF Shifts, Page, Shown
<1>4. req[r].start \in Starts
  BY DEF Shifts, EndInv, Wanted, Wants, MoveOps
<1>5. FreeIn(booking, booking[b].hosts, req[r].start, b)
  BY FreeNow DEF Shifts, EndInv, GuardedInv, FreeToWrite, TargetsKept, MoveOps
<1>6. FreeOn(Diary, Diary[b].hosts, req[r].start, {b})
  BY <1>3, <1>5, PagesFree
<1>7. MoveOn(Diary, Diary', b)
  BY <1>1, <1>2, <1>3, <1>4, <1>6, OnePage DEF MoveOn
<1> QED
  BY <1>1, <1>7, MovesOn

LEMMA OpenPage ==
  ASSUME EndInv, NEW r \in Requests, Opens(r)
  PROVE  HC!Next
<1> DEFINE q == req[r]
           st == Shown(booking'[r].status)
           p == [state |-> st, hosts |-> q.hosts, start |-> q.start]
<1>1. r \in Ids /\ OthersStay(r) /\ st \in {"requested", "agreed"}
  BY DEF Opens, Ids, Shown
<1>2. Page(booking', r) = p
  BY DEF Opens, Page
<1>3. Diary[r].state = "blank"
  BY <1>1, Pages DEF Opens, Page, Shown
<1>4. q.start \in Starts /\ q.hosts \in SUBSET Members
  BY DEF Opens, EndInv, Wanted, Wants, GuardedInv, TypeOK, Request
<1>5. FreeIn(booking, q.hosts, q.start, None)
  BY FreeNow DEF Opens, EndInv, GuardedInv, FreeToWrite
<1>6. FreeOn(Diary, q.hosts, q.start, {})
  BY <1>5, PagesFree, NamesAssumption DEF FreeOn
<1>7. Diary' = [Diary EXCEPT ![r] = p]
  BY <1>1, <1>2, OnePage
<1>8. PlaceOn(Diary, Diary', r)
  BY <1>1, <1>3, <1>4, <1>6, <1>7 DEF PlaceOn
<1> QED
  BY <1>1, <1>8, PlacesOn

LEMMA ReplacePage ==
  ASSUME EndInv, NEW r \in Requests, Replaced(r)
  PROVE  HC!Next
<1> DEFINE q == req[r]
           b == q.target
           old == [Diary[b] EXCEPT !.state = "off"]
           st == Shown(q.seen)
           new == [state |-> st, hosts |-> Diary[b].hosts, start |-> q.start]
<1>1. r \in Ids /\ b \in Ids \ {r} /\ Live(b)
  BY DEF Replaced, Ids
<1>2. q.pc = "write" /\ q.op = "move"
  BY DEF Replaced
<1>3. st \in {"requested", "agreed"} /\ q.start \in Starts
  BY <1>2 DEF EndInv, Wanted, Wants, MoveOps, Shown
<1>4. Diary[r].state = "blank" /\ Stood(Diary, b) /\ Diary[b].hosts = booking[b].hosts
  BY <1>1, Pages DEF Replaced, Page, Shown, Stood, Live
<1>5. FreeIn(booking, booking[b].hosts, q.start, b)
  BY <1>2, FreeNow DEF EndInv, GuardedInv, FreeToWrite, TargetsKept, MoveOps
<1>6. FreeOn(Diary, Diary[b].hosts, q.start, {b})
  BY <1>4, <1>5, PagesFree
<1>7. Page(booking', b) = old
  <2>1. /\ booking'[b].status = "cancelled" /\ booking'[b].hosts = booking[b].hosts
        /\ booking'[b].start = booking[b].start
    BY DEF Replaced
  <2>2. Diary[b] = Page(booking, b)
    BY <1>1, Pages
  <2> HIDE DEF b
  <2> QED
    BY <2>1, <2>2 DEF Page, Shown
<1>8. Page(booking', r) = new
  BY <1>1, <1>4 DEF Replaced, Page
<1>9. \A c \in Ids \ {b, r} : Page(booking', c) = Page(booking, c)
  BY DEF Replaced, Page
<1>10. Diary' = [Diary EXCEPT ![b] = old, ![r] = new]
  <2> HIDE DEF old, new, b
  <2> QED
    BY <1>1, <1>7, <1>8, <1>9, Pages
<1>11. ReplaceOn(Diary, Diary', b, r)
  BY <1>1, <1>3, <1>4, <1>6, <1>10 DEF ReplaceOn
<1> QED
  BY <1>1, <1>11, ReplacesOn

LEMMA StepDiary ==
  ASSUME EndInv, [Next]_vars
  PROVE  [HC!Next]_Diary
<1>1. CASE booking' = booking
  BY <1>1, Pages DEF Page
<1>2. ASSUME NEW b \in Ids, Joins(b)
      PROVE  Diary' = Diary
  BY <1>2, JoinPage
<1>3. ASSUME NEW r \in Requests, Drops(r) \/ Shifts(r) \/ Agrees(r) \/ Opens(r) \/ Replaced(r)
      PROVE  HC!Next
  BY <1>3, DropPage, ShiftPage, AgreePage, OpenPage, ReplacePage
<1> QED
  BY <1>1, <1>2, <1>3, NextRows DEF RowsMay

LEMMA InitDiary ==
  ASSUME Init
  PROVE  HC!Init
<1>1. TypeOK /\ NoDoubleBooking
  BY InitGuarded DEF GuardedInv
<1>2. \A b \in Ids : Page(booking, b) \in HC!Entry
  BY <1>1 DEF TypeOK, Row, Page, Shown, HC!Entry, HC!State
<1>3. Diary \in [Ids -> HC!Entry]
  BY <1>2, Pages
<1>4. HC!Sound(Diary)
  BY <1>1, Pages DEF NoDoubleBooking, HC!Sound, HC!Clash, HC!Occupies, HC!Overlap, Overlap, Page,
                     Shown, Live
<1> QED
  BY <1>3, <1>4 DEF HC!Init

(* The store implements a host's diary: each commit, whatever was locked,   *)
(* read and refused before it, is one step of the diary, and one that gives *)
(* a member a time finds that member free.                                 *)
THEOREM StoreImplementsDiary == ASSUME SeedsHosted PROVE Spec => ImplementsDiary
<1>1. Init => HC!Init
  BY InitDiary
<1>2. EndInv /\ [Next]_vars => [HC!Next]_Diary
  BY StepDiary
<1> QED
  BY <1>1, <1>2, EndsAlways, PTL DEF Spec, ImplementsDiary, HC!Spec
=============================================================================
