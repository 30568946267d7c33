--------------------------- MODULE BookingsProofs ---------------------------
(* Proofs about Bookings, for any members, events, starts and requests.    *)
EXTENDS Bookings, TLAPS

(* Rows keep who they book, when, and whether they are there at all. *)
SameTimes ==
    \A b \in Ids : /\ booking'[b].status = booking[b].status
                   /\ booking'[b].hosts = booking[b].hosts
                   /\ booking'[b].start = booking[b].start

(* What the arrival of a request does to the store. *)
Arrived(r) ==
    /\ req[r].pc = "idle"
    /\ \E q \in Request :
        /\ req' = [req EXCEPT ![r] = q]
        /\ q.pc \in {"lock", "update", "done"}
        /\ q.pc = "lock" /\ q.op \in MoveOps =>
              /\ q.target \in Ids
              /\ booking[q.target].status # "absent"
              /\ booking[q.target].hosts = q.hosts
    /\ lock' = lock /\ now' = now /\ link' = link
    /\ hold' \in [Requests -> Hold]
    /\ booking' \in [Ids -> Row] /\ SameTimes

(* A blank request and one about a booking are requests. *)
LEMMA IdleType == Idle \in Request
  BY DEF Idle, Request, AllOps, Points, Status

LEMMA AboutType ==
  ASSUME TypeOK, NEW b \in Ids
  PROVE  About(b) \in Request
<1>1. booking[b] \in Row
  BY DEF TypeOK
<1>2. ASSUME NEW row \in Row
      PROVE  [Idle EXCEPT !.target = b, !.hosts = row.hosts, !.org = row.org, !.event = row.event,
                          !.start = row.start, !.seen = row.status, !.seenKey = row.moveKey]
                 \in Request
  <2>1. /\ row.hosts \in SUBSET Members /\ row.org \in Members \cup {None}
        /\ row.event \in Events \cup {None} /\ row.start \in Nat
        /\ row.status \in Status /\ row.moveKey \in Keys \cup {None}
    BY DEF Row
  <2>2. ASSUME NEW q \in Request
        PROVE  [q EXCEPT !.target = b, !.hosts = row.hosts, !.org = row.org,
                         !.event = row.event, !.start = row.start, !.seen = row.status,
                         !.seenKey = row.moveKey] \in Request
    <3> DEFINE q1 == [q EXCEPT !.target = b]
               q2 == [q1 EXCEPT !.hosts = row.hosts]
               q3 == [q2 EXCEPT !.org = row.org]
               q4 == [q3 EXCEPT !.event = row.event]
               q5 == [q4 EXCEPT !.start = row.start]
               q6 == [q5 EXCEPT !.seen = row.status]
               q7 == [q6 EXCEPT !.seenKey = row.moveKey]
    <3>1. q1 \in Request
      BY <2>1 DEF Request
    <3> HIDE DEF q1
    <3>2. q2 \in Request
      BY <2>1, <3>1 DEF Request
    <3> HIDE DEF q2
    <3>3. q3 \in Request
      BY <2>1, <3>2 DEF Request
    <3> HIDE DEF q3
    <3>4. q4 \in Request
      BY <2>1, <3>3 DEF Request
    <3> HIDE DEF q4
    <3>5. q5 \in Request
      BY <2>1, <3>4 DEF Request
    <3> HIDE DEF q5
    <3>6. q6 \in Request
      BY <2>1, <3>5 DEF Request
    <3> HIDE DEF q6
    <3>7. q7 \in Request
      BY <2>1, <3>6 DEF Request
    <3>8. q7 = [q EXCEPT !.target = b, !.hosts = row.hosts, !.org = row.org,
                         !.event = row.event, !.start = row.start, !.seen = row.status,
                         !.seenKey = row.moveKey]
      BY DEF q1, q2, q3, q4, q5, q6
    <3> QED
      BY <3>7, <3>8
  <2> QED
    BY <2>2, IdleType
<1> QED
  BY <1>1, <1>2 DEF About

(* Setting fields of a request leaves a request, and the rest of it. *)
SetTo(n, q, p) ==
    /\ n \in Request /\ n.pc = p
    /\ n.op = q.op /\ n.target = q.target /\ n.hosts = q.hosts /\ n.link = q.link

LEMMA SetPc ==
  ASSUME NEW q \in Request, NEW p \in Points
  PROVE  SetTo([q EXCEPT !.pc = p], q, p)
  BY DEF Request, SetTo

LEMMA SetAns ==
  ASSUME NEW q \in Request, NEW a \in {"none", "ok", "replay", "refused", "crashed"}
  PROVE  SetTo([q EXCEPT !.ans = a], q, q.pc)
  BY DEF Request, SetTo

LEMMA SetKey ==
  ASSUME NEW q \in Request, NEW k \in Keys \cup {None}
  PROVE  SetTo([q EXCEPT !.key = k], q, q.pc)
  BY DEF Request, SetTo

LEMMA SetGiven ==
  ASSUME NEW q \in Request, NEW h \in Requests \cup {None}, NEW l \in Links \cup {None},
         NEW k \in Keys \cup {None}
  PROVE  /\ [q EXCEPT !.hold = h, !.link = l, !.key = k] \in Request
         /\ [q EXCEPT !.link = l, !.key = k] \in Request
<1> DEFINE n == [q EXCEPT !.hold = h]
           m == [q EXCEPT !.link = l]
           o == [n EXCEPT !.link = l]
<1>1. n \in Request
  BY DEF Request
<1>2. m \in Request
  BY DEF Request
<1> HIDE DEF n, m
<1>3. o \in Request
  BY <1>1 DEF Request
<1> HIDE DEF o
<1>4. [o EXCEPT !.key = k] \in Request
  BY <1>3 DEF Request
<1>5. [m EXCEPT !.key = k] \in Request
  BY <1>2 DEF Request
<1> QED
  BY <1>4, <1>5 DEF o, n, m

LEMMA SetStart ==
  ASSUME NEW q \in Request, NEW s \in Nat
  PROVE  SetTo([q EXCEPT !.start = s], q, q.pc)
  BY DEF Request, SetTo

LEMMA SetStrict ==
  ASSUME NEW q \in Request, NEW b \in BOOLEAN
  PROVE  SetTo([q EXCEPT !.strict = b], q, q.pc)
  BY DEF Request, SetTo

LEMMA SetEnd ==
  ASSUME NEW q \in Request, NEW p \in Points,
         NEW a \in {"none", "ok", "replay", "refused", "crashed"}
  PROVE  SetTo([q EXCEPT !.pc = p, !.ans = a], q, p)
<1> DEFINE n == [q EXCEPT !.pc = p]
           m == [n EXCEPT !.ans = a]
<1>1. SetTo(n, q, p)
  BY SetPc
<1> HIDE DEF n
<1>2. SetTo(m, n, n.pc)
  BY <1>1, SetAns DEF SetTo
<1>3. SetTo(m, q, p)
  BY <1>1, <1>2 DEF SetTo
<1> QED
  BY <1>3 DEF n

LEMMA SetReplayed ==
  ASSUME NEW q \in Request, NEW k \in Keys \cup {None}
  PROVE  SetTo([q EXCEPT !.key = k, !.pc = "done", !.ans = "replay"], q, "done")
<1> DEFINE n == [q EXCEPT !.key = k]
           m == [n EXCEPT !.pc = "done", !.ans = "replay"]
<1>1. SetTo(n, q, q.pc)
  BY SetKey
<1> HIDE DEF n
<1>4. n \in Request /\ "done" \in Points
  BY <1>1 DEF SetTo, Points
<1>2. SetTo(m, n, "done")
  BY <1>4, SetEnd
<1>3. SetTo(m, q, "done")
  BY <1>1, <1>2 DEF SetTo
<1> QED
  BY <1>3 DEF n

LEMMA SetTime ==
  ASSUME NEW q \in Request, NEW s \in Nat, NEW k \in Keys \cup {None}
  PROVE  /\ SetTo([q EXCEPT !.start = s, !.key = k], q, q.pc)
         /\ SetTo([q EXCEPT !.start = s, !.key = k, !.pc = "lock"], q, "lock")
<1> DEFINE n == [q EXCEPT !.start = s]
           m == [n EXCEPT !.key = k]
           l == [m EXCEPT !.pc = "lock"]
<1>1. SetTo(n, q, q.pc)
  BY SetStart
<1> HIDE DEF n
<1>2. SetTo(m, n, n.pc)
  BY <1>1, SetKey DEF SetTo
<1>3. SetTo(m, q, q.pc)
  BY <1>1, <1>2 DEF SetTo
<1> HIDE DEF m
<1>4. SetTo(l, m, "lock")
  BY <1>3, SetPc DEF SetTo, Points
<1>5. SetTo(l, q, "lock")
  BY <1>3, <1>4 DEF SetTo
<1> QED
  BY <1>3, <1>5 DEF n, m

LEMMA SetMove ==
  ASSUME NEW q \in Request, NEW s \in Nat, NEW k \in Keys \cup {None}, NEW b \in BOOLEAN
  PROVE  SetTo([q EXCEPT !.start = s, !.key = k, !.strict = b, !.pc = "lock"], q, "lock")
<1> DEFINE n == [q EXCEPT !.start = s, !.key = k]
           m == [n EXCEPT !.strict = b]
           l == [m EXCEPT !.pc = "lock"]
<1>1. SetTo(n, q, q.pc)
  BY SetTime
<1> HIDE DEF n
<1>2. SetTo(m, n, n.pc)
  BY <1>1, SetStrict DEF SetTo
<1>3. SetTo(m, q, q.pc)
  BY <1>1, <1>2 DEF SetTo
<1> HIDE DEF m
<1>4. SetTo(l, m, "lock")
  BY <1>3, SetPc DEF SetTo, Points
<1>5. SetTo(l, q, "lock")
  BY <1>3, <1>4 DEF SetTo
<1> QED
  BY <1>5 DEF n, m

LEMMA SetHost ==
  ASSUME NEW q \in Request, NEW hosts \in SUBSET Members, NEW m \in Members
  PROVE  [q EXCEPT !.hosts = hosts, !.org = m] \in Request
  BY DEF Request

LEMMA SetPlace ==
  ASSUME NEW q \in Request, NEW hosts \in SUBSET Members, NEW m \in Members, NEW s \in Starts
  PROVE  [q EXCEPT !.hosts = hosts, !.org = m, !.start = s] \in Request
<1> DEFINE n == [q EXCEPT !.hosts = hosts, !.org = m]
<1>1. s \in Nat
  BY TimesAssumption
<1>2. n \in Request
  BY SetHost
<1> HIDE DEF n
<1>3. [n EXCEPT !.start = s] \in Request
  BY <1>1, <1>2 DEF Request
<1> QED
  BY <1>3 DEF n

LEMMA SetEventPlace ==
  ASSUME NEW q \in Request, NEW e \in Events, NEW hosts \in SUBSET Members,
         NEW m \in Members, NEW s \in Starts
  PROVE  [q EXCEPT !.event = e, !.hosts = hosts, !.org = m, !.start = s] \in Request
<1> DEFINE n == [q EXCEPT !.event = e]
<1>1. n \in Request
  BY DEF Request
<1> HIDE DEF n
<1>2. [n EXCEPT !.hosts = hosts, !.org = m, !.start = s] \in Request
  BY <1>1, SetPlace
<1> QED
  BY <1>2 DEF n

LEMMA SetAsk ==
  ASSUME NEW q \in Request, NEW w \in SUBSET People, NEW b \in BOOLEAN
  PROVE  /\ [q EXCEPT !.who = w, !.strict = b, !.pc = "lock"] \in Request
         /\ [q EXCEPT !.who = w, !.strict = b, !.pc = "lock"].pc = "lock"
<1> DEFINE n == [q EXCEPT !.who = w]
           m == [n EXCEPT !.strict = b]
           l == [m EXCEPT !.pc = "lock"]
<1>1. n \in Request
  BY DEF Request
<1> HIDE DEF n
<1>2. m \in Request
  BY <1>1 DEF Request
<1> HIDE DEF m
<1>3. l \in Request /\ l.pc = "lock"
  BY <1>2 DEF Request, Points
<1> QED
  BY <1>3 DEF n, m

LEMMA SubmitArrives ==
  ASSUME TypeOK, NEW r \in Requests, NEW op, NEW rec \in Request,
         Submit(r, op, rec), UNCHANGED link, hold' \in [Requests -> Hold],
         rec.pc \in {"lock", "update", "done"},
         rec.pc = "lock" /\ op \in MoveOps =>
              /\ rec.target \in Ids
              /\ booking[rec.target].status # "absent"
              /\ booking[rec.target].hosts = rec.hosts
  PROVE  Arrived(r)
<1> DEFINE q == [rec EXCEPT !.op = op, !.at = now]
<1>1. op \in AllOps /\ now \in Nat
  BY NamesAssumption, TimesAssumption DEF Submit, TypeOK
<1>2. q \in Request
  BY <1>1 DEF Request
<1>3. /\ q.op = op /\ q.pc = rec.pc /\ q.target = rec.target /\ q.hosts = rec.hosts
  BY DEF Request
<1>4. booking' \in [Ids -> Row] /\ SameTimes
  BY DEF Submit, TypeOK, SameTimes
<1> HIDE DEF q
<1>5. req' = [req EXCEPT ![r] = q]
  BY DEF Submit, q
<1> QED
  BY <1>2, <1>3, <1>4, <1>5 DEF Submit, Arrived

LEMMA RefuseArrives ==
  ASSUME TypeOK, NEW r \in Requests, Refuse(r)
  PROVE  Arrived(r)
<1> DEFINE q == [req[r] EXCEPT !.pc = "done", !.ans = "refused"]
<1>0. req[r] \in Request
  BY DEF TypeOK
<1>6. "done" \in Points
  BY DEF Points
<1>5. SetTo(q, req[r], "done")
  BY <1>0, <1>6, SetEnd
<1>1. q \in Request /\ q.pc = "done"
  BY <1>5 DEF SetTo
<1>2. req' = [req EXCEPT ![r] = q]
  BY DEF Refuse, Answer, TypeOK
<1>3. /\ req[r].pc = "idle" /\ lock' = lock /\ now' = now /\ link' = link
      /\ booking' = booking /\ hold' = hold
  BY DEF Refuse
<1>4. booking' \in [Ids -> Row] /\ SameTimes /\ hold' \in [Requests -> Hold]
  BY <1>3 DEF TypeOK, SameTimes
<1> HIDE DEF q
<1> QED
  BY <1>1, <1>2, <1>3, <1>4 DEF Arrived

(* The requests of every operation, as they arrive. *)
LEMMA ReplayArrives ==
  ASSUME TypeOK, NEW r \in Requests, NEW op, NEW k \in Keys, Replay(r, op, k)
  PROVE  Arrived(r)
<1> DEFINE rec == [Idle EXCEPT !.key = k, !.pc = "done", !.ans = "replay"]
<1>1. rec \in Request /\ rec.pc = "done"
  BY IdleType, SetReplayed DEF SetTo
<1>2. Submit(r, op, rec) /\ UNCHANGED link /\ hold' \in [Requests -> Hold]
  BY DEF Replay, TypeOK
<1> HIDE DEF rec
<1> QED
  BY <1>1, <1>2, SubmitArrives

LEMMA BookArrives ==
  ASSUME TypeOK, NEW r \in Requests, BookRequest(r)
  PROVE  Arrived(r)
<1>1. PICK e \in Events, s \in Starts, h \in Requests \cup {None}, k \in Keys \cup {None},
           l \in Links \cup {None}, people \in SUBSET People, strict \in BOOLEAN, m \in Members :
        BookRequest(r)!(e, s, h, k, l, people, strict, m)
  BY DEF BookRequest
<1> DEFINE place == [Idle EXCEPT !.event = e, !.hosts = {m}, !.org = m, !.start = s]
           given == [place EXCEPT !.hold = h, !.link = l, !.key = k]
           rec == [given EXCEPT !.who = people, !.strict = strict, !.pc = "lock"]
<1>2. rec \in Request /\ rec.pc = "lock"
  <2>1. place \in Request
    <3>1. {m} \in SUBSET Members
      OBVIOUS
    <3> QED
      BY <3>1, IdleType, SetEventPlace
  <2> HIDE DEF place
  <2>2. given \in Request
    BY <2>1, SetGiven
  <2> HIDE DEF given
  <2> QED
    BY <2>2, SetAsk
<1>3. UNCHANGED link /\ hold' \in [Requests -> Hold]
  BY <1>1 DEF TypeOK
<1>4. CASE Submit(r, "book", rec)
  <2> HIDE DEF rec
  <2> QED BY <1>2, <1>3, <1>4, SubmitArrives DEF MoveOps
<1>5. ASSUME NEW b \in Ids, Submit(r, "seat", [rec EXCEPT !.pc = "done", !.ans = "replay"])
      PROVE  Arrived(r)
  <2> HIDE DEF rec
  <2> DEFINE new == [rec EXCEPT !.pc = "done", !.ans = "replay"]
  <2>0. SetTo(new, rec, "done")
    BY <1>2, SetEnd DEF Points
  <2>1. new \in Request /\ new.pc = "done"
    BY <2>0 DEF SetTo
  <2> HIDE DEF new
  <2> QED BY <2>1, <1>3, <1>5, SubmitArrives DEF new
<1>6. ASSUME NEW b \in Ids, Submit(r, "seat", [rec EXCEPT !.target = b])
      PROVE  Arrived(r)
  <2> HIDE DEF rec
  <2> DEFINE new == [rec EXCEPT !.target = b]
  <2>1. new \in Request /\ new.pc = "lock"
    BY <1>2 DEF Request
  <2> HIDE DEF new
  <2> QED BY <2>1, <1>3, <1>6, SubmitArrives DEF new, MoveOps
<1>7. \A b \in GroupRows(e, s) : b \in Ids
  BY DEF GroupRows
<1> QED
  BY <1>1, <1>4, <1>5, <1>6, <1>7

LEMMA ExpiredHoldArrives ==
  ASSUME TypeOK, NEW r \in Requests, BookWithExpiredHold(r)
  PROVE  Arrived(r)
<1>1. PICK h \in Requests : BookWithExpiredHold(r)!(h)
  BY DEF BookWithExpiredHold
<1> DEFINE rec == [Idle EXCEPT !.hold = h, !.pc = "done", !.ans = "refused"]
<1>2. rec \in Request /\ rec.pc = "done"
  <2> DEFINE held == [Idle EXCEPT !.hold = h]
  <2>1. held \in Request
    BY IdleType DEF Request
  <2> HIDE DEF held
  <2>2. "done" \in Points
    BY DEF Points
  <2>3. SetTo([held EXCEPT !.pc = "done", !.ans = "refused"], held, "done")
    BY <2>1, <2>2, SetEnd
  <2> QED
    BY <2>3 DEF SetTo, held
<1>3. UNCHANGED link /\ hold' \in [Requests -> Hold]
  BY <1>1 DEF TypeOK, NoHold, Hold
<1>4. Submit(r, "book", rec)
  BY <1>1
<1> HIDE DEF rec
<1> QED
  BY <1>2, <1>3, <1>4, SubmitArrives

LEMMA TeamArrives ==
  ASSUME TypeOK, NEW r \in Requests, TeamRequest(r)
  PROVE  Arrived(r)
<1>1. PICK e \in Events, s \in Starts, k \in Keys \cup {None}, l \in Links \cup {None},
           people \in SUBSET People : TeamRequest(r)!(e, s, k, l, people)
  BY DEF TeamRequest
<1> DEFINE free == {m \in e.hosts : ~ Busy({m}, s, None) /\ ~ Held({m}, s, now, None)}
           place(hosts, org) == [Idle EXCEPT !.event = e, !.hosts = hosts, !.org = org,
                                             !.start = s]
           rec(hosts, org) == [place(hosts, org) EXCEPT !.link = l, !.key = k, !.who = people,
                                                        !.strict = TRUE, !.pc = "lock"]
<1>2. e.hosts \in SUBSET Members
  BY EventsAssumption
<1>3. Assignments(e, free) \subseteq SUBSET Members
  BY <1>2 DEF Assignments
<1>4. PICK hosts \in Assignments(e, free) : \E org \in hosts : Submit(r, "team", rec(hosts, org))
  BY <1>1
<1>5. PICK org \in hosts : Submit(r, "team", rec(hosts, org))
  BY <1>4
<1>9. hosts \in SUBSET Members /\ org \in Members
  BY <1>3, <1>4, <1>5
<1> DEFINE at == place(hosts, org)
           q == [at EXCEPT !.link = l, !.key = k, !.who = people, !.strict = TRUE,
                           !.pc = "lock"]
<1>6. q \in Request /\ q.pc = "lock"
  <2>1. at \in Request
    BY IdleType, SetEventPlace, <1>9
  <2> HIDE DEF at
  <2> DEFINE given == [at EXCEPT !.link = l, !.key = k]
  <2>2. given \in Request
    BY <2>1, SetGiven
  <2> HIDE DEF given
  <2>3. /\ [given EXCEPT !.who = people, !.strict = TRUE, !.pc = "lock"] \in Request
        /\ [given EXCEPT !.who = people, !.strict = TRUE, !.pc = "lock"].pc = "lock"
    BY <2>2, SetAsk
  <2> QED
    BY <2>3 DEF given
<1>7. UNCHANGED link /\ hold' \in [Requests -> Hold]
  BY <1>1 DEF TypeOK
<1>8. Submit(r, "team", q)
  BY <1>5
<1> HIDE DEF q
<1> QED
  BY <1>6, <1>7, <1>8, SubmitArrives DEF MoveOps

LEMMA HostEventArrives ==
  ASSUME TypeOK, NEW r \in Requests, HostEventRequest(r)
  PROVE  Arrived(r)
<1>1. PICK m \in Members, s \in Starts, k \in Keys \cup {None}, strict \in BOOLEAN,
           people \in SUBSET People : HostEventRequest(r)!(m, s, k, strict, people)
  BY DEF HostEventRequest
<1> DEFINE place == [Idle EXCEPT !.hosts = {m}, !.org = m, !.start = s]
           q == [place EXCEPT !.key = k, !.who = people, !.strict = strict, !.pc = "lock"]
<1>2. q \in Request /\ q.pc = "lock"
  <2>1. place \in Request
    <3>1. {m} \in SUBSET Members
      OBVIOUS
    <3> QED
      BY <3>1, IdleType, SetPlace
  <2> HIDE DEF place
  <2> DEFINE given == [place EXCEPT !.key = k]
  <2>2. given \in Request
    BY <2>1 DEF Request
  <2> HIDE DEF given
  <2>3. /\ [given EXCEPT !.who = people, !.strict = strict, !.pc = "lock"] \in Request
        /\ [given EXCEPT !.who = people, !.strict = strict, !.pc = "lock"].pc = "lock"
    BY <2>2, SetAsk
  <2> QED
    BY <2>3 DEF given
<1>3. Submit(r, "hostEvent", q) /\ UNCHANGED link /\ hold' \in [Requests -> Hold]
  BY <1>1 DEF TypeOK
<1> HIDE DEF q
<1> QED
  BY <1>2, <1>3, SubmitArrives DEF MoveOps

LEMMA HoldArrives ==
  ASSUME TypeOK, NEW r \in Requests, HoldRequest(r)
  PROVE  Arrived(r)
<1>1. PICK e \in Events, m \in Members, s \in Starts : HoldRequest(r)!(e, m, s)
  BY DEF HoldRequest
<1> DEFINE rec == [Idle EXCEPT !.event = e, !.hosts = {m}, !.org = m, !.start = s]
           open == [rec EXCEPT !.pc = "lock"]
           shut == [rec EXCEPT !.pc = "done", !.ans = "refused"]
<1>2. rec \in Request
  BY IdleType, TimesAssumption DEF Request, Idle
<1>3. Submit(r, "hold", open) \/ Submit(r, "hold", shut)
  BY <1>1
<1> HIDE DEF rec
<1>6. SetTo(open, rec, "lock") /\ SetTo(shut, rec, "done")
  BY <1>2, SetPc, SetEnd DEF Points
<1>4. /\ open \in Request /\ open.pc = "lock"
      /\ shut \in Request /\ shut.pc = "done"
  BY <1>6 DEF SetTo
<1>5. UNCHANGED link /\ hold' \in [Requests -> Hold]
  BY <1>1 DEF TypeOK, Sweep, NoHold, Hold
<1> HIDE DEF open, shut
<1> QED
  BY <1>3, <1>4, <1>5, SubmitArrives DEF MoveOps

LEMMA ReleaseArrives ==
  ASSUME TypeOK, NEW r \in Requests, ReleaseRequest(r)
  PROVE  Arrived(r)
<1>1. PICK h \in Requests : ReleaseRequest(r)!(h)
  BY DEF ReleaseRequest
<1> DEFINE q == [Idle EXCEPT !.hold = h, !.pc = "done", !.ans = "ok"]
<1>2. q \in Request /\ q.pc = "done"
  BY IdleType DEF Request, Idle, Points
<1>3. Submit(r, "release", q) /\ UNCHANGED link /\ hold' \in [Requests -> Hold]
  BY <1>1 DEF TypeOK, NoHold, Hold
<1> HIDE DEF q
<1> QED
  BY <1>2, <1>3, SubmitArrives

LEMMA RescheduleArrives ==
  ASSUME TypeOK, NEW r \in Requests, RescheduleRequest(r)
  PROVE  Arrived(r)
<1>1. PICK b \in Ids, s \in Starts, k \in Keys \cup {None} : RescheduleRequest(r)!(b, s, k)
  BY DEF RescheduleRequest
<1> DEFINE old == [About(b) EXCEPT !.key = k, !.pc = "done", !.ans = "replay"]
           new == [About(b) EXCEPT !.start = s, !.key = k, !.pc = "lock"]
<1>2. UNCHANGED link /\ hold' \in [Requests -> Hold]
  BY <1>1 DEF TypeOK
<1>3. Submit(r, "reschedule", old) \/ Submit(r, "reschedule", new)
  BY <1>1
<1>4. About(b) \in Request /\ About(b).target = b /\ About(b).hosts = booking[b].hosts
  BY AboutType DEF About, Idle
<1>7. SetTo(old, About(b), "done") /\ SetTo(new, About(b), "lock")
  BY <1>4, TimesAssumption, SetReplayed, SetTime
<1>5. /\ old \in Request /\ old.pc = "done"
      /\ new \in Request /\ new.pc = "lock" /\ new.target = b /\ new.hosts = booking[b].hosts
  BY <1>4, <1>7 DEF SetTo
<1>6. booking[b].status # "absent"
  BY <1>1
<1> HIDE DEF old, new
<1> QED
  BY <1>2, <1>3, <1>5, <1>6, SubmitArrives

LEMMA MoveArrives ==
  ASSUME TypeOK, NEW r \in Requests, MoveRequest(r)
  PROVE  Arrived(r)
<1>1. PICK b \in Ids, s \in Starts, k \in Keys \cup {None}, strict \in BOOLEAN :
        MoveRequest(r)!(b, s, k, strict)
  BY DEF MoveRequest
<1> DEFINE q == [About(b) EXCEPT !.start = s, !.key = k, !.strict = strict, !.pc = "lock"]
<1>2. Submit(r, "move", q) /\ UNCHANGED link /\ hold' \in [Requests -> Hold]
  BY <1>1 DEF TypeOK
<1>3. About(b) \in Request /\ About(b).target = b /\ About(b).hosts = booking[b].hosts
  BY AboutType DEF About, Idle
<1>6. SetTo(q, About(b), "lock")
  BY <1>3, TimesAssumption, SetMove
<1>4. q \in Request /\ q.pc = "lock" /\ q.target = b /\ q.hosts = booking[b].hosts
  BY <1>3, <1>6 DEF SetTo
<1>5. booking[b].status # "absent"
  BY <1>1 DEF Live
<1> HIDE DEF q
<1> QED
  BY <1>2, <1>4, <1>5, SubmitArrives

LEMMA ConfirmArrives ==
  ASSUME TypeOK, NEW r \in Requests, ConfirmRequest(r)
  PROVE  Arrived(r)
<1>1. PICK b \in Ids : ConfirmRequest(r)!(b)
  BY DEF ConfirmRequest
<1> DEFINE q == [About(b) EXCEPT !.pc = "lock"]
<1>2. Submit(r, "confirm", q) /\ UNCHANGED link /\ hold' \in [Requests -> Hold]
  BY <1>1 DEF TypeOK
<1>4. SetTo(q, About(b), "lock")
  BY AboutType, SetPc DEF Points
<1>3. q \in Request /\ q.pc = "lock"
  BY <1>4 DEF SetTo
<1> HIDE DEF q
<1> QED
  BY <1>2, <1>3, SubmitArrives DEF MoveOps

LEMMA CancelArrives ==
  ASSUME TypeOK, NEW r \in Requests, CancelRequest(r)
  PROVE  Arrived(r)
<1>1. PICK b \in Ids : CancelRequest(r)!(b)
  BY DEF CancelRequest
<1> DEFINE new == [About(b) EXCEPT !.pc = "update"]
           old == [About(b) EXCEPT !.pc = "done", !.ans = "replay"]
<1>2. UNCHANGED link /\ hold' \in [Requests -> Hold]
  BY <1>1 DEF TypeOK
<1>3. Submit(r, "cancel", new) \/ Submit(r, "cancel", old)
  BY <1>1
<1>5. SetTo(new, About(b), "update") /\ SetTo(old, About(b), "done")
  BY AboutType, SetPc, SetEnd DEF Points
<1>4. /\ new \in Request /\ new.pc = "update"
      /\ old \in Request /\ old.pc = "done"
  BY <1>5 DEF SetTo
<1> HIDE DEF old, new
<1> QED
  BY <1>2, <1>3, <1>4, SubmitArrives

LEMMA DeclineArrives ==
  ASSUME TypeOK, NEW r \in Requests, DeclineRequest(r)
  PROVE  Arrived(r)
<1>1. PICK b \in Ids : DeclineRequest(r)!(b)
  BY DEF DeclineRequest
<1> DEFINE q == [About(b) EXCEPT !.pc = "update"]
<1>2. Submit(r, "decline", q) /\ UNCHANGED link /\ hold' \in [Requests -> Hold]
  BY <1>1 DEF TypeOK
<1>4. SetTo(q, About(b), "update")
  BY AboutType, SetPc DEF Points
<1>3. q \in Request /\ q.pc = "update"
  BY <1>4 DEF SetTo
<1> HIDE DEF q
<1> QED
  BY <1>2, <1>3, SubmitArrives

(* People join a row; nothing else of it changes. *)
LEMMA PeopleJoin ==
  ASSUME TypeOK, NEW b \in Ids, NEW who \in SUBSET People,
         booking' = [booking EXCEPT ![b].people = @ \cup who]
  PROVE  booking' \in [Ids -> Row] /\ SameTimes
<1>1. booking[b] \in Row
  BY DEF TypeOK
<1> DEFINE row == [booking[b] EXCEPT !.people = booking[b].people \cup who]
<1>2. /\ row \in Row
      /\ row.status = booking[b].status /\ row.hosts = booking[b].hosts
      /\ row.start = booking[b].start
  BY <1>1 DEF Row
<1>3. booking' = [booking EXCEPT ![b] = row]
  BY DEF TypeOK
<1> HIDE DEF row
<1>6. booking \in [Ids -> Row]
  BY DEF TypeOK
<1>4. booking' \in [Ids -> Row]
  BY <1>2, <1>3, <1>6
<1>5. \A c \in Ids : booking'[c] = IF c = b THEN row ELSE booking[c]
  BY <1>3 DEF TypeOK
<1> QED
  BY <1>2, <1>4, <1>5 DEF SameTimes

LEMMA GuestArrives ==
  ASSUME TypeOK, NEW r \in Requests, GuestRequest(r)
  PROVE  Arrived(r)
<1>1. PICK b \in Ids, who \in SUBSET People : GuestRequest(r)!(b, who)
  BY DEF GuestRequest
<1>2. PICK new \in SUBSET People, fits \in BOOLEAN :
        /\ req[r].pc = "idle"
        /\ req' = [req EXCEPT ![r] = [About(b) EXCEPT !.op = "guest", !.at = now, !.pc = "done",
                                         !.ans = IF fits THEN "ok" ELSE "refused"]]
        /\ booking' = IF fits THEN [booking EXCEPT ![b].people = @ \cup new] ELSE booking
        /\ UNCHANGED <<hold, link, lock, now>>
  <2> DEFINE new == who \ booking[b].people
             fits == Live(b) /\ (new # {} => Cardinality(booking[b].people) + Cardinality(new)
                                    <= (IF PeopleCap > Seats(booking[b].event) THEN PeopleCap
                                        ELSE Seats(booking[b].event)))
  <2>1. new \in SUBSET People
    OBVIOUS
  <2>2. fits \in BOOLEAN
    BY DEF Live
  <2>3. /\ req[r].pc = "idle"
        /\ req' = [req EXCEPT ![r] = [About(b) EXCEPT !.op = "guest", !.at = now, !.pc = "done",
                                         !.ans = IF fits THEN "ok" ELSE "refused"]]
        /\ booking' = IF fits THEN [booking EXCEPT ![b].people = @ \cup new] ELSE booking
        /\ UNCHANGED <<hold, link, lock, now>>
    BY <1>1
  <2> HIDE DEF new, fits
  <2> QED
    BY <2>1, <2>2, <2>3
<1> DEFINE one == [About(b) EXCEPT !.op = "guest", !.at = now]
           q == [one EXCEPT !.pc = "done", !.ans = IF fits THEN "ok" ELSE "refused"]
<1>3. one \in Request
  <2> DEFINE named == [About(b) EXCEPT !.op = "guest"]
  <2>1. About(b) \in Request /\ now \in Nat
    BY AboutType, TimesAssumption DEF TypeOK
  <2>2. named \in Request
    BY <2>1 DEF Request, AllOps
  <2> HIDE DEF named
  <2>3. [named EXCEPT !.at = now] \in Request
    BY <2>1, <2>2 DEF Request
  <2> QED
    BY <2>3 DEF named
<1>4. req' = [req EXCEPT ![r] = q]
  BY <1>2
<1> HIDE DEF one
<1>5. SetTo(q, one, "done")
  BY <1>3, SetEnd DEF Points
<1> HIDE DEF q
<1>6. q \in Request /\ q.pc = "done"
  BY <1>5 DEF SetTo
<1>7. booking' \in [Ids -> Row] /\ SameTimes
  <2>1. CASE fits
    BY <2>1, <1>2, PeopleJoin
  <2>2. CASE ~ fits
    BY <2>2, <1>2 DEF TypeOK, SameTimes
  <2> QED
    BY <2>1, <2>2
<1>8. hold' \in [Requests -> Hold]
  BY <1>2 DEF TypeOK
<1> QED
  BY <1>2, <1>4, <1>6, <1>7, <1>8 DEF Arrived

LEMMA ArriveArrives ==
  ASSUME TypeOK, NEW r \in Requests, Arrive(r)
  PROVE  Arrived(r)
  BY RefuseArrives, ReplayArrives, BookArrives, ExpiredHoldArrives, TeamArrives,
     HostEventArrives, HoldArrives, ReleaseArrives, RescheduleArrives, MoveArrives,
     ConfirmArrives, CancelArrives, DeclineArrives, GuestArrives DEF Arrive

-----------------------------------------------------------------------------
(* Steps of a request under way. *)

(* Request r goes on to point p, and keeps what it asks for. *)
StepsTo(r, p) ==
    /\ req' \in [Requests -> Request]
    /\ \A s \in Requests \ {r} : req'[s] = req[s]
    /\ req'[r].pc = p /\ req'[r].op = req[r].op /\ req'[r].target = req[r].target
    /\ req'[r].hosts = req[r].hosts /\ req'[r].start = req[r].start

LEMMA PcStep ==
  ASSUME TypeOK, NEW r \in Requests, NEW p \in Points, req' = [req EXCEPT ![r].pc = p]
  PROVE  StepsTo(r, p)
<1>1. req[r] \in Request
  BY DEF TypeOK
<1> DEFINE q == [req[r] EXCEPT !.pc = p]
<1>2. /\ q \in Request /\ q.pc = p /\ q.op = req[r].op /\ q.target = req[r].target
      /\ q.hosts = req[r].hosts /\ q.start = req[r].start
  BY <1>1 DEF Request
<1>3. req' = [req EXCEPT ![r] = q]
  BY DEF TypeOK
<1> HIDE DEF q
<1>4. req' \in [Requests -> Request]
  BY <1>2, <1>3 DEF TypeOK
<1>5. \A s \in Requests : req'[s] = IF s = r THEN q ELSE req[s]
  BY <1>3 DEF TypeOK
<1> QED
  BY <1>2, <1>4, <1>5 DEF StepsTo

LEMMA AnsStep ==
  ASSUME TypeOK, NEW r \in Requests, NEW p \in Points,
         NEW a \in {"none", "ok", "replay", "refused", "crashed"},
         req' = [req EXCEPT ![r].pc = p, ![r].ans = a]
  PROVE  StepsTo(r, p)
<1>1. req[r] \in Request
  BY DEF TypeOK
<1> DEFINE n == [req[r] EXCEPT !.pc = p]
           q == [n EXCEPT !.ans = a]
<1>2. /\ n \in Request /\ n.pc = p /\ n.op = req[r].op /\ n.target = req[r].target
      /\ n.hosts = req[r].hosts /\ n.start = req[r].start
  BY <1>1 DEF Request
<1>3. req' = [req EXCEPT ![r] = q]
  BY DEF TypeOK
<1> HIDE DEF n
<1>4. /\ q \in Request /\ q.pc = n.pc /\ q.op = n.op /\ q.target = n.target
      /\ q.hosts = n.hosts /\ q.start = n.start
  BY <1>2 DEF Request
<1> HIDE DEF q
<1>5. req' \in [Requests -> Request]
  BY <1>3, <1>4 DEF TypeOK
<1>6. \A s \in Requests : req'[s] = IF s = r THEN q ELSE req[s]
  BY <1>3 DEF TypeOK
<1> QED
  BY <1>2, <1>4, <1>5, <1>6 DEF StepsTo

(* The locks of every other request stay. *)
LocksOfOthers(r) ==
    /\ lock' \in [Members \cup {DbLock} -> Requests \cup {None}]
    /\ \A s \in Requests \ {r}, m \in Members \cup {DbLock} : lock[m] = s => lock'[m] = s

LEMMA ReleasedKeeps ==
  ASSUME TypeOK, NEW r \in Requests, lock' = Released(r) \/ lock' = lock
  PROVE  LocksOfOthers(r)
  BY DEF TypeOK, Released, LocksOfOthers

LEMMA LocksType ==
  ASSUME TypeOK, NEW r \in Requests
  PROVE  Locks(r) \subseteq Members \cup {DbLock}
  BY DEF TypeOK, Locks, Request

(* The members of hosts are free at time t in table bk, booking e aside. *)
FreeIn(bk, hosts, t, e) ==
    \A m \in hosts, c \in Ids \ {e} :
        bk[c].status \in {"accepted", "pending"} /\ m \in bk[c].hosts
            => ~ Overlap(bk[c].start, t)

(* FreeUntilWrite, of the requests rq over the table bk. *)
FreeToWrite(rq, bk) ==
    \A r \in Requests :
        /\ rq[r].pc = "write" /\ rq[r].op \in PlaceOps => FreeIn(bk, rq[r].hosts, rq[r].start, None)
        /\ rq[r].pc = "write" /\ rq[r].op \in MoveOps
              => FreeIn(bk, rq[r].hosts, rq[r].start, rq[r].target)

LEMMA BusyFree ==
  ASSUME NEW hosts, NEW t, NEW e
  PROVE  ~ Busy(hosts, t, e) <=> FreeIn(booking, hosts, t, e)
  BY DEF Busy, Clashes, FreeIn, Live

LEMMA FreeNow == FreeUntilWrite <=> FreeToWrite(req, booking)
  BY DEF FreeUntilWrite, FreeToWrite, Busy, Clashes, FreeIn, Live

LEMMA FreeNext == FreeUntilWrite' <=> FreeToWrite(req', booking')
  BY DEF FreeUntilWrite, FreeToWrite, Busy, Clashes, FreeIn, Live

(* No booking is placed or moved: those live stay as they were or end.     *)
Quiet ==
    \A b \in Ids : /\ booking'[b].hosts = booking[b].hosts
                   /\ booking'[b].start = booking[b].start
                   /\ booking'[b].status = "absent" <=> booking[b].status = "absent"
                   /\ Live(b)' => Live(b)

LEMMA SameTimesQuiet == SameTimes => Quiet
  BY DEF SameTimes, Quiet, Live

LEMMA QuietFree ==
  ASSUME Quiet, NEW hosts, NEW t, NEW e, FreeIn(booking, hosts, t, e)
  PROVE  FreeIn(booking', hosts, t, e)
  BY DEF Quiet, FreeIn, Live

(* A step that places nothing keeps the invariant, if r's own part of it is *)
(* kept: r has its locks, its row is unwritten, its target is the one read, *)
(* and its time is free.                                                    *)
LEMMA QuietStep ==
  ASSUME GuardedInv, TypeOK', Quiet, NEW r \in Requests, LocksOfOthers(r),
         \A s \in Requests \ {r} : req'[s] = req[s],
         req'[r].pc \in {"check", "write"} => \A m \in Locks(r)' : lock'[m] = r,
         req'[r].pc \in {"idle", "lock", "check", "write"} => booking[r].status = "absent",
         req'[r].pc \in {"lock", "check", "write"} /\ req'[r].op \in MoveOps =>
             /\ req'[r].target \in Ids
             /\ booking[req'[r].target].status # "absent"
             /\ booking[req'[r].target].hosts = req'[r].hosts,
         req'[r].pc = "write" /\ req'[r].op \in PlaceOps =>
             FreeIn(booking, req'[r].hosts, req'[r].start, None),
         req'[r].pc = "write" /\ req'[r].op \in MoveOps =>
             FreeIn(booking, req'[r].hosts, req'[r].start, req'[r].target)
  PROVE  GuardedInv'
<1> USE DEF GuardedInv
<1>1. LocksHeld'
  <2> SUFFICES ASSUME NEW s \in Requests, req'[s].pc \in {"check", "write"}
               PROVE  \A m \in Locks(s)' : lock'[m] = s
    BY DEF LocksHeld
  <2>1. CASE s = r
    BY <2>1
  <2>2. CASE s # r
    <3>1. req'[s] = req[s]
      BY <2>2
    <3>2. Locks(s)' = Locks(s) /\ Locks(s) \subseteq Members \cup {DbLock}
      BY <3>1, LocksType DEF Locks
    <3> QED
      BY <2>2, <3>1, <3>2 DEF LocksHeld, LocksOfOthers
  <2> QED
    BY <2>1, <2>2
<1>2. RowsUnwritten'
  BY DEF RowsUnwritten, Quiet, Ids
<1>3. TargetsKept'
  <2> SUFFICES ASSUME NEW s \in Requests, req'[s].pc \in {"lock", "check", "write"},
                      req'[s].op \in MoveOps
               PROVE  /\ req'[s].target \in Ids
                      /\ booking'[req'[s].target].status # "absent"
                      /\ booking'[req'[s].target].hosts = req'[s].hosts
    BY DEF TargetsKept
  <2>1. /\ req'[s].target \in Ids
        /\ booking[req'[s].target].status # "absent"
        /\ booking[req'[s].target].hosts = req'[s].hosts
    BY DEF TargetsKept
  <2> QED
    BY <2>1 DEF Quiet
<1>5. FreeUntilWrite'
  <2>1. FreeToWrite(req, booking)
    BY FreeNow
  <2>2. ASSUME NEW s \in Requests, req'[s].pc = "write"
        PROVE  /\ req'[s].op \in PlaceOps =>
                     FreeIn(booking', req'[s].hosts, req'[s].start, None)
               /\ req'[s].op \in MoveOps =>
                     FreeIn(booking', req'[s].hosts, req'[s].start, req'[s].target)
    <3>1. /\ req'[s].op \in PlaceOps => FreeIn(booking, req'[s].hosts, req'[s].start, None)
          /\ req'[s].op \in MoveOps =>
                FreeIn(booking, req'[s].hosts, req'[s].start, req'[s].target)
      <4>1. CASE s = r
        BY <2>2, <4>1
      <4>2. CASE s # r
        BY <2>1, <2>2, <4>2 DEF FreeToWrite
      <4> QED
        BY <4>1, <4>2
    <3> QED
      BY <3>1, QuietFree
  <2> QED
    BY <2>2, FreeNext DEF FreeToWrite
<1>6. NoDoubleBooking'
  BY DEF NoDoubleBooking, Quiet
<1> QED
  BY <1>1, <1>2, <1>3, <1>5, <1>6

(* A step after which r holds nothing back keeps the invariant. *)
LEMMA QuietEnd ==
  ASSUME GuardedInv, TypeOK', Quiet, NEW r \in Requests, LocksOfOthers(r),
         NEW p \in {"update", "unhold", "burn", "done"}, StepsTo(r, p)
  PROVE  GuardedInv'
<1>1. \A s \in Requests \ {r} : req'[s] = req[s]
  BY DEF StepsTo
<1>2. req'[r].pc \notin {"idle", "lock", "check", "write"}
  BY DEF StepsTo
<1> QED
  BY <1>1, <1>2, QuietStep

(* Two requests past their locks share no member, and no database. *)
LEMMA LocksApart ==
  ASSUME TypeOK, LocksHeld, NEW r \in Requests, NEW s \in Requests \ {r},
         req[r].pc \in {"check", "write"}, req[s].pc \in {"check", "write"}
  PROVE  Dialect # "sqlite" /\ req[r].hosts \cap req[s].hosts = {}
  BY DEF LocksHeld, Locks

(* Request r writes row x: its members, its time.  Every other row stays as *)
(* it is or ends, row e among the latter; but for e its time is free.       *)
Placed(r, x, e) ==
    /\ x \in Ids /\ (x # r => booking[x].status # "absent" /\ booking'[x].status # "absent")
    /\ booking[x].status = "absent" \/ booking[x].hosts = req[r].hosts
    /\ booking'[x].hosts = req[r].hosts /\ booking'[x].start = req[r].start
    /\ \A c \in Ids \ {x} : /\ booking'[c].hosts = booking[c].hosts
                            /\ booking'[c].start = booking[c].start
                            /\ booking'[c].status = "absent" <=> booking[c].status = "absent"
                            /\ Live(c)' => Live(c) /\ c # e
    /\ FreeIn(booking, req[r].hosts, req[r].start, e)

(* A guarded write keeps the invariant: what it books was free, and no      *)
(* other request past its check books the same members.                    *)
LEMMA PlacedStep ==
  ASSUME GuardedInv, TypeOK', NEW r \in Requests, req[r].pc = "write", LocksOfOthers(r),
         NEW p \in {"unhold", "burn", "done"}, StepsTo(r, p),
         NEW x, NEW e, Placed(r, x, e)
  PROVE  GuardedInv'
<1> USE DEF GuardedInv
<1>1. ASSUME NEW s \in Requests, req'[s].pc \in {"idle", "lock", "check", "write"}
      PROVE  s # r /\ req'[s] = req[s]
  BY <1>1 DEF StepsTo
<1>2. LocksHeld'
  <2> SUFFICES ASSUME NEW s \in Requests, req'[s].pc \in {"check", "write"}
               PROVE  \A m \in Locks(s)' : lock'[m] = s
    BY DEF LocksHeld
  <2>1. s # r /\ req'[s] = req[s]
    BY <1>1
  <2>2. Locks(s)' = Locks(s) /\ Locks(s) \subseteq Members \cup {DbLock}
    BY <2>1, LocksType DEF Locks
  <2> QED
    BY <2>1, <2>2 DEF LocksHeld, LocksOfOthers
<1>3. RowsUnwritten'
  <2> SUFFICES ASSUME NEW s \in Requests, req'[s].pc \in {"idle", "lock", "check", "write"}
               PROVE  booking'[s].status = "absent"
    BY DEF RowsUnwritten
  <2>1. s # r /\ req[s].pc \in {"idle", "lock", "check", "write"}
    BY <1>1
  <2>2. booking[s].status = "absent" /\ s \in Ids
    BY <2>1 DEF RowsUnwritten, Ids
  <2>3. s # x
    BY <2>1, <2>2 DEF Placed
  <2> QED
    BY <2>2, <2>3 DEF Placed
<1>4. TargetsKept'
  <2> SUFFICES ASSUME NEW s \in Requests, req'[s].pc \in {"lock", "check", "write"},
                      req'[s].op \in MoveOps
               PROVE  /\ req'[s].target \in Ids
                      /\ booking'[req'[s].target].status # "absent"
                      /\ booking'[req'[s].target].hosts = req'[s].hosts
    BY DEF TargetsKept
  <2>1. req'[s] = req[s]
    BY <1>1
  <2>2. /\ req[s].target \in Ids
        /\ booking[req[s].target].status # "absent"
        /\ booking[req[s].target].hosts = req[s].hosts
    BY <2>1 DEF TargetsKept
  <2>3. req[s].target # r
    BY <2>2 DEF RowsUnwritten
  <2> QED
    BY <2>1, <2>2, <2>3 DEF Placed
<1>5. FreeUntilWrite'
  <2>1. FreeToWrite(req, booking)
    BY FreeNow
  <2>2. ASSUME NEW s \in Requests, req'[s].pc = "write", NEW f,
               FreeIn(booking, req[s].hosts, req[s].start, f)
        PROVE  FreeIn(booking', req[s].hosts, req[s].start, f)
    <3>1. s # r /\ req[s].pc = "write"
      BY <1>1, <2>2
    <3>2. req[r].hosts \cap req[s].hosts = {}
      BY <3>1, LocksApart
    <3> QED
      BY <2>2, <3>2 DEF FreeIn, Placed, Live
  <2>3. ASSUME NEW s \in Requests, req'[s].pc = "write"
        PROVE  /\ req'[s].op \in PlaceOps =>
                     FreeIn(booking', req'[s].hosts, req'[s].start, None)
               /\ req'[s].op \in MoveOps =>
                     FreeIn(booking', req'[s].hosts, req'[s].start, req'[s].target)
    <3>1. req'[s] = req[s]
      BY <1>1, <2>3
    <3>2. /\ req[s].op \in PlaceOps => FreeIn(booking, req[s].hosts, req[s].start, None)
          /\ req[s].op \in MoveOps =>
                FreeIn(booking, req[s].hosts, req[s].start, req[s].target)
      BY <2>1, <2>3, <3>1 DEF FreeToWrite
    <3> QED
      BY <2>2, <2>3, <3>1, <3>2
  <2> QED
    BY <2>3, FreeNext DEF FreeToWrite
<1>6. NoDoubleBooking'
  <2> SUFFICES ASSUME NEW a \in Ids, NEW b \in Ids, a # b, Live(a)', Live(b)',
                      booking'[a].hosts \cap booking'[b].hosts # {}
               PROVE  ~ Overlap(booking'[a].start, booking'[b].start)
    BY DEF NoDoubleBooking
  <2>1. ASSUME NEW c \in Ids \ {x}, Live(c)', booking'[c].hosts \cap req[r].hosts # {}
        PROVE  ~ Overlap(booking'[c].start, req[r].start)
    BY <2>1 DEF Placed, FreeIn, Live
  <2>2. CASE a = x
    <3>1. ~ Overlap(booking'[b].start, req[r].start)
      BY <2>1, <2>2 DEF Placed
    <3> QED
      BY <2>2, <3>1 DEF Placed, Overlap
  <2>3. CASE b = x
    BY <2>1, <2>3 DEF Placed
  <2>4. CASE a # x /\ b # x
    BY <2>4 DEF Placed, NoDoubleBooking
  <2> QED
    BY <2>2, <2>3, <2>4
<1> QED
  BY <1>2, <1>3, <1>4, <1>5, <1>6

-----------------------------------------------------------------------------
(* One lemma per step of a request. *)

(* How a request ends, and how it commits. *)
LEMMA AnswerStep ==
  ASSUME TypeOK, NEW r \in Requests, NEW a \in {"none", "ok", "replay", "refused", "crashed"},
         Answer(r, a)
  PROVE  StepsTo(r, "done")
  BY AnsStep DEF Answer, Points

LEMMA EndStep ==
  ASSUME TypeOK, NEW r \in Requests, NEW a \in {"none", "ok", "replay", "refused", "crashed"},
         End(r, a)
  PROVE  StepsTo(r, "done") /\ LocksOfOthers(r)
  BY AnswerStep, ReleasedKeeps DEF End

LEMMA CommitStep ==
  ASSUME TypeOK, NEW r \in Requests, Commit(r)
  PROVE  /\ LocksOfOthers(r)
         /\ AfterWrite(req[r]) \in {"unhold", "burn", "done"}
         /\ StepsTo(r, AfterWrite(req[r]))
<1>1. AfterWrite(req[r]) \in {"unhold", "burn", "done"}
  BY DEF AfterWrite, AfterHold
<1>2. AfterWrite(req[r]) \in Points
  BY <1>1 DEF Points
<1>3. req' = [req EXCEPT ![r].pc = AfterWrite(req[r]), ![r].ans = "ok"]
  BY DEF Commit
<1>4. StepsTo(r, AfterWrite(req[r]))
  BY <1>2, <1>3, AnsStep
<1> QED
  BY <1>1, <1>4, ReleasedKeeps DEF Commit

(* A row takes a new status, and stays there. *)
LEMMA StatusSet ==
  ASSUME TypeOK, NEW b, NEW st \in Status \ {"absent"}, b \in Ids => booking[b].status # "absent",
         st \in {"accepted", "pending"} => Live(b),
         booking' = [booking EXCEPT ![b].status = st]
  PROVE  booking' \in [Ids -> Row] /\ Quiet
<1>1. CASE b \notin Ids
  <2>1. booking' = booking
    BY <1>1 DEF TypeOK
  <2> QED
    BY <2>1 DEF TypeOK, Quiet, Live
<1>2. CASE b \in Ids
  <2> DEFINE row == [booking[b] EXCEPT !.status = st]
  <2>1. booking[b] \in Row
    BY <1>2 DEF TypeOK
  <2>2. /\ row \in Row /\ row.status = st
        /\ row.hosts = booking[b].hosts /\ row.start = booking[b].start
    BY <2>1 DEF Row
  <2>3. booking' = [booking EXCEPT ![b] = row]
    BY <1>2 DEF TypeOK
  <2> HIDE DEF row
  <2>4. booking' \in [Ids -> Row]
    BY <2>2, <2>3 DEF TypeOK
  <2>5. \A c \in Ids : booking'[c] = IF c = b THEN row ELSE booking[c]
    BY <2>3 DEF TypeOK
  <2> QED
    BY <1>2, <2>2, <2>4, <2>5 DEF Quiet, Live
<1> QED
  BY <1>1, <1>2

(* Steps that leave every row as it is. *)
LEMMA SameRows ==
  ASSUME TypeOK, booking' = booking
  PROVE  booking' \in [Ids -> Row] /\ Quiet
  BY DEF TypeOK, Quiet, Live

(* The type of the next state, from that of its parts. *)
LEMMA NextType ==
  ASSUME TypeOK, NEW r \in Requests, NEW p, StepsTo(r, p), LocksOfOthers(r),
         booking' \in [Ids -> Row], hold' \in [Requests -> Hold],
         link' \in [Links -> {"live", "revoked"} \cup Ids], now' \in 0 .. MaxTime
  PROVE  TypeOK'
  BY DEF TypeOK, StepsTo, LocksOfOthers

LEMMA ArriveKeeps ==
  ASSUME GuardedInv, NEW r \in Requests, Arrive(r)
  PROVE  GuardedInv'
<1>1. TypeOK
  BY DEF GuardedInv
<1>2. Arrived(r)
  BY <1>1, ArriveArrives
<1>3. PICK q \in Request :
        /\ req' = [req EXCEPT ![r] = q]
        /\ q.pc \in {"lock", "update", "done"}
        /\ q.pc = "lock" /\ q.op \in MoveOps =>
              /\ q.target \in Ids
              /\ booking[q.target].status # "absent"
              /\ booking[q.target].hosts = q.hosts
  BY <1>2 DEF Arrived
<1>4. req' \in [Requests -> Request] /\ req'[r] = q
  BY <1>1, <1>3 DEF TypeOK
<1>5. \A s \in Requests \ {r} : req'[s] = req[s]
  BY <1>1, <1>3 DEF TypeOK
<1>6. TypeOK' /\ LocksOfOthers(r) /\ Quiet
  BY <1>1, <1>2, <1>4, SameTimesQuiet DEF Arrived, TypeOK, LocksOfOthers
<1>7. req[r].pc = "idle" /\ booking[r].status = "absent"
  BY <1>2 DEF Arrived, GuardedInv, RowsUnwritten
<1> QED
  BY <1>3, <1>4, <1>5, <1>6, <1>7, QuietStep

LEMMA CancelUpdateKeeps ==
  ASSUME GuardedInv, NEW r \in Requests, CancelUpdate(r)
  PROVE  GuardedInv'
<1>1. TypeOK
  BY DEF GuardedInv
<1>2. StepsTo(r, "done") /\ LocksOfOthers(r)
  BY <1>1, AnswerStep, ReleasedKeeps DEF CancelUpdate
<1>3. booking' \in [Ids -> Row] /\ Quiet
  <2>1. CASE Live(req[r].target)
    <3>1. booking' = [booking EXCEPT ![req[r].target].status = "cancelled"]
      BY <2>1 DEF CancelUpdate
    <3>2. "cancelled" \in Status \ {"absent"} /\ booking[req[r].target].status # "absent"
      BY <2>1 DEF Status, Live
    <3> QED
      BY <1>1, <3>1, <3>2, StatusSet
  <2>2. CASE ~ Live(req[r].target)
    BY <1>1, <2>2, SameRows DEF CancelUpdate
  <2> QED
    BY <2>1, <2>2
<1>4. TypeOK'
  BY <1>1, <1>2, <1>3, NextType DEF CancelUpdate, TypeOK
<1> QED
  BY <1>2, <1>3, <1>4, QuietEnd

LEMMA DeclineUpdateKeeps ==
  ASSUME GuardedInv, NEW r \in Requests, DeclineUpdate(r)
  PROVE  GuardedInv'
<1>1. TypeOK
  BY DEF GuardedInv
<1>2. StepsTo(r, "done") /\ LocksOfOthers(r)
  BY <1>1, AnswerStep, ReleasedKeeps DEF DeclineUpdate
<1>3. booking' \in [Ids -> Row] /\ Quiet
  <2>1. CASE StillPending(req[r].target)
    <3>1. booking' = [booking EXCEPT ![req[r].target].status = "rejected"]
      BY <2>1 DEF DeclineUpdate
    <3>2. "rejected" \in Status \ {"absent"} /\ booking[req[r].target].status # "absent"
      BY <2>1 DEF Status, StillPending
    <3> QED
      BY <1>1, <3>1, <3>2, StatusSet
  <2>2. CASE ~ StillPending(req[r].target)
    BY <1>1, <2>2, SameRows DEF DeclineUpdate
  <2> QED
    BY <2>1, <2>2
<1>4. TypeOK'
  BY <1>1, <1>2, <1>3, NextType DEF DeclineUpdate, TypeOK
<1> QED
  BY <1>2, <1>3, <1>4, QuietEnd

LEMMA TakeLockKeeps ==
  ASSUME GuardedInv, NEW r \in Requests, TakeLock(r)
  PROVE  GuardedInv'
<1>1. TypeOK
  BY DEF GuardedInv
<1>2. PICK m \in NextLock(r) : TakeLock(r)!(m)
  BY DEF TakeLock
<1>3. m \in Members \cup {DbLock}
  BY <1>1, LocksType DEF NextLock
<1>4. LocksOfOthers(r) /\ lock'[m] = r
  BY <1>1, <1>2, <1>3, NamesAssumption DEF LocksOfOthers, TypeOK, Ids
<1>5. booking' \in [Ids -> Row] /\ Quiet
  BY <1>1, <1>2, SameRows
<1>6. PICK p \in {"lock", "check"} :
        StepsTo(r, p) /\ (p = "check" => Locks(r) \ Owned(r) = {m})
  <2>1. CASE Locks(r) \ Owned(r) = {m}
    <3>1. StepsTo(r, "check")
      BY <1>1, <1>2, <2>1, PcStep DEF Points
    <3> QED
      BY <2>1, <3>1
  <2>2. CASE Locks(r) \ Owned(r) # {m}
    <3>1. req' = req
      BY <1>2, <2>2
    <3>2. StepsTo(r, "lock")
      BY <1>1, <1>2, <3>1 DEF StepsTo, TypeOK
    <3> QED
      BY <3>2
  <2> QED
    BY <2>1, <2>2
<1>7. TypeOK'
  BY <1>1, <1>2, <1>4, <1>5, <1>6, NextType DEF TypeOK
<1>8. req'[r].pc \in {"check", "write"} => \A n \in Locks(r)' : lock'[n] = r
  <2> SUFFICES ASSUME p = "check", NEW n \in Locks(r)'
               PROVE  lock'[n] = r
    BY <1>6 DEF StepsTo
  <2>1. n \in Locks(r) /\ n \in Members \cup {DbLock}
    BY <1>1, <1>6, LocksType DEF Locks, StepsTo
  <2>2. CASE n = m
    BY <1>4, <2>2
  <2>3. CASE n # m
    BY <1>1, <1>2, <1>3, <1>6, <2>1, <2>3 DEF Owned, TypeOK
  <2> QED
    BY <2>2, <2>3
<1>9. req[r].pc = "lock" /\ booking[r].status = "absent"
  BY <1>2 DEF GuardedInv, RowsUnwritten
<1>10. req[r].op \in MoveOps => /\ req[r].target \in Ids
                               /\ booking[req[r].target].status # "absent"
                               /\ booking[req[r].target].hosts = req[r].hosts
  BY <1>9 DEF GuardedInv, TargetsKept
<1> QED
  BY <1>4, <1>5, <1>6, <1>7, <1>8, <1>9, <1>10, QuietStep DEF StepsTo

LEMMA CheckKeeps ==
  ASSUME GuardedInv, NEW r \in Requests, Check(r)
  PROVE  GuardedInv'
<1>1. TypeOK
  BY DEF GuardedInv
<1>2. booking' \in [Ids -> Row] /\ Quiet
  BY <1>1, SameRows DEF Check
<1>3. ASSUME NEW a \in {"replay", "refused"}, End(r, a)
      PROVE  GuardedInv'
  <2>1. StepsTo(r, "done") /\ LocksOfOthers(r)
    BY <1>1, <1>3, EndStep
  <2>2. TypeOK'
    BY <1>1, <1>2, <2>1, NextType DEF Check, TypeOK
  <2> QED
    BY <1>2, <2>1, <2>2, QuietEnd
<1>4. ASSUME Passes(req[r]), req' = [req EXCEPT ![r].pc = "write"], lock' = lock
      PROVE  GuardedInv'
  <2>1. StepsTo(r, "write") /\ LocksOfOthers(r)
    BY <1>1, <1>4, PcStep, ReleasedKeeps DEF Points
  <2>2. TypeOK'
    BY <1>1, <1>2, <2>1, NextType DEF Check, TypeOK
  <2>3. req[r].pc = "check"
    BY DEF Check
  <2>4. \A m \in Locks(r)' : lock'[m] = r
    BY <1>4, <2>1, <2>3 DEF GuardedInv, LocksHeld, Locks, StepsTo
  <2>5. booking[r].status = "absent"
    BY <2>3 DEF GuardedInv, RowsUnwritten
  <2>6. req[r].op \in MoveOps => /\ req[r].target \in Ids
                                 /\ booking[req[r].target].status # "absent"
                                 /\ booking[req[r].target].hosts = req[r].hosts
    BY <2>3 DEF GuardedInv, TargetsKept
  <2>7. req[r].op \in PlaceOps => FreeIn(booking, req[r].hosts, req[r].start, None)
    BY <1>4, BusyFree DEF Passes, PlaceOps
  <2>8. req[r].op \in MoveOps => FreeIn(booking, req[r].hosts, req[r].start, req[r].target)
    BY <1>4, BusyFree DEF Passes, MoveOps
  <2> QED
    BY <1>2, <2>1, <2>2, <2>4, <2>5, <2>6, <2>7, <2>8, QuietStep DEF StepsTo
<1> QED
  BY <1>3, <1>4 DEF Check

(* A write that is turned down ends the request and nothing else. *)
LEMMA RefusedKeeps ==
  ASSUME GuardedInv, NEW r \in Requests, NEW a \in {"ok", "replay", "refused"}, End(r, a),
         UNCHANGED <<booking, hold, link, now>>
  PROVE  GuardedInv'
<1>1. TypeOK
  BY DEF GuardedInv
<1>2. StepsTo(r, "done") /\ LocksOfOthers(r)
  BY <1>1, EndStep
<1>3. booking' \in [Ids -> Row] /\ Quiet
  BY <1>1, SameRows
<1>4. TypeOK'
  BY <1>1, <1>2, <1>3, NextType DEF TypeOK
<1> QED
  BY <1>2, <1>3, <1>4, QuietEnd

LEMMA WriteBookingKeeps ==
  ASSUME GuardedInv, NEW r \in Requests, WriteBooking(r)
  PROVE  GuardedInv'
<1>1. TypeOK
  BY DEF GuardedInv
<1> DEFINE q == req[r]
           refused == KeyConflict(q.key) \/ Excluded(q.org, q.start, None)
           row == [status |-> IF q.event # None /\ q.event.gated /\ q.op = "book"
                              THEN "pending" ELSE "accepted",
                   event |-> q.event, org |-> q.org, hosts |-> q.hosts, start |-> q.start,
                   people |-> q.who, key |-> q.key, moveKey |-> None, to |-> None]
           new == AfterWrite(q)
<1>2. /\ IF refused
         THEN End(r, IF q.op = "hostEvent" /\ KeyTaken(q.key) THEN "replay" ELSE "refused")
         ELSE Commit(r)
      /\ booking' = IF refused THEN booking ELSE [booking EXCEPT ![r] = row]
      /\ UNCHANGED <<hold, link, now>>
  BY DEF WriteBooking
<1>3. q.pc = "write" /\ q.op \in PlaceOps
  BY DEF WriteBooking, Writing, PlaceOps
<1>4. CASE refused
  BY <1>2, <1>4, RefusedKeeps
<1>5. CASE ~ refused
  <2>1. Commit(r) /\ booking' = [booking EXCEPT ![r] = row]
    BY <1>2, <1>5
  <2>2. new \in {"unhold", "burn", "done"} /\ StepsTo(r, new) /\ LocksOfOthers(r)
    BY <1>1, <2>1, CommitStep
  <2>3. /\ row \in Row /\ row.status # "absent"
        /\ row.hosts = q.hosts /\ row.start = q.start
    BY <1>1 DEF TypeOK, Request, Row, Status
  <2>4. r \in Ids
    BY DEF Ids
  <2> HIDE DEF row
  <2>5. booking' \in [Ids -> Row]
    BY <1>1, <2>1, <2>3 DEF TypeOK
  <2>6. TypeOK'
    BY <1>1, <1>2, <2>2, <2>5, NextType DEF TypeOK
  <2>7. booking'[r] = row /\ \A c \in Ids \ {r} : booking'[c] = booking[c]
    BY <1>1, <2>1, <2>4 DEF TypeOK
  <2>8. FreeIn(booking, q.hosts, q.start, None)
    BY <1>3, FreeNow DEF GuardedInv, FreeToWrite
  <2>9. booking[r].status = "absent"
    BY <1>3 DEF GuardedInv, RowsUnwritten
  <2>10. Placed(r, r, None)
    BY <2>3, <2>4, <2>7, <2>8, <2>9, NamesAssumption DEF Placed, Live
  <2> HIDE DEF new
  <2> QED
    BY <1>3, <2>2, <2>6, <2>10, PlacedStep
<1> QED
  BY <1>4, <1>5

LEMMA WriteHoldKeeps ==
  ASSUME GuardedInv, NEW r \in Requests, WriteHold(r)
  PROVE  GuardedInv'
<1>1. TypeOK
  BY DEF GuardedInv
<1>2. AfterWrite(req[r]) \in {"unhold", "burn", "done"} /\ StepsTo(r, AfterWrite(req[r]))
      /\ LocksOfOthers(r)
  BY <1>1, CommitStep DEF WriteHold
<1>3. booking' \in [Ids -> Row] /\ Quiet
  BY <1>1, SameRows DEF WriteHold
<1>4. hold' \in [Requests -> Hold]
  <2> DEFINE new == [member |-> req[r].org, event |-> req[r].event, start |-> req[r].start,
                     release |-> req[r].at + HoldTime]
  <2>1. new \in Hold
    BY <1>1, TimesAssumption DEF TypeOK, Request, Hold
  <2>2. hold' = [hold EXCEPT ![r] = new]
    BY DEF WriteHold
  <2> HIDE DEF new
  <2> QED
    BY <1>1, <2>1, <2>2 DEF TypeOK
<1>5. TypeOK'
  BY <1>1, <1>2, <1>3, <1>4, NextType DEF WriteHold, TypeOK
<1> QED
  BY <1>2, <1>3, <1>5, QuietEnd

LEMMA WriteSeatKeeps ==
  ASSUME GuardedInv, NEW r \in Requests, WriteSeat(r)
  PROVE  GuardedInv'
<1>1. TypeOK
  BY DEF GuardedInv
<1>2. AfterWrite(req[r]) \in {"unhold", "burn", "done"} /\ StepsTo(r, AfterWrite(req[r]))
      /\ LocksOfOthers(r)
  BY <1>1, CommitStep DEF WriteSeat
<1>3. booking' \in [Ids -> Row] /\ Quiet
  <2>1. booking' = [booking EXCEPT ![req[r].target].people = @ \cup req[r].who]
    BY DEF WriteSeat
  <2>2. CASE req[r].target \in Ids
    <3>1. req[r].who \in SUBSET People
      BY <1>1 DEF TypeOK, Request
    <3> QED
      BY <1>1, <2>1, <2>2, <3>1, PeopleJoin, SameTimesQuiet
  <2>3. CASE req[r].target \notin Ids
    <3>1. booking' = booking
      BY <1>1, <2>1, <2>3 DEF TypeOK
    <3> QED
      BY <1>1, <3>1, SameRows
  <2> QED
    BY <2>2, <2>3
<1>4. TypeOK'
  BY <1>1, <1>2, <1>3, NextType DEF WriteSeat, TypeOK
<1> QED
  BY <1>2, <1>3, <1>4, QuietEnd

LEMMA WriteRescheduleKeeps ==
  ASSUME GuardedInv, NEW r \in Requests, WriteReschedule(r)
  PROVE  GuardedInv'
<1>1. TypeOK
  BY DEF GuardedInv
<1> DEFINE q == req[r]
           b == q.target
           new == AfterWrite(q)
           row == [booking[b] EXCEPT !.start = q.start,
                                     !.moveKey = IF q.key # None THEN q.key ELSE q.seenKey]
<1>2. UNCHANGED <<hold, link, now>>
  BY DEF WriteReschedule
<1>3. q.pc = "write" /\ q.op \in MoveOps
  BY DEF WriteReschedule, Writing, MoveOps
<1>4. CASE End(r, "refused") /\ UNCHANGED booking
  BY <1>2, <1>4, RefusedKeeps
<1>5. CASE /\ Commit(r)
           /\ booking' = [booking EXCEPT ![b].start = q.start,
                                         ![b].moveKey = IF q.key # None THEN q.key ELSE q.seenKey]
  <2>1. new \in {"unhold", "burn", "done"} /\ StepsTo(r, new) /\ LocksOfOthers(r)
    BY <1>1, <1>5, CommitStep
  <2>2. b \in Ids /\ booking[b].status # "absent" /\ booking[b].hosts = q.hosts
    BY <1>3 DEF GuardedInv, TargetsKept
  <2>3. /\ booking[b] \in Row /\ q.start \in Nat
        /\ q.key \in Keys \cup {None} /\ q.seenKey \in Keys \cup {None}
    BY <1>1, <2>2 DEF TypeOK, Request
  <2> DEFINE moved(x, t, k) == [x EXCEPT !.start = t, !.moveKey = k]
  <2>4. ASSUME NEW x \in Row, NEW t \in Nat, NEW k \in Keys \cup {None}
        PROVE  /\ moved(x, t, k) \in Row /\ moved(x, t, k).status = x.status
               /\ moved(x, t, k).hosts = x.hosts /\ moved(x, t, k).start = t
    BY DEF Row
  <2>5. /\ row \in Row /\ row.status = booking[b].status
        /\ row.hosts = q.hosts /\ row.start = q.start
    <3> DEFINE k == IF q.key # None THEN q.key ELSE q.seenKey
    <3>1. k \in Keys \cup {None}
      BY <2>3
    <3>2. row = moved(booking[b], q.start, k)
      OBVIOUS
    <3> HIDE DEF k, q, row, moved, b
    <3>3. /\ moved(booking[b], q.start, k) \in Row
          /\ moved(booking[b], q.start, k).status = booking[b].status
          /\ moved(booking[b], q.start, k).hosts = booking[b].hosts
          /\ moved(booking[b], q.start, k).start = q.start
      BY <2>3, <2>4, <3>1
    <3> QED
      BY <2>2, <3>2, <3>3
  <2>6. booking' = [booking EXCEPT ![b] = row]
    BY <1>1, <1>5, <2>2 DEF TypeOK
  <2> HIDE DEF row
  <2>7. booking' \in [Ids -> Row]
    BY <1>1, <2>5, <2>6 DEF TypeOK
  <2>8. TypeOK'
    BY <1>1, <1>2, <2>1, <2>7, NextType DEF TypeOK
  <2>9. booking'[b] = row /\ \A c \in Ids \ {b} : booking'[c] = booking[c]
    BY <1>1, <2>2, <2>6 DEF TypeOK
  <2>10. FreeIn(booking, q.hosts, q.start, b)
    BY <1>3, FreeNow DEF GuardedInv, FreeToWrite
  <2>11. Placed(r, b, b)
    BY <2>2, <2>5, <2>9, <2>10 DEF Placed, Live
  <2> HIDE DEF new, b
  <2> QED
    BY <1>3, <2>1, <2>8, <2>11, PlacedStep
<1> QED
  BY <1>4, <1>5 DEF WriteReschedule

LEMMA WriteConfirmKeeps ==
  ASSUME GuardedInv, NEW r \in Requests, WriteConfirm(r)
  PROVE  GuardedInv'
<1>1. TypeOK
  BY DEF GuardedInv
<1>2. CASE End(r, "refused") /\ UNCHANGED booking
  BY <1>2, RefusedKeeps DEF WriteConfirm
<1>3. CASE /\ StillPending(req[r].target) /\ Commit(r)
           /\ booking' = [booking EXCEPT ![req[r].target].status = "accepted"]
  <2>1. AfterWrite(req[r]) \in {"unhold", "burn", "done"} /\ StepsTo(r, AfterWrite(req[r]))
        /\ LocksOfOthers(r)
    BY <1>1, <1>3, CommitStep
  <2>2. booking' \in [Ids -> Row] /\ Quiet
    <3>1. Live(req[r].target) /\ booking[req[r].target].status # "absent"
      BY <1>3 DEF StillPending, Live
    <3>2. "accepted" \in Status \ {"absent"}
      BY DEF Status
    <3> QED
      BY <1>1, <1>3, <3>1, <3>2, StatusSet
  <2>3. TypeOK'
    BY <1>1, <2>1, <2>2, NextType DEF WriteConfirm, TypeOK
  <2> QED
    BY <2>1, <2>2, <2>3, QuietEnd
<1> QED
  BY <1>2, <1>3 DEF WriteConfirm

LEMMA WriteMoveKeeps ==
  ASSUME GuardedInv, NEW r \in Requests, WriteMove(r)
  PROVE  GuardedInv'
<1>1. TypeOK
  BY DEF GuardedInv
<1> DEFINE q == req[r]
           b == q.target
           refused == KeyConflict(q.key) \/ Excluded(q.org, q.start, b)
           old == [booking[b] EXCEPT !.status = "cancelled", !.to = r]
           row == [booking[b] EXCEPT !.status = q.seen, !.start = q.start, !.key = q.key,
                                     !.moveKey = q.seenKey]
           new == AfterWrite(q)
<1>2. /\ IF refused THEN End(r, IF KeyTaken(q.key) THEN "replay" ELSE "refused") ELSE Commit(r)
      /\ booking' =
           IF refused THEN booking
           ELSE [booking EXCEPT ![b].status = "cancelled", ![b].to = r,
                                ![r] = [booking[b] EXCEPT !.status = q.seen, !.start = q.start,
                                                          !.key = q.key,
                                                          !.moveKey = q.seenKey]]
      /\ UNCHANGED <<hold, link, now>>
  BY DEF WriteMove
<1>3. q.pc = "write" /\ q.op \in MoveOps
  BY DEF WriteMove, Writing, MoveOps
<1>4. CASE refused
  BY <1>2, <1>4, RefusedKeeps
<1>5. CASE ~ refused
  <2>1. new \in {"unhold", "burn", "done"} /\ StepsTo(r, new) /\ LocksOfOthers(r)
    BY <1>1, <1>2, <1>5, CommitStep
  <2>2. b \in Ids /\ booking[b].status # "absent" /\ booking[b].hosts = q.hosts
    BY <1>3 DEF GuardedInv, TargetsKept
  <2>3. r \in Ids /\ booking[r].status = "absent" /\ r # b
    BY <1>3, <2>2 DEF GuardedInv, RowsUnwritten, Ids
  <2>4. /\ booking[b] \in Row /\ q.start \in Nat /\ q.key \in Keys \cup {None} /\ q.seen \in Status
        /\ q.seenKey \in Keys \cup {None}
    BY <1>1, <2>2 DEF TypeOK, Request
  <2>5. /\ old \in Row /\ old.status = "cancelled"
        /\ old.hosts = booking[b].hosts /\ old.start = booking[b].start
    BY <2>3, <2>4 DEF Row, Status
  <2>6. /\ row \in Row /\ row.status = q.seen /\ row.hosts = q.hosts /\ row.start = q.start
    BY <2>2, <2>4 DEF Row
  <2>7. booking' = [[booking EXCEPT ![b] = old] EXCEPT ![r] = row]
    BY <1>1, <1>2, <1>5, <2>2, <2>3 DEF TypeOK
  <2> HIDE DEF old, row
  <2>8. booking' \in [Ids -> Row]
    BY <1>1, <2>5, <2>6, <2>7 DEF TypeOK
  <2>9. TypeOK'
    BY <1>1, <1>2, <2>1, <2>8, NextType DEF TypeOK
  <2>10. /\ booking'[r] = row /\ booking'[b] = old
         /\ \A c \in Ids \ {r, b} : booking'[c] = booking[c]
    BY <1>1, <2>2, <2>3, <2>7 DEF TypeOK
  <2>11. FreeIn(booking, q.hosts, q.start, b)
    BY <1>3, FreeNow DEF GuardedInv, FreeToWrite
  <2>12. Placed(r, r, b)
    BY <2>2, <2>3, <2>5, <2>6, <2>10, <2>11 DEF Placed, Live
  <2> HIDE DEF new, b
  <2> QED
    BY <1>3, <2>1, <2>9, <2>12, PlacedStep
<1> QED
  BY <1>4, <1>5

LEMMA DropHoldKeeps ==
  ASSUME GuardedInv, NEW r \in Requests, DropHold(r)
  PROVE  GuardedInv'
<1>1. TypeOK
  BY DEF GuardedInv
<1> DEFINE p == AfterHold(req[r])
<1>2. p \in {"burn", "done"} /\ p \in Points
  BY DEF AfterHold, Points
<1>3. StepsTo(r, p) /\ LocksOfOthers(r)
  BY <1>1, <1>2, PcStep, ReleasedKeeps DEF DropHold
<1>4. booking' \in [Ids -> Row] /\ Quiet
  BY <1>1, SameRows DEF DropHold
<1>5. hold' \in [Requests -> Hold]
  BY <1>1 DEF DropHold, TypeOK, NoHold, Hold
<1>6. TypeOK'
  BY <1>1, <1>3, <1>4, <1>5, NextType DEF DropHold, TypeOK
<1> HIDE DEF p
<1> QED
  BY <1>2, <1>3, <1>4, <1>6, QuietEnd

LEMMA BurnLinkKeeps ==
  ASSUME GuardedInv, NEW r \in Requests, BurnLink(r)
  PROVE  GuardedInv'
<1>1. TypeOK
  BY DEF GuardedInv
<1>2. StepsTo(r, "done") /\ LocksOfOthers(r)
  BY <1>1, PcStep, ReleasedKeeps DEF BurnLink, Points
<1>3. booking' \in [Ids -> Row] /\ Quiet
  BY <1>1, SameRows DEF BurnLink
<1>4. link' \in [Links -> {"live", "revoked"} \cup Ids]
  <2> DEFINE by == IF req[r].target = None THEN r ELSE req[r].target
             l == req[r].link
  <2>1. by \in Ids
    BY <1>1 DEF TypeOK, Request, Ids
  <2>2. link' = IF link[l] = "live" THEN [link EXCEPT ![l] = by] ELSE link
    BY DEF BurnLink
  <2> HIDE DEF by
  <2> QED
    BY <1>1, <2>1, <2>2 DEF TypeOK
<1>5. TypeOK'
  BY <1>1, <1>2, <1>3, <1>4, NextType DEF BurnLink, TypeOK
<1> QED
  BY <1>2, <1>3, <1>5, QuietEnd

LEMMA CrashKeeps ==
  ASSUME GuardedInv, NEW r \in Requests, Crash(r)
  PROVE  GuardedInv'
<1>1. TypeOK
  BY DEF GuardedInv
<1>2. StepsTo(r, "done") /\ LocksOfOthers(r)
  BY <1>1, AnswerStep, ReleasedKeeps DEF Crash
<1>3. booking' \in [Ids -> Row] /\ Quiet
  BY <1>1, SameRows DEF Crash
<1>4. TypeOK'
  BY <1>1, <1>2, <1>3, NextType DEF Crash, TypeOK
<1> QED
  BY <1>2, <1>3, <1>4, QuietEnd

(* Links, the clock and a stutter touch nothing the invariant relates. *)
LEMMA OthersKeep ==
  ASSUME GuardedInv,
         UNCHANGED <<booking, lock, req>>, hold' = hold,
         link' \in [Links -> {"live", "revoked"} \cup Ids], now' \in 0 .. MaxTime
  PROVE  GuardedInv'
<1>1. TypeOK'
  BY DEF GuardedInv, TypeOK
<1>2. LocksHeld' /\ RowsUnwritten' /\ TargetsKept'
  BY DEF GuardedInv, LocksHeld, RowsUnwritten, TargetsKept, Locks
<1>3. FreeUntilWrite'
  BY FreeNow, FreeNext DEF GuardedInv
<1>4. NoDoubleBooking'
  BY DEF GuardedInv, NoDoubleBooking, Live
<1> QED
  BY <1>1, <1>2, <1>3, <1>4 DEF GuardedInv

-----------------------------------------------------------------------------
(* The invariant holds at the start: bookings there already do not clash.  *)
LEMMA InitGuarded ==
  ASSUME Init
  PROVE  GuardedInv
<1>1. PICK row \in [Seeds -> SeedRows] :
        /\ \A a, b \in Seeds : a # b /\ row[a].hosts \cap row[b].hosts # {}
                                  => ~ Overlap(row[a].start, row[b].start)
        /\ booking = [b \in Ids |-> IF b \in Seeds THEN row[b] ELSE NoRow]
  BY DEF Init
<1>2. TypeOK
  <2>1. NoRow \in Row
    BY DEF NoRow, Row, Status
  <2>2. booking \in [Ids -> Row]
    BY <1>1, <2>1, SeedsAssumption
  <2>3. hold \in [Requests -> Hold]
    BY DEF Init, NoHold, Hold
  <2>4. req \in [Requests -> Request]
    BY IdleType DEF Init
  <2> QED
    BY <2>2, <2>3, <2>4, TimesAssumption DEF Init, TypeOK
<1>3. \A r \in Requests : req[r].pc = "idle"
  BY DEF Init, Idle
<1>4. LocksHeld /\ TargetsKept /\ FreeUntilWrite
  BY <1>3 DEF LocksHeld, TargetsKept, FreeUntilWrite
<1>5. RowsUnwritten
  BY <1>1, NamesAssumption DEF RowsUnwritten, NoRow, Ids
<1>6. NoDoubleBooking
  BY <1>1 DEF NoDoubleBooking, NoRow, Live, Ids
<1> QED
  BY <1>2, <1>4, <1>5, <1>6 DEF GuardedInv

(* Every step keeps it. *)
LEMMA NextGuarded ==
  ASSUME GuardedInv, [Next]_vars
  PROVE  GuardedInv'
<1>1. ASSUME NEW r \in Requests, Step(r)
      PROVE  GuardedInv'
  BY <1>1, CancelUpdateKeeps, DeclineUpdateKeeps, TakeLockKeeps, CheckKeeps, WriteBookingKeeps,
     WriteHoldKeeps, WriteSeatKeeps, WriteRescheduleKeeps, WriteConfirmKeeps, WriteMoveKeeps,
     DropHoldKeeps, BurnLinkKeeps DEF Step, Write
<1>2. ASSUME NEW l \in Links, Revoke(l)
      PROVE  GuardedInv'
  BY <1>2, OthersKeep DEF Revoke, GuardedInv, TypeOK
<1>3. CASE Tick
  BY <1>3, OthersKeep, TimesAssumption DEF Tick, GuardedInv, TypeOK
<1>4. CASE UNCHANGED vars
  BY <1>4, OthersKeep DEF vars, GuardedInv, TypeOK
<1> QED
  BY <1>1, <1>2, <1>3, <1>4, ArriveKeeps, CrashKeeps DEF Next, Finished

(* A guarded write holds every lock it needs from its check to its write,  *)
(* so what was free stays free: the invariant the runs check holds always. *)
THEOREM GuardedWrites == Spec => []GuardedInv
<1>1. Init => GuardedInv
  BY InitGuarded
<1>2. GuardedInv /\ [Next]_vars => GuardedInv'
  BY NextGuarded
<1> QED
  BY <1>1, <1>2, PTL DEF Spec

(* Rows, holds, links, locks and requests have their types, for every      *)
(* instance.                                                               *)
THEOREM TypeCorrect == Spec => []TypeOK
<1>1. GuardedInv => TypeOK
  BY DEF GuardedInv
<1> QED
  BY <1>1, GuardedWrites, PTL

(* No member, organizer or co-host, is ever in two live bookings that      *)
(* overlap, however many requests, members and times there are and on      *)
(* either database.                                                        *)
THEOREM NoDoubleBookings == Spec => []NoDoubleBooking
<1>1. GuardedInv => NoDoubleBooking
  BY DEF GuardedInv
<1> QED
  BY <1>1, GuardedWrites, PTL
=============================================================================
