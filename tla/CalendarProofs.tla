---------------------------- MODULE CalendarProofs ----------------------------
(***************************************************************************)
(* Theorems about CalendarEffects, for any destinations, changes, tries,   *)
(* looks and faults.                                                       *)
(***************************************************************************)
EXTENDS CalendarEffects, SequenceTheorems, WellFoundedInduction, TLAPS

(* The bounds are numbers; a booking has a calendar; a look that waits is   *)
(* one of the looks there are.                                             *)
CalendarBounds ==
    /\ Dests \in Seq(Destinations) /\ Dests # <<>>
    /\ MaxChanges \in Nat \ {0} /\ MaxTries \in Nat /\ MaxFaults \in Nat
    /\ WaitLooks \in Nat /\ MaxLooks \in Nat /\ WaitLooks <= MaxLooks

-----------------------------------------------------------------------------
(* The least, the first destination, and the first row not ended. *)

LEMMA LeastNumber ==
  ASSUME NEW T \in SUBSET Nat, T # {}
  PROVE  \E x \in T : \A y \in T : x <= y
<1>1. PICK x \in T : \A y \in T : ~ (<<y, x>> \in OpToRel(<, Nat))
  BY WFMin, NatLessThanWellFounded
<1>2. \A y \in T : ~ (y < x)
  BY <1>1 DEF OpToRel
<1>3. \A y \in T : x <= y
  BY <1>2
<1> QED
  BY <1>3

LEMMA FirstIn ==
  ASSUME CalendarBounds, NEW D \in SUBSET Destinations, D # {}
  PROVE  First(D) \in D
<1> DEFINE At == {i \in DOMAIN Dests : Dests[i] \in D}
<1>1. DOMAIN Dests = 1 .. Len(Dests) /\ Len(Dests) \in Nat
  BY LenProperties DEF CalendarBounds
<1>2. At \in SUBSET Nat /\ At # {}
  BY <1>1 DEF Destinations
<1>3. PICK i \in At : \A j \in At : i <= j
  <2> HIDE DEF At
  <2> QED
    BY <1>2, LeastNumber
<1>4. i \in DOMAIN Dests /\ Dests[i] \in D /\ \A j \in 1 .. i - 1 : Dests[j] \notin D
  BY <1>1, <1>3
<1> QED
  BY <1>4 DEF First

LEMMA OrganizerIn ==
  ASSUME CalendarBounds
  PROVE  Organizer \in Destinations
<1>1. DOMAIN Dests = 1 .. Len(Dests) /\ Len(Dests) \in Nat /\ Len(Dests) # 0
  BY LenProperties, EmptySeq DEF CalendarBounds
<1> QED
  BY <1>1 DEF Organizer, Destinations

LEMMA InvitingIn ==
  ASSUME CalendarBounds, NEW D \in SUBSET Destinations
  PROVE  Inviting(D) \in Destinations /\ (D # {} => Inviting(D) \in D)
BY FirstIn, OrganizerIn DEF Inviting

Rows == DOMAIN line

(* The first row of s that has not ended. *)
HeadOf(s) ==
    CHOOSE i \in DOMAIN s : s[i].status = "pending" /\ \A j \in 1 .. i - 1 : ~ (s[j].status = "pending")

LEMMA HeadOfFirst ==
  ASSUME NEW s \in Seq(Row), NEW k \in DOMAIN s, s[k].status = "pending"
  PROVE  /\ HeadOf(s) \in DOMAIN s /\ s[HeadOf(s)].status = "pending" /\ HeadOf(s) <= k
         /\ \A j \in DOMAIN s : j < HeadOf(s) => s[j].status # "pending"
<1> DEFINE P == {i \in DOMAIN s : s[i].status = "pending"}
<1>1. DOMAIN s = 1 .. Len(s) /\ Len(s) \in Nat
  BY LenProperties
<1>2. P \in SUBSET Nat /\ P # {}
  BY <1>1
<1>3. PICK i \in P : \A j \in P : i <= j
  <2> HIDE DEF P
  <2> QED
    BY <1>2, LeastNumber
<1>4. i \in DOMAIN s /\ s[i].status = "pending" /\ \A j \in 1 .. i - 1 : ~ (s[j].status = "pending")
  BY <1>1, <1>3
<1>5. /\ HeadOf(s) \in DOMAIN s /\ s[HeadOf(s)].status = "pending"
      /\ \A j \in 1 .. HeadOf(s) - 1 : ~ (s[j].status = "pending")
  BY <1>4 DEF HeadOf
<1> QED
  BY <1>1, <1>5

LEMMA HeadOfOnly ==
  ASSUME NEW s \in Seq(Row), NEW k \in DOMAIN s, s[k].status = "pending",
         \A j \in DOMAIN s : j < k => s[j].status # "pending"
  PROVE  HeadOf(s) = k
<1>1. DOMAIN s = 1 .. Len(s) /\ Len(s) \in Nat
  BY LenProperties
<1>2. HeadOf(s) \in DOMAIN s /\ s[HeadOf(s)].status = "pending" /\ HeadOf(s) <= k
  BY HeadOfFirst
<1> QED
  BY <1>1, <1>2

LEMMA HeadIs ==
  /\ h = HeadOf(line) /\ h' = HeadOf(line')
  /\ Mine = line[h] /\ Mine' = line'[h']
  /\ AnyPending <=> \E i \in DOMAIN line : line[i].status = "pending"
  /\ AnyPending' <=> \E i \in DOMAIN line' : line'[i].status = "pending"
BY DEF h, HeadRow, HeadOf, Pending, Mine, AnyPending

-----------------------------------------------------------------------------
(* The rows' order, and the job's place on the first of them. *)

JobHasRow == job.pc # "idle" => AnyPending
InTurn == \A i, j \in Rows : i < j /\ line[i].status = "pending" => line[j].status = "pending"
FirstCreates == \A i \in Rows : line[i].action = "create" <=> i = 1
DeleteLast ==
    \A i \in Rows : line[i].action = "delete" <=> i = Len(line) /\ booking.status = Cancelled
Begun ==
    /\ change = <<>> <=> line = <<>>
    /\ booking.status = Cancelled => line # <<>>
    /\ \A c \in DOMAIN change : change[c].action = "delete" => booking.status = Cancelled
    /\ Len(change) <= MaxChanges
ReinvitePcs == {"reinvite", "takeoff", "takenoff", "putback", "reinvited"}
FitsJob(pc, action) ==
    /\ pc \in {"decide", "mark"} => action # "reinvite"
    /\ pc = "remove" => action = "delete"
    /\ pc \in {"claim", "create", "fill"} => action \in {"create", "reschedule"}
    /\ pc = "move" => action = "reschedule"
    /\ pc \in ReinvitePcs => action = "reinvite"
PcFits == FitsJob(job.pc, Mine.action)
AtDest == job.pc \in {"create", "fill", "takeoff", "takenoff", "putback"} => job.left # {}

(* A reinvite is for a change whose row is before it. *)
HasRow(i) ==
    \E o \in Rows : o < i /\ line[o].mail = line[i].mail /\ line[o].action # "reinvite"
ReinvitesOwe ==
    \A i \in Rows : line[i].action = "reinvite" => line[i].mail \in Changes /\ HasRow(i)

Base ==
    /\ TypeOK /\ JobHasRow /\ InTurn /\ FirstCreates /\ DeleteLast /\ Begun /\ PcFits /\ AtDest
    /\ ReinvitesOwe

LEMMA LineDomain ==
  ASSUME line \in Seq(Row)
  PROVE  /\ Rows = 1 .. Len(line) /\ Len(line) \in Nat /\ (line = <<>> <=> Len(line) = 0)
         /\ \A i \in Rows : line[i] \in Row
<1>1. Rows = 1 .. Len(line) /\ Len(line) \in Nat
  BY LenProperties DEF Rows
<1>2. \A i \in 1 .. Len(line) : line[i] \in Row
  BY ElementOfSeq
<1> QED
  BY <1>1, <1>2, EmptySeq

(* The first row not ended. *)
LEMMA HeadFacts ==
  ASSUME line \in Seq(Row), AnyPending
  PROVE  /\ h \in Rows /\ Mine = line[h] /\ Mine \in Row /\ Mine.status = "pending"
         /\ \A j \in Rows : j < h => line[j].status # "pending"
         /\ \A j \in Rows : line[j].status = "pending" => h <= j
BY HeadIs, HeadOfFirst, LineDomain DEF Rows

-----------------------------------------------------------------------------
(* What a step does to the rows: which of their fields it leaves alone.     *)

Steady ==
    /\ DOMAIN line' = DOMAIN line /\ Len(line') = Len(line) /\ line' \in Seq(Row)
    /\ \A i \in Rows : line'[i].action = line[i].action
SameMail == \A i \in Rows : line'[i].mail = line[i].mail /\ line'[i].late = line[i].late
SameMuted == \A i \in Rows : line'[i].muted = line[i].muted
SameLooks == \A i \in Rows : line'[i].looks = line[i].looks
SameRedo ==
    \A i \in Rows : line'[i].removed = line[i].removed /\ line'[i].reinvited = line[i].reinvited
SameStatus == \A i \in Rows : line'[i].status = line[i].status

(* The first row ends with s, or stays with s = "pending"; no other does. *)
HeadBecomes(s) ==
    /\ line'[h].status = s
    /\ \A i \in Rows : i # h => line'[i].status = line[i].status

LEMMA EditRow ==
  ASSUME line \in Seq(Row), NEW i \in Rows, NEW row \in Row, line' = [line EXCEPT ![i] = row]
  PROVE  /\ DOMAIN line' = DOMAIN line /\ Len(line') = Len(line) /\ line' \in Seq(Row)
         /\ line'[i] = row /\ \A j \in Rows : j # i => line'[j] = line[j]
<1>1. i \in 1 .. Len(line) /\ Rows = 1 .. Len(line)
  BY LineDomain
<1>2. /\ line' \in Seq(Row) /\ Len(line') = Len(line)
      /\ \A j \in 1 .. Len(line) : line'[j] = IF j = i THEN row ELSE line[j]
  BY <1>1, ExceptSeq
<1>3. DOMAIN line' = 1 .. Len(line')
  BY <1>2, LenProperties
<1> QED
  BY <1>1, <1>2, <1>3 DEF Rows

LEMMA SameLine ==
  ASSUME line \in Seq(Row), line' = line
  PROVE  /\ Steady /\ SameMail /\ SameMuted /\ SameLooks /\ SameRedo /\ SameStatus
         /\ h' = h /\ Mine' = Mine /\ (AnyPending' <=> AnyPending)
BY HeadIs, LineDomain DEF Steady, SameMail, SameMuted, SameLooks, SameRedo, SameStatus

(* Where no row ends, the first stays the first. *)
LEMMA HeadStays ==
  ASSUME line \in Seq(Row), AnyPending, Steady, SameStatus
  PROVE  h' = h /\ AnyPending' /\ Mine' = line'[h] /\ Mine'.action = Mine.action
<1>1. /\ h \in Rows /\ line[h].status = "pending" /\ Mine = line[h]
      /\ \A j \in Rows : j < h => line[j].status # "pending"
  BY HeadFacts
<1>2. /\ h \in DOMAIN line' /\ line'[h].status = "pending" /\ line' \in Seq(Row)
      /\ \A j \in DOMAIN line' : j < h => line'[j].status # "pending"
  BY <1>1 DEF Steady, SameStatus, Rows
<1>3. HeadOf(line') = h
  BY <1>2, HeadOfOnly
<1> QED
  BY <1>1, <1>2, <1>3, HeadIs DEF Steady, Rows

LEMMA EndOutcome ==
  ASSUME line \in Seq(Row), AnyPending, NEW s \in {"done", "failed", "skipped"}, EndRow(s)
  PROVE  /\ Steady /\ SameMail /\ SameMuted /\ SameLooks /\ SameRedo /\ HeadBecomes(s)
         /\ job' = NoJob
<1> DEFINE row == [Mine EXCEPT !.status = s]
<1>1. h \in Rows /\ Mine = line[h] /\ Mine \in Row
  BY HeadFacts
<1>2. /\ row \in Row /\ row.status = s /\ row.action = Mine.action /\ row.mail = Mine.mail
      /\ row.late = Mine.late /\ row.muted = Mine.muted /\ row.looks = Mine.looks
      /\ row.removed = Mine.removed /\ row.reinvited = Mine.reinvited
  BY <1>1 DEF Row
<1>3. line' = [line EXCEPT ![h] = row] /\ job' = NoJob
  BY <1>1 DEF EndRow, Rows
<1> HIDE DEF row
<1>4. /\ DOMAIN line' = DOMAIN line /\ Len(line') = Len(line) /\ line' \in Seq(Row)
      /\ line'[h] = row /\ \A j \in Rows : j # h => line'[j] = line[j]
  BY <1>1, <1>2, <1>3, EditRow
<1> QED
  BY <1>1, <1>2, <1>3, <1>4
     DEF Steady, SameMail, SameMuted, SameLooks, SameRedo, HeadBecomes

(* A failed attempt: the first row is tried again, or it has failed. *)
Tried(row, s) == [row EXCEPT !.tries = row.tries + 1, !.status = s]

LEMMA TriedRow ==
  ASSUME NEW row \in Row, NEW s \in {"failed", "pending"}
  PROVE  /\ Tried(row, s) \in Row /\ Tried(row, s).status = s
         /\ Tried(row, s).action = row.action /\ Tried(row, s).mail = row.mail
         /\ Tried(row, s).late = row.late /\ Tried(row, s).muted = row.muted
         /\ Tried(row, s).looks = row.looks /\ Tried(row, s).removed = row.removed
         /\ Tried(row, s).reinvited = row.reinvited
<1>1. row.tries + 1 \in Nat
  BY DEF Row
<1>2. Tried(row, s) \in Row
  BY <1>1 DEF Row, Tried
<1>3. /\ Tried(row, s).status = s /\ Tried(row, s).action = row.action
      /\ Tried(row, s).mail = row.mail /\ Tried(row, s).late = row.late
      /\ Tried(row, s).muted = row.muted /\ Tried(row, s).looks = row.looks
      /\ Tried(row, s).removed = row.removed /\ Tried(row, s).reinvited = row.reinvited
  BY DEF Row, Tried
<1> QED
  BY <1>2, <1>3

LEMMA FailOutcome ==
  ASSUME line \in Seq(Row), AnyPending, NEW row \in Row, FailRow(row),
         \/ row = Mine
         \/ row = [Mine EXCEPT !.looks = @ + 1]
  PROVE  /\ Steady /\ SameMail /\ SameMuted /\ SameRedo
         /\ HeadBecomes("pending") \/ HeadBecomes("failed")
         /\ \A i \in Rows : i # h => line'[i].looks = line[i].looks
         /\ line'[h].looks = row.looks
         /\ job' = NoJob
<1> DEFINE s == IF row.tries + 1 = Budget THEN "failed" ELSE "pending"
<1> DEFINE next == Tried(row, s)
<1>1. h \in Rows /\ Mine = line[h] /\ Mine \in Row
  BY HeadFacts
<1>2. s \in {"failed", "pending"}
  OBVIOUS
<1>3. line' = [line EXCEPT ![h] = next] /\ job' = NoJob
  BY DEF FailRow, Tried
<1> HIDE DEF s
<1>4. /\ next \in Row /\ next.status = s /\ next.action = row.action /\ next.mail = row.mail
      /\ next.late = row.late /\ next.muted = row.muted /\ next.looks = row.looks
      /\ next.removed = row.removed /\ next.reinvited = row.reinvited
  BY <1>2, TriedRow
<1>5. /\ row.action = Mine.action /\ row.mail = Mine.mail
      /\ row.late = Mine.late /\ row.muted = Mine.muted
      /\ row.removed = Mine.removed /\ row.reinvited = Mine.reinvited
  BY <1>1 DEF Row
<1> HIDE DEF next
<1>6. /\ DOMAIN line' = DOMAIN line /\ Len(line') = Len(line) /\ line' \in Seq(Row)
      /\ line'[h] = next /\ \A j \in Rows : j # h => line'[j] = line[j]
  BY <1>1, <1>3, <1>4, EditRow
<1> QED
  BY <1>1, <1>2, <1>3, <1>4, <1>5, <1>6
     DEF Steady, SameMail, SameMuted, SameRedo, HeadBecomes

LEMMA MuteOutcome ==
  ASSUME line \in Seq(Row), AnyPending, line' = MarkMuted
  PROVE  /\ Steady /\ SameMail /\ SameLooks /\ SameRedo /\ SameStatus
         /\ line'[h].muted /\ \A i \in Rows : i # h => line'[i].muted = line[i].muted
<1> DEFINE row == [Mine EXCEPT !.muted = TRUE]
<1>1. h \in Rows /\ Mine = line[h] /\ Mine \in Row
  BY HeadFacts
<1>2. /\ row \in Row /\ row.status = Mine.status /\ row.action = Mine.action /\ row.mail = Mine.mail
      /\ row.late = Mine.late /\ row.muted = TRUE /\ row.looks = Mine.looks
      /\ row.removed = Mine.removed /\ row.reinvited = Mine.reinvited
  BY <1>1 DEF Row
<1>3. line' = [line EXCEPT ![h] = row]
  BY <1>1 DEF MarkMuted, Rows
<1> HIDE DEF row
<1>4. /\ DOMAIN line' = DOMAIN line /\ Len(line') = Len(line) /\ line' \in Seq(Row)
      /\ line'[h] = row /\ \A j \in Rows : j # h => line'[j] = line[j]
  BY <1>1, <1>2, <1>3, EditRow
<1> QED
  BY <1>1, <1>2, <1>3, <1>4
     DEF Steady, SameMail, SameLooks, SameRedo, SameStatus

(* A row is marked with the mail of change c. *)
LEMMA TagOutcome ==
  ASSUME line \in Seq(Row), NEW i \in Rows, NEW c \in Changes, NEW late \in BOOLEAN,
         line' = [line EXCEPT ![i].mail = c, ![i].late = late]
  PROVE  /\ Steady /\ SameMuted /\ SameLooks /\ SameRedo /\ SameStatus
         /\ line'[i].mail = c /\ line'[i].late = late
         /\ \A j \in Rows : j # i => line'[j] = line[j]
<1> DEFINE row == [line[i] EXCEPT !.mail = c, !.late = late]
<1>1. line[i] \in Row /\ c \in 0 .. MaxChanges
  BY LineDomain DEF Changes
<1>2. /\ row \in Row /\ row.status = line[i].status /\ row.action = line[i].action /\ row.mail = c
      /\ row.muted = line[i].muted /\ row.looks = line[i].looks
      /\ row.removed = line[i].removed /\ row.reinvited = line[i].reinvited
  BY <1>1 DEF Row
<1>3. row.late = late
  BY <1>1 DEF Row
<1>4. line' = [line EXCEPT ![i] = row]
  BY DEF Rows
<1> HIDE DEF row
<1>5. /\ DOMAIN line' = DOMAIN line /\ Len(line') = Len(line) /\ line' \in Seq(Row)
      /\ line'[i] = row /\ \A j \in Rows : j # i => line'[j] = line[j]
  BY <1>2, <1>4, EditRow
<1> QED
  BY <1>2, <1>3, <1>5 DEF Steady, SameMuted, SameLooks, SameRedo, SameStatus

LEMMA RemovedOutcome ==
  ASSUME line \in Seq(Row), NEW i \in Rows, line' = [line EXCEPT ![i].removed = TRUE]
  PROVE  /\ Steady /\ SameMail /\ SameMuted /\ SameLooks /\ SameStatus
         /\ \A j \in Rows : line'[j].reinvited = line[j].reinvited
         /\ line'[i].removed /\ \A j \in Rows : j # i => line'[j].removed = line[j].removed
<1> DEFINE row == [line[i] EXCEPT !.removed = TRUE]
<1>1. line[i] \in Row
  BY LineDomain
<1>2. /\ row \in Row /\ row.status = line[i].status /\ row.action = line[i].action
      /\ row.mail = line[i].mail /\ row.late = line[i].late
      /\ row.muted = line[i].muted /\ row.looks = line[i].looks
      /\ row.removed = TRUE /\ row.reinvited = line[i].reinvited
  BY <1>1 DEF Row
<1>4. line' = [line EXCEPT ![i] = row]
  BY DEF Rows
<1> HIDE DEF row
<1>5. /\ DOMAIN line' = DOMAIN line /\ Len(line') = Len(line) /\ line' \in Seq(Row)
      /\ line'[i] = row /\ \A j \in Rows : j # i => line'[j] = line[j]
  BY <1>2, <1>4, EditRow
<1> QED
  BY <1>2, <1>5 DEF Steady, SameMail, SameMuted, SameLooks, SameStatus

LEMMA EditTwo ==
  ASSUME NEW s \in Seq(Row), NEW i \in 1 .. Len(s), NEW j \in 1 .. Len(s), i # j,
         NEW a \in Row, NEW b \in Row
  PROVE  LET t == [[s EXCEPT ![i] = a] EXCEPT ![j] = b] IN
         /\ t \in Seq(Row) /\ Len(t) = Len(s) /\ DOMAIN t = DOMAIN s
         /\ \A k \in DOMAIN s : t[k] = IF k = j THEN b ELSE IF k = i THEN a ELSE s[k]
<1> DEFINE mid == [s EXCEPT ![i] = a]
<1> DEFINE t == [mid EXCEPT ![j] = b]
<1>1. DOMAIN s = 1 .. Len(s)
  BY LenProperties
<1>2. /\ mid \in Seq(Row) /\ Len(mid) = Len(s)
      /\ \A k \in 1 .. Len(s) : mid[k] = IF k = i THEN a ELSE s[k]
  BY ExceptSeq
<1> HIDE DEF mid
<1>3. /\ t \in Seq(Row) /\ Len(t) = Len(mid)
      /\ \A k \in 1 .. Len(mid) : t[k] = IF k = j THEN b ELSE mid[k]
  <2>1. j \in 1 .. Len(mid)
    BY <1>2
  <2> QED
    BY <1>1, <1>2, <2>1, ExceptSeq
<1>4. DOMAIN t = 1 .. Len(t)
  BY <1>3, LenProperties
<1> QED
  BY <1>1, <1>2, <1>3, <1>4

LEMMA ReinvitedOutcome ==
  ASSUME line \in Seq(Row), AnyPending, NEW o \in Rows, o # h,
         line' = [line EXCEPT ![o].reinvited = TRUE, ![h].status = "done"]
  PROVE  /\ Steady /\ SameMail /\ SameMuted /\ SameLooks /\ HeadBecomes("done")
         /\ \A j \in Rows : line'[j].removed = line[j].removed
         /\ line'[o].reinvited /\ \A j \in Rows : j # o => line'[j].reinvited = line[j].reinvited
<1> DEFINE row == [line[o] EXCEPT !.reinvited = TRUE]
<1> DEFINE last == [Mine EXCEPT !.status = "done"]
<1>1. line[o] \in Row /\ h \in Rows /\ Mine = line[h] /\ Mine \in Row /\ Rows = 1 .. Len(line)
  BY LineDomain, HeadFacts
<1>2. /\ row \in Row /\ row.status = line[o].status /\ row.action = line[o].action
      /\ row.mail = line[o].mail /\ row.late = line[o].late
      /\ row.muted = line[o].muted /\ row.looks = line[o].looks
      /\ row.reinvited = TRUE /\ row.removed = line[o].removed
  BY <1>1 DEF Row
<1>3. /\ last \in Row /\ last.status = "done" /\ last.action = Mine.action /\ last.mail = Mine.mail
      /\ last.late = Mine.late /\ last.muted = Mine.muted /\ last.looks = Mine.looks
      /\ last.removed = Mine.removed /\ last.reinvited = Mine.reinvited
  BY <1>1 DEF Row
<1>4. line' = [[line EXCEPT ![o] = row] EXCEPT ![h] = last]
  BY <1>1 DEF Rows
<1> HIDE DEF row, last
<1>5. /\ line' \in Seq(Row) /\ Len(line') = Len(line) /\ DOMAIN line' = DOMAIN line
      /\ \A k \in DOMAIN line : line'[k] = IF k = h THEN last ELSE IF k = o THEN row ELSE line[k]
  <2>1. h \in 1 .. Len(line) /\ o \in 1 .. Len(line)
    BY <1>1
  <2>2. row \in Row /\ last \in Row
    BY <1>2, <1>3
  <2> DEFINE t == [[line EXCEPT ![o] = row] EXCEPT ![h] = last]
  <2>3. /\ t \in Seq(Row) /\ Len(t) = Len(line) /\ DOMAIN t = DOMAIN line
        /\ \A k \in DOMAIN line : t[k] = IF k = h THEN last ELSE IF k = o THEN row ELSE line[k]
    BY <2>1, <2>2, EditTwo, Zenon
  <2>4. line' = t
    BY <1>4
  <2> HIDE DEF t
  <2> QED
    BY <2>3, <2>4
<1> QED
  BY <1>1, <1>2, <1>3, <1>5 DEF Steady, SameMail, SameMuted, SameLooks, HeadBecomes, Rows

(* A new row goes behind all others. *)
LEMMA AppendOutcome ==
  ASSUME line \in Seq(Row), CalendarBounds, NEW m \in 0 .. MaxChanges,
         NEW action \in {"create", "reschedule", "delete", "reinvite"},
         line' = Append(line, NewRow(action, m))
  PROVE  /\ line' \in Seq(Row) /\ Len(line') = Len(line) + 1 /\ line' # <<>>
         /\ DOMAIN line' = Rows \cup {Len(line) + 1} /\ Len(line) + 1 \notin Rows
         /\ \A i \in Rows : line'[i] = line[i] /\ i < Len(line) + 1
         /\ line'[Len(line) + 1] = NewRow(action, m) /\ NewRow(action, m) \in Row
         /\ AnyPending' /\ (AnyPending => h' = h /\ Mine' = Mine)
         /\ (~ AnyPending => h' = Len(line) + 1 /\ Mine' = NewRow(action, m))
<1>1. /\ Rows = 1 .. Len(line) /\ Len(line) \in Nat
  BY LineDomain
<1>2. NewRow(action, m) \in Row /\ NewRow(action, m).status = "pending"
  BY DEF NewRow, Row, CalendarBounds
<1> DEFINE new == NewRow(action, m)
<1> HIDE DEF new
<1>3. /\ line' \in Seq(Row) /\ Len(line') = Len(line) + 1
      /\ \A i \in 1 .. Len(line) : line'[i] = line[i]
      /\ line'[Len(line) + 1] = new
  BY <1>2 DEF new
<1>4. DOMAIN line' = 1 .. Len(line')
  BY <1>3, LenProperties
<1>5. /\ DOMAIN line' = Rows \cup {Len(line) + 1} /\ Len(line) + 1 \notin Rows
      /\ \A i \in Rows : line'[i] = line[i] /\ i < Len(line) + 1
  BY <1>1, <1>3, <1>4
<1>6. line' # <<>>
  BY <1>3, <1>1, EmptySeq
<1>7. AnyPending'
  BY <1>2, <1>3, <1>5, HeadIs DEF new
<1>8. ASSUME AnyPending
      PROVE  h' = h /\ Mine' = Mine
  <2>1. /\ h \in Rows /\ line[h].status = "pending" /\ Mine = line[h]
        /\ \A j \in Rows : j < h => line[j].status # "pending"
    BY <1>8, HeadFacts
  <2>2. HeadOf(line') = h
    <3>1. \A j \in DOMAIN line' : j < h => line'[j].status # "pending"
      BY <2>1, <1>5, <1>1
    <3> QED
      BY <3>1, <2>1, <1>3, <1>5, HeadOfOnly
  <2> QED
    BY <2>1, <2>2, <1>5, HeadIs
<1>9. ASSUME ~ AnyPending
      PROVE  h' = Len(line) + 1 /\ Mine' = new
  <2>1. \A j \in DOMAIN line' : j < Len(line) + 1 => line'[j].status # "pending"
    BY <1>9, <1>5, <1>1, HeadIs DEF Rows
  <2>2. HeadOf(line') = Len(line) + 1
    <3>1. Len(line) + 1 \in DOMAIN line' /\ line'[Len(line) + 1].status = "pending"
      BY <1>2, <1>3, <1>5 DEF new
    <3> QED
      BY <2>1, <3>1, <1>3, HeadOfOnly
  <2> QED
    BY <2>2, <1>3, HeadIs
<1> QED
  BY <1>2, <1>3, <1>5, <1>6, <1>7, <1>8, <1>9 DEF new

-----------------------------------------------------------------------------
(* Base is inductive. *)

LEMMA RowsFit ==
  ASSUME Base, Steady, UNCHANGED booking,
         \/ SameStatus
         \/ AnyPending /\ \E s \in {"pending", "done", "failed", "skipped"} : HeadBecomes(s)
  PROVE  InTurn' /\ FirstCreates' /\ DeleteLast' /\ (UNCHANGED change => Begun')
<1>1. /\ Rows = 1 .. Len(line) /\ Len(line) \in Nat /\ (line = <<>> <=> Len(line) = 0)
      /\ line \in Seq(Row)
  BY LineDomain DEF Base, TypeOK
<1>2. /\ Rows' = Rows /\ Len(line') = Len(line) /\ line' \in Seq(Row)
      /\ \A i \in Rows : line'[i].action = line[i].action
  BY DEF Steady, Rows
<1>3. line' = <<>> <=> line = <<>>
  BY <1>1, <1>2, EmptySeq
<1>4. InTurn'
  <2>1. CASE SameStatus
    BY <1>2, <2>1 DEF InTurn, SameStatus, Base
  <2>2. ASSUME AnyPending, NEW s \in {"pending", "done", "failed", "skipped"}, HeadBecomes(s)
        PROVE  InTurn'
    <3>1. \A j \in Rows : line[j].status = "pending" => h <= j
      BY <1>1, <2>2, HeadFacts
    <3>2. \A i \in Rows : line'[i].status = "pending" => line[i].status = "pending" \/ i = h
      BY <2>2 DEF HeadBecomes
    <3>3. h \in Rows /\ line[h].status = "pending"
      BY <1>1, <2>2, HeadFacts
    <3> QED
      BY <1>1, <1>2, <2>2, <3>1, <3>2, <3>3 DEF InTurn, HeadBecomes, Base
  <2> QED
    BY <2>1, <2>2
<1>5. FirstCreates' /\ DeleteLast'
  BY <1>2 DEF FirstCreates, DeleteLast, Base
<1> QED
  BY <1>3, <1>4, <1>5 DEF Begun, Base

(* A step that leaves the changes alone and the job on its row, or ends it. *)
LEMMA BaseKept ==
  ASSUME Base, Steady, UNCHANGED booking, UNCHANGED change \/ Begun', TypeOK',
         SameMail \/ ReinvitesOwe',
         \/ /\ SameStatus
            /\ job'.pc # "idle" => AnyPending /\ FitsJob(job'.pc, Mine.action)
         \/ /\ AnyPending /\ job' = NoJob
            /\ \E s \in {"pending", "done", "failed", "skipped"} : HeadBecomes(s),
         AtDest'
  PROVE  Base'
<1>1. InTurn' /\ FirstCreates' /\ DeleteLast' /\ Begun'
  BY RowsFit
<1>2. JobHasRow' /\ PcFits'
  <2>1. CASE job'.pc = "idle"
    BY <2>1 DEF JobHasRow, PcFits, FitsJob, ReinvitePcs
  <2>2. CASE job'.pc # "idle"
    <3>1. SameStatus /\ AnyPending /\ FitsJob(job'.pc, Mine.action)
      BY <2>2 DEF NoJob
    <3>2. AnyPending' /\ Mine'.action = Mine.action
      BY <3>1, HeadStays DEF Base, TypeOK
    <3> QED
      BY <3>1, <3>2 DEF JobHasRow, PcFits
  <2> QED
    BY <2>1, <2>2
<1>3. SameMail => ReinvitesOwe'
  BY DEF Base, ReinvitesOwe, HasRow, SameMail, Steady, Rows
<1> QED
  BY <1>1, <1>2, <1>3 DEF Base

LEMMA InitBase ==
  ASSUME CalendarBounds, Init
  PROVE  Base
<1>1. Organizer \in Destinations
  BY OrganizerIn
<1>2. /\ Rows = {} /\ ~ AnyPending /\ line \in Seq(Row) /\ change = <<>> /\ line = <<>>
      /\ Len(change) = 0
  BY EmptySeq DEF Init, Rows, AnyPending
<1>3. NoJob \in Job /\ 1 \in Changes
  BY <1>1 DEF NoJob, Job, Changes, CalendarBounds
<1>4. TypeOK
  <2>1. NoMail \in Mail
    BY DEF NoMail, Mail, NoMeeting, Content
  <2> QED
    BY <1>2, <1>3, <2>1 DEF Init, TypeOK, CalendarBounds, Cancelled
<1> QED
  BY <1>2, <1>4 DEF ReinvitesOwe, Init, Base, JobHasRow, InTurn, FirstCreates, DeleteLast, Begun, PcFits, FitsJob,
     ReinvitePcs, AtDest, NoJob, Cancelled, CalendarBounds

(* Changes that are numbered. *)
LEMMA ChangeDomain ==
  ASSUME CalendarBounds, Base
  PROVE  /\ DOMAIN change = 1 .. Len(change) /\ Len(change) \in Nat
         /\ DOMAIN change \subseteq Changes
         /\ \A c \in DOMAIN change :
              change[c] \in [action : {"create", "reschedule", "delete"}, todo : {"mail", "tag", "nothing"}]
<1>1. DOMAIN change = 1 .. Len(change) /\ Len(change) \in Nat
  BY LenProperties DEF Base, TypeOK
<1>2. \A c \in DOMAIN change :
         change[c] \in [action : {"create", "reschedule", "delete"}, todo : {"mail", "tag", "nothing"}]
  BY <1>1, ElementOfSeq DEF Base, TypeOK
<1> QED
  BY <1>1, <1>2 DEF Base, Begun, Changes, CalendarBounds

LEMMA ChangedBase ==
  ASSUME CalendarBounds, Base, NEW action \in {"create", "reschedule", "delete"}, Changed(action),
         action = "create" <=> change = <<>>,
         booking'.status = IF action = "delete" THEN Cancelled ELSE "accepted",
         booking'.time = booking.time \/ booking'.time = Len(change) + 1,
         booking' \in [status : {"accepted", Cancelled}, time : Changes]
  PROVE  Base'
<1> DEFINE n == Len(line) + 1
<1>0. 0 \in 0 .. MaxChanges /\ line \in Seq(Row)
  BY DEF CalendarBounds, Base, TypeOK
<1>1. line' = Append(line, NewRow(action, 0)) /\ booking.status = "accepted"
  BY DEF Changed
<1>2. /\ line' \in Seq(Row) /\ Len(line') = n /\ line' # <<>>
      /\ DOMAIN line' = Rows \cup {n} /\ n \notin Rows
      /\ \A i \in Rows : line'[i] = line[i] /\ i < n
      /\ line'[n] = NewRow(action, 0)
      /\ AnyPending' /\ (AnyPending => Mine' = Mine)
  BY <1>0, <1>1, AppendOutcome
<1>3. /\ Rows = 1 .. Len(line) /\ Len(line) \in Nat /\ (line = <<>> <=> Len(line) = 0)
  BY <1>0, LineDomain
<1>4. NewRow(action, 0).status = "pending" /\ NewRow(action, 0).action = action
  BY DEF NewRow
<1>5. Rows' = Rows \cup {n}
  BY <1>2 DEF Rows
<1> DEFINE ch == [action |-> action, todo |-> "mail"]
<1>6. /\ change' = Append(change, ch)
      /\ ch \in [action : {"create", "reschedule", "delete"}, todo : {"mail", "tag", "nothing"}]
  BY DEF Changed
<1>7. /\ DOMAIN change = 1 .. Len(change) /\ Len(change) \in Nat /\ Len(change) < MaxChanges
      /\ change \in Seq([action : {"create", "reschedule", "delete"}, todo : {"mail", "tag", "nothing"}])
  BY ChangeDomain DEF Changed, Base, TypeOK
<1>8. /\ change' \in Seq([action : {"create", "reschedule", "delete"}, todo : {"mail", "tag", "nothing"}])
      /\ Len(change') = Len(change) + 1
      /\ \A c \in 1 .. Len(change) : change'[c] = change[c]
      /\ change'[Len(change) + 1] = ch
  <2> HIDE DEF ch
  <2> QED
    BY <1>6, <1>7
<1>9. DOMAIN change' = 1 .. Len(change') /\ change' # <<>>
  BY <1>7, <1>8, LenProperties, EmptySeq
<1>10. InTurn'
  <2>1. \A i, j \in Rows : i < j /\ line[i].status = "pending" => line[j].status = "pending"
    BY DEF Base, InTurn
  <2> QED
    BY <1>2, <1>3, <1>4, <1>5, <2>1 DEF InTurn
<1>11. FirstCreates'
  <2>1. n = 1 <=> action = "create"
    BY <1>3 DEF Base, Begun
  <2>2. \A i \in Rows : line[i].action = "create" <=> i = 1
    BY DEF Base, FirstCreates
  <2>3. \A i \in Rows' : i # n => line'[i] = line[i] /\ i \in Rows
    BY <1>2, <1>5
  <2>4. line'[n].action = action
    BY <1>2, <1>4
  <2> HIDE DEF n
  <2> QED
    BY <2>1, <2>2, <2>3, <2>4 DEF FirstCreates
<1>12. DeleteLast'
  <2>1. \A i \in Rows : line[i].action # "delete"
    BY <1>1 DEF Base, DeleteLast, Cancelled
  <2>2. \A i \in Rows' : i # n => line'[i] = line[i] /\ i \in Rows
    BY <1>2, <1>5
  <2>3. line'[n].action = action /\ Len(line') = n
    BY <1>2, <1>4
  <2>4. booking'.status = Cancelled <=> action = "delete"
    BY DEF Cancelled
  <2> HIDE DEF n
  <2> QED
    BY <2>1, <2>2, <2>3, <2>4 DEF DeleteLast
<1>13. Begun'
  <2>1. \A c \in DOMAIN change : change[c].action # "delete"
    BY <1>1 DEF Base, Begun, Cancelled
  <2>2. \A c \in DOMAIN change' : change'[c].action = "delete" => booking'.status = Cancelled
    BY <1>7, <1>8, <1>9, <2>1 DEF Cancelled
  <2> QED
    BY <1>2, <1>7, <1>8, <1>9, <2>2 DEF Begun, CalendarBounds
<1>14. job' = job
  BY DEF Changed
<1>15. TypeOK'
  BY <1>2, <1>8 DEF TypeOK, Base, Changed
<1>16. JobHasRow' /\ PcFits' /\ AtDest'
  <2>1. job.pc # "idle" => AnyPending
    BY DEF Base, JobHasRow
  <2>2. CASE job.pc = "idle"
    BY <1>14, <2>2 DEF JobHasRow, PcFits, AtDest, FitsJob, ReinvitePcs
  <2>3. CASE job.pc # "idle"
    BY <1>2, <1>14, <2>1, <2>3 DEF JobHasRow, PcFits, AtDest, Base
  <2> QED
    BY <2>2, <2>3
<1>17. ReinvitesOwe'
  <2>1. line'[n].action # "reinvite"
    BY <1>2, <1>4
  <2>2. \A i \in Rows : line'[i] = line[i]
    BY <1>2
  <2> HIDE DEF n
  <2> QED
    BY <1>5, <2>1, <2>2 DEF Base, ReinvitesOwe, HasRow
<1> QED
  BY <1>10, <1>11, <1>12, <1>13, <1>15, <1>16, <1>17 DEF Base

LEMMA ChangesBase ==
  ASSUME CalendarBounds, Base, Accept \/ Move \/ Cancel
  PROVE  Base'
<1>1. booking \in [status : {"accepted", Cancelled}, time : Changes]
  BY DEF Base, TypeOK
<1>2. CASE Accept
  BY <1>1, <1>2, ChangedBase DEF Accept, Changed
<1>3. CASE Move
  <2>1. Len(change) + 1 \in Changes
    BY <1>3, ChangeDomain DEF Move, Changed, Changes, CalendarBounds
  <2>2. booking' = [booking EXCEPT !.time = Len(change) + 1] /\ booking.status = "accepted"
    BY <1>3 DEF Move, Changed
  <2>3. /\ booking'.status = "accepted" /\ booking'.time = Len(change) + 1
        /\ booking' \in [status : {"accepted", Cancelled}, time : Changes]
    BY <1>1, <2>1, <2>2
  <2> QED
    BY <1>3, <2>3, ChangedBase DEF Move
<1>4. CASE Cancel
  <2>1. booking' = [booking EXCEPT !.status = Cancelled]
    BY <1>4 DEF Cancel
  <2>2. /\ booking'.status = Cancelled /\ booking'.time = booking.time
        /\ booking' \in [status : {"accepted", Cancelled}, time : Changes]
    BY <1>1, <2>1
  <2> QED
    BY <1>4, <2>2, ChangedBase DEF Cancel
<1> QED
  BY <1>2, <1>3, <1>4

(* The steps of a request and of a mail. *)

(* What a change has still to do is no matter of the rows. *)
LEMMA TodoBase ==
  ASSUME CalendarBounds, Base, NEW c \in DOMAIN change, NEW t \in {"mail", "tag", "nothing"},
         change' = [change EXCEPT ![c].todo = t], UNCHANGED booking
  PROVE  /\ change' \in Seq([action : {"create", "reschedule", "delete"},
                             todo : {"mail", "tag", "nothing"}])
         /\ DOMAIN change' = DOMAIN change /\ Len(change') = Len(change)
         /\ \A b \in DOMAIN change : change'[b].action = change[b].action
         /\ change'[c].todo = t /\ \A b \in DOMAIN change : b # c => change'[b] = change[b]
         /\ Steady => Begun'
<1> DEFINE ch == [change[c] EXCEPT !.todo = t]
<1> DEFINE C == [action : {"create", "reschedule", "delete"}, todo : {"mail", "tag", "nothing"}]
<1>1. change[c] \in C /\ DOMAIN change = 1 .. Len(change) /\ change \in Seq(C)
  BY ChangeDomain DEF Base, TypeOK
<1>2. ch \in C /\ ch.action = change[c].action /\ ch.todo = t
  BY <1>1
<1>3. change' = [change EXCEPT ![c] = ch]
  OBVIOUS
<1> HIDE DEF ch, C
<1>4. /\ change' \in Seq(C) /\ Len(change') = Len(change)
      /\ \A j \in 1 .. Len(change) : change'[j] = IF j = c THEN ch ELSE change[j]
  BY <1>1, <1>2, <1>3, ExceptSeq
<1>5. DOMAIN change' = 1 .. Len(change')
  BY <1>4, LenProperties
<1>6. change' = <<>> <=> change = <<>>
  BY <1>1, <1>4, EmptySeq
<1>7. Steady => (line' = <<>> <=> line = <<>>)
  BY EmptySeq DEF Steady, Base, TypeOK
<1>8. Steady => Begun'
  <2>1. \A b \in DOMAIN change : change[b].action = "delete" => booking.status = Cancelled
    BY DEF Base, Begun
  <2> QED
    BY <1>1, <1>2, <1>4, <1>5, <1>6, <1>7, <2>1 DEF Base, Begun
<1> QED
  BY <1>1, <1>2, <1>4, <1>5, <1>8 DEF C

LEMMA QueueMailBase ==
  ASSUME CalendarBounds, Base, NEW c \in DOMAIN change, QueueMail(c)
  PROVE  Base'
<1>1. line \in Seq(Row) /\ c \in Changes /\ mail \in [Changes -> Mail]
  BY ChangeDomain DEF Base, TypeOK
<1>2. Unsent(c) \in [Changes -> Mail]
  <2>1. \A b \in Changes : [mail[b] EXCEPT !.status = "gone"] \in Mail
    BY <1>1 DEF Mail
  <2> QED
    BY <1>1, <2>1 DEF Unsent
<1>3. mail' \in [Changes -> Mail]
  <2>1. Says \in Content
    BY DEF Says, Content, Base, TypeOK
  <2>2. [NoMail EXCEPT !.status = "queued", !.says = Says] \in Mail
    BY <2>1 DEF NoMail, Mail
  <2> QED
    BY <1>1, <1>2, <2>2 DEF QueueMail
<1>4. \E t \in {"mail", "tag", "nothing"} : change' = [change EXCEPT ![c].todo = t]
  BY DEF QueueMail, Todo
<1>5. UNCHANGED <<booking, line, job, ref, event, told, torn, faults>>
  BY DEF QueueMail
<1>6. PICK t \in {"mail", "tag", "nothing"} : change' = [change EXCEPT ![c].todo = t]
  BY <1>4
<1>7. Steady /\ SameStatus /\ SameMail
  BY <1>1, <1>5, SameLine
<1>8. /\ change' \in Seq([action : {"create", "reschedule", "delete"},
                           todo : {"mail", "tag", "nothing"}])
      /\ Begun'
  BY <1>5, <1>6, <1>7, TodoBase
<1>9. TypeOK' /\ AtDest'
  BY <1>3, <1>5, <1>8 DEF TypeOK, Base, AtDest
<1> QED
  BY <1>5, <1>7, <1>8, <1>9, BaseKept DEF Base, JobHasRow, PcFits

(* What marking a change's row does. *)
LEMMA TagSteps ==
  ASSUME CalendarBounds, Base, NEW c \in DOMAIN change, Tag(c)
  PROVE  /\ Steady /\ SameMuted /\ SameLooks /\ SameRedo /\ SameStatus /\ Begun'
         /\ c \in Changes /\ change[c].todo = "tag" /\ change'[c].todo = "nothing"
         /\ DOMAIN change' = DOMAIN change
         /\ \A b \in DOMAIN change : change'[b].action = change[b].action
         /\ \A b \in DOMAIN change : b # c => change'[b] = change[b]
         /\ \/ line' = line
            \/ \E i \in Rows :
                 /\ line[i].action = change[c].action /\ line[i].status = "pending" /\ line[i].mail = 0
                 /\ job.pc = "idle" \/ i # h
                 /\ line'[i].mail = c /\ (line'[i].late <=> mail[c].pc = "ended")
                 /\ \A j \in Rows : j # i => line'[j] = line[j]
         /\ change' \in Seq([action : {"create", "reschedule", "delete"},
                             todo : {"mail", "tag", "nothing"}])
         /\ UNCHANGED <<booking, mail, job, ref, event, told, torn, faults>>
<1> DEFINE rows == {i \in DOMAIN line : Taggable(i, c)}
<1>1. line \in Seq(Row) /\ c \in Changes
  BY ChangeDomain DEF Base, TypeOK
<1>2. /\ change[c].todo = "tag" /\ change' = [change EXCEPT ![c].todo = "nothing"]
      /\ UNCHANGED <<booking, mail, job, ref, event, told, torn, faults>>
  BY DEF Tag, Todo
<1>3. /\ change' \in Seq([action : {"create", "reschedule", "delete"},
                          todo : {"mail", "tag", "nothing"}])
      /\ DOMAIN change' = DOMAIN change /\ (Steady => Begun')
      /\ \A b \in DOMAIN change : change'[b].action = change[b].action
      /\ change'[c].todo = "nothing" /\ \A b \in DOMAIN change : b # c => change'[b] = change[b]
  BY <1>2, TodoBase
<1>4. CASE line' = line
  BY <1>1, <1>2, <1>3, <1>4, SameLine
<1>5. CASE line' # line
  <2>1. PICK i : /\ i = CHOOSE k \in rows : \A j \in rows : j <= k
                 /\ rows # {} /\ line' = [line EXCEPT ![i].mail = c, ![i].late = mail[c].pc = "ended"]
    BY <1>5 DEF Tag
  <2>2. rows \in SUBSET Rows /\ Rows = 1 .. Len(line) /\ Len(line) \in Nat
    BY <1>1, LineDomain DEF Rows
  <2>3. \E k \in rows : \A j \in rows : j <= k
    <3> HIDE DEF rows
    <3> DEFINE Below == {n \in Nat : \A j \in rows : j <= n}
    <3>1. Len(line) \in Below
      BY <2>2
    <3>2. PICK n \in Below : \A m \in Below : n <= m
      <4>1. Below \in SUBSET Nat /\ Below # {}
        BY <3>1
      <4> HIDE DEF Below
      <4> QED
        BY <4>1, LeastNumber
    <3>3. n \in rows
      <4>1. PICK j \in rows : TRUE
        BY <2>1
      <4>2. j \in Nat /\ j # 0 /\ j <= n /\ n \in Nat
        BY <3>2, <2>2
      <4>3. SUFFICES ASSUME n \notin rows
                     PROVE  FALSE
        OBVIOUS
      <4>4. n - 1 \in Nat
        BY <4>2
      <4>5. \A k \in rows : k <= n - 1
        BY <4>3, <3>2, <2>2, <4>2
      <4>6. n - 1 \in Below
        BY <4>4, <4>5
      <4> QED
        BY <4>6, <3>2, <4>2
    <3> QED
      BY <3>2, <3>3
  <2>4. i \in rows
    <3> HIDE DEF rows
    <3> QED
      BY <2>1, <2>3
  <2>5. /\ i \in Rows /\ line[i].action = change[c].action /\ line[i].status = "pending"
        /\ line[i].mail = 0 /\ (job.pc = "idle" \/ i # h)
    BY <2>4 DEF Taggable, Pending, Rows, h
  <2> DEFINE late == mail[c].pc = "ended"
  <2>6. late \in BOOLEAN /\ line' = [line EXCEPT ![i].mail = c, ![i].late = late]
    BY <2>1
  <2> HIDE DEF late
  <2>7. /\ Steady /\ SameMuted /\ SameLooks /\ SameRedo /\ SameStatus
        /\ line'[i].mail = c /\ line'[i].late = late
        /\ \A j \in Rows : j # i => line'[j] = line[j]
    BY <1>1, <2>5, <2>6, TagOutcome
  <2>8. line'[i].late <=> mail[c].pc = "ended"
    <3>1. line'[i].late <=> late
      BY <2>7, Zenon
    <3> QED
      BY <3>1, Zenon DEF late
  <2> QED
    BY <1>1, <1>2, <1>3, <2>5, <2>7, <2>8
<1> QED
  BY <1>4, <1>5

LEMMA TagBase ==
  ASSUME CalendarBounds, Base, NEW c \in DOMAIN change, Tag(c)
  PROVE  Base'
<1>1. /\ Steady /\ SameStatus /\ Begun' /\ c \in Changes
      /\ \/ line' = line
         \/ \E i \in Rows : line[i].mail = 0 /\ line'[i].mail = c /\ line[i].action = change[c].action
                             /\ \A j \in Rows : j # i => line'[j] = line[j]
      /\ change' \in Seq([action : {"create", "reschedule", "delete"},
                          todo : {"mail", "tag", "nothing"}])
      /\ UNCHANGED <<booking, mail, job, ref, event, told, torn, faults>>
  BY TagSteps
<1>2. TypeOK' /\ AtDest'
  BY <1>1 DEF TypeOK, Base, AtDest, Steady
<1>3. ReinvitesOwe'
  <2>1. CASE line' = line
    BY <1>1, <2>1 DEF Base, ReinvitesOwe, HasRow, Rows
  <2>2. ASSUME NEW i \in Rows, line[i].mail = 0, line'[i].mail = c, c \in Changes,
               line[i].action = change[c].action, \A j \in Rows : j # i => line'[j] = line[j]
        PROVE  ReinvitesOwe'
    <3>1. line[i].action # "reinvite" /\ 0 \notin Changes
      BY <2>2, ChangeDomain DEF Changes, CalendarBounds
    <3>2. ASSUME NEW k \in Rows, line'[k].action = "reinvite"
          PROVE  line'[k].mail \in Changes /\ HasRow(k)'
      <4>1. line[k].action = "reinvite" /\ k # i /\ line'[k] = line[k]
        BY <1>1, <2>2, <3>1, <3>2 DEF Steady
      <4>2. line[k].mail \in Changes
        BY <4>1 DEF Base, ReinvitesOwe
      <4>3. PICK o \in Rows : o < k /\ line[o].mail = line[k].mail /\ line[o].action # "reinvite"
        BY <4>1 DEF Base, ReinvitesOwe, HasRow
      <4>4. o # i
        BY <2>2, <3>1, <4>2, <4>3
      <4>5. line'[o] = line[o] /\ o \in Rows'
        BY <1>1, <2>2, <4>4 DEF Steady, Rows
      <4> QED
        BY <4>1, <4>2, <4>3, <4>5 DEF HasRow
    <3> QED
      BY <1>1, <3>2 DEF ReinvitesOwe, Steady, Rows
  <2> QED
    BY <1>1, <2>1, <2>2
<1> QED
  BY <1>1, <1>2, <1>3, BaseKept DEF Base, JobHasRow, PcFits

(* A mail's step that touches no row. *)
LEMMA MailOnlyBase ==
  ASSUME CalendarBounds, Base, mail' \in [Changes -> Mail],
         told' \subseteq [by : {"mail", "provider"}, on : 0 .. MaxChanges, says : Content],
         UNCHANGED <<booking, change, line, job, ref, event, torn, faults>>
  PROVE  Base'
<1>1. Steady /\ SameStatus /\ SameMail
  BY SameLine DEF Base, TypeOK
<1>2. TypeOK' /\ AtDest'
  BY DEF TypeOK, Base, AtDest
<1> QED
  BY <1>1, <1>2, BaseKept DEF Base, JobHasRow, PcFits

LEMMA MailRecord ==
  ASSUME NEW m \in Mail, NEW pc \in {"idle", "sending", "ending", "ended"},
         NEW s \in {"none", "queued", "done", "ended", "gone"}
  PROVE  /\ [m EXCEPT !.pc = pc] \in Mail /\ [m EXCEPT !.pc = pc, !.status = s] \in Mail
         /\ [m EXCEPT !.status = s] \in Mail
BY DEF Mail

LEMMA MailTypes ==
  ASSUME mail \in [Changes -> Mail], NEW c \in Changes,
         NEW pc \in {"idle", "sending", "ending", "ended"}, NEW s \in {"done", "ended"}
  PROVE  /\ [mail EXCEPT ![c].pc = pc] \in [Changes -> Mail]
         /\ [mail EXCEPT ![c].pc = pc, ![c].status = Recorded(c, s)] \in [Changes -> Mail]
         /\ [mail EXCEPT ![c].status = "ended"] \in [Changes -> Mail]
<1>1. mail[c] \in Mail /\ mail[c].status \in {"none", "queued", "done", "ended", "gone"}
  BY DEF Mail
<1>2. Recorded(c, s) \in {"none", "queued", "done", "ended", "gone"}
  BY <1>1 DEF Recorded
<1>3. /\ [mail[c] EXCEPT !.pc = pc] \in Mail /\ [mail[c] EXCEPT !.status = "ended"] \in Mail
      /\ [mail[c] EXCEPT !.pc = pc, !.status = Recorded(c, s)] \in Mail
  BY <1>1, <1>2, MailRecord
<1>4. [mail EXCEPT ![c] = [mail[c] EXCEPT !.pc = pc, !.status = Recorded(c, s)]] \in [Changes -> Mail]
  BY <1>3
<1>5. /\ [mail EXCEPT ![c] = [mail[c] EXCEPT !.pc = pc]] \in [Changes -> Mail]
      /\ [mail EXCEPT ![c] = [mail[c] EXCEPT !.status = "ended"]] \in [Changes -> Mail]
  BY <1>3
<1> QED
  BY <1>4, <1>5

LEMMA HearType ==
  ASSUME told \subseteq [by : {"mail", "provider"}, on : 0 .. MaxChanges, says : Content],
         NEW channel \in {"mail", "provider"}, NEW c \in 0 .. MaxChanges, NEW says \in Content,
         Hear(channel, c, says)
  PROVE  told' \subseteq [by : {"mail", "provider"}, on : 0 .. MaxChanges, says : Content]
BY DEF Hear

LEMMA SendMailBase ==
  ASSUME CalendarBounds, Base, NEW c \in DOMAIN change, SendMail(c)
  PROVE  Base'
<1>1. c \in Changes /\ mail \in [Changes -> Mail]
  BY ChangeDomain DEF Base, TypeOK
<1>2. \E pc \in {"ending", "sending"} : mail' = [mail EXCEPT ![c].pc = pc]
  BY DEF SendMail
<1>3. mail' \in [Changes -> Mail]
  <2>1. PICK pc \in {"ending", "sending"} : mail' = [mail EXCEPT ![c].pc = pc]
    BY <1>2
  <2> QED
    BY <1>1, <2>1, MailTypes
<1>4. told' \subseteq [by : {"mail", "provider"}, on : 0 .. MaxChanges, says : Content]
  BY DEF SendMail, Base, TypeOK
<1> QED
  BY <1>3, <1>4, MailOnlyBase DEF SendMail

LEMMA MailAnswerBase ==
  ASSUME CalendarBounds, Base, NEW c \in DOMAIN change, MailAnswer(c)
  PROVE  Base'
<1>1. c \in Changes /\ c \in 0 .. MaxChanges /\ mail \in [Changes -> Mail] /\ mail[c].says \in Content
  BY ChangeDomain DEF Base, TypeOK, Changes, Mail
<1>2. mail' \in [Changes -> Mail]
  <2>1. \/ mail' = [mail EXCEPT ![c].pc = "idle", ![c].status = Recorded(c, "done")]
        \/ mail' = [mail EXCEPT ![c].pc = "ending"]
        \/ mail' = [mail EXCEPT ![c].pc = "idle"]
    BY DEF MailAnswer
  <2>2. CASE mail' = [mail EXCEPT ![c].pc = "idle", ![c].status = Recorded(c, "done")]
    BY <1>1, <2>2, MailTypes
  <2>3. CASE mail' = [mail EXCEPT ![c].pc = "ending"]
    BY <1>1, <2>3, MailTypes
  <2>4. CASE mail' = [mail EXCEPT ![c].pc = "idle"]
    BY <1>1, <2>4, MailTypes
  <2> QED
    BY <2>1, <2>2, <2>3, <2>4
<1>3. told' \subseteq [by : {"mail", "provider"}, on : 0 .. MaxChanges, says : Content]
  BY <1>1, HearType DEF MailAnswer, Base, TypeOK
<1> QED
  BY <1>2, <1>3, MailOnlyBase DEF MailAnswer

LEMMA MailEndsBase ==
  ASSUME CalendarBounds, Base, NEW c \in DOMAIN change, MailEnds(c)
  PROVE  Base'
<1>1. c \in Changes /\ mail \in [Changes -> Mail]
  BY ChangeDomain DEF Base, TypeOK
<1>2. mail' \in [Changes -> Mail]
  BY <1>1, MailTypes DEF MailEnds
<1>3. told' \subseteq [by : {"mail", "provider"}, on : 0 .. MaxChanges, says : Content]
  BY DEF MailEnds, Base, TypeOK
<1> QED
  BY <1>2, <1>3, MailOnlyBase DEF MailEnds

(* What a mail's end does: the guest is owed a reinvite, or not. *)
LEMMA GaveUpSteps ==
  ASSUME CalendarBounds, Base, NEW c \in DOMAIN change, AfterGaveUp(c)
  PROVE  /\ c \in Changes /\ c \in 0 .. MaxChanges
         /\ mail[c].pc = "ending" /\ mail' = [mail EXCEPT ![c].pc = "ended"]
         /\ UNCHANGED <<booking, change, job, ref, event, told, torn, faults>>
         /\ \/ line' = line /\ ~ (change[c].action # "delete" /\ OwesReinvite(c))
            \/ /\ line' = Append(line, NewRow("reinvite", c)) /\ OwesReinvite(c)
               /\ booking.status = "accepted" /\ line # <<>>
               /\ \E i \in MarkedBy(c) : line[i].action # "delete"
               /\ ReinviteFor(c) = {}
<1>1. c \in Changes /\ c \in 0 .. MaxChanges
  BY ChangeDomain DEF Changes
<1>2. OwesReinvite(c) => line # <<>>
  BY DEF OwesReinvite, MarkedBy
<1> QED
  BY <1>1, <1>2 DEF AfterGaveUp, OwesReinvite

LEMMA AfterGaveUpBase ==
  ASSUME CalendarBounds, Base, NEW c \in DOMAIN change, AfterGaveUp(c)
  PROVE  Base'
<1>1. /\ c \in Changes /\ c \in 0 .. MaxChanges /\ mail' = [mail EXCEPT ![c].pc = "ended"]
      /\ UNCHANGED <<booking, change, job, ref, event, told, torn, faults>>
      /\ \/ line' = line
         \/ /\ line' = Append(line, NewRow("reinvite", c))
            /\ booking.status = "accepted" /\ line # <<>>
  BY GaveUpSteps
<1>2. mail' \in [Changes -> Mail]
  BY <1>1, MailTypes DEF Base, TypeOK
<1>3. CASE line' = line
  BY <1>1, <1>2, <1>3, MailOnlyBase DEF Base, TypeOK
<1>4. ASSUME line' = Append(line, NewRow("reinvite", c)), booking.status = "accepted", line # <<>>
      PROVE  Base'
  <2> DEFINE n == Len(line) + 1
  <2>0. line \in Seq(Row)
    BY DEF Base, TypeOK
  <2>1. /\ line' \in Seq(Row) /\ Len(line') = n /\ line' # <<>>
        /\ DOMAIN line' = Rows \cup {n} /\ n \notin Rows
        /\ \A i \in Rows : line'[i] = line[i] /\ i < n
        /\ line'[n] = NewRow("reinvite", c)
        /\ AnyPending' /\ (AnyPending => Mine' = Mine)
    BY <1>1, <1>4, <2>0, AppendOutcome
  <2>2. /\ Rows = 1 .. Len(line) /\ Len(line) \in Nat /\ Len(line) # 0
    BY <2>0, <1>4, LineDomain
  <2>3. line'[n].status = "pending" /\ line'[n].action = "reinvite"
    BY <2>1 DEF NewRow
  <2>4. Rows' = Rows \cup {n}
    BY <2>1 DEF Rows
  <2>5. InTurn'
    <3>1. \A i, j \in Rows : i < j /\ line[i].status = "pending" => line[j].status = "pending"
      BY DEF Base, InTurn
    <3> QED
      BY <2>1, <2>2, <2>3, <2>4, <3>1 DEF InTurn
  <2>6. FirstCreates'
    <3>1. \A i \in Rows : line[i].action = "create" <=> i = 1
      BY DEF Base, FirstCreates
    <3>2. n # 1
      BY <2>2
    <3> QED
      BY <2>1, <2>3, <2>4, <3>1, <3>2 DEF FirstCreates
  <2>7. DeleteLast'
    <3>1. \A i \in Rows : line[i].action # "delete"
      BY <1>4 DEF Base, DeleteLast, Cancelled
    <3> QED
      BY <1>1, <1>4, <2>1, <2>3, <2>4, <3>1 DEF DeleteLast, Cancelled
  <2>8. Begun'
    BY <1>1, <1>4, <2>1 DEF Base, Begun
  <2>9. TypeOK'
    BY <1>1, <1>2, <2>1 DEF Base, TypeOK
  <2>10. JobHasRow' /\ PcFits' /\ AtDest'
    <3>1. job.pc # "idle" => AnyPending
      BY DEF Base, JobHasRow
    <3>2. CASE job.pc = "idle"
      BY <1>1, <3>2 DEF JobHasRow, PcFits, AtDest, FitsJob, ReinvitePcs
    <3>3. CASE job.pc # "idle"
      BY <1>1, <2>1, <3>1, <3>3 DEF JobHasRow, PcFits, AtDest, Base
    <3> QED
      BY <3>2, <3>3
  <2>11. ReinvitesOwe'
    <3>1. \A i \in Rows : line'[i] = line[i] /\ i < n
      BY <2>1
    <3>2. PICK o \in MarkedBy(c) : TRUE
      BY <1>4, GaveUpSteps
    <3>3. o \in Rows /\ o < n /\ line'[o] = line[o] /\ line[o].mail = c /\ line[o].action # "reinvite"
      BY <3>1, <3>2 DEF MarkedBy, Rows
    <3>4. PICK k : k = n
      OBVIOUS
    <3>5. line'[k].mail = c /\ Rows' = Rows \cup {k}
      BY <2>1, <2>4, <3>4 DEF NewRow
    <3>6. HasRow(k)'
      BY <3>3, <3>4, <3>5 DEF HasRow
    <3> HIDE DEF n
    <3> QED
      BY <1>1, <3>1, <3>5, <3>6 DEF Base, ReinvitesOwe, HasRow
  <2> QED
    BY <2>5, <2>6, <2>7, <2>8, <2>9, <2>10, <2>11 DEF Base
<1> QED
  BY <1>1, <1>3, <1>4

(* The steps of the job. *)

LEMMA MineFacts ==
  ASSUME CalendarBounds, Base, job.pc # "idle"
  PROVE  /\ AnyPending /\ line \in Seq(Row) /\ h \in Rows /\ Mine = line[h] /\ Mine \in Row
         /\ Mine.status = "pending" /\ job \in Job
         /\ Mine.mail \in 0 .. MaxChanges /\ Mine.looks \in 0 .. MaxLooks
         /\ Mine.action \in {"create", "reschedule", "delete", "reinvite"}
<1>1. AnyPending /\ line \in Seq(Row) /\ job \in Job
  BY DEF Base, JobHasRow, TypeOK
<1>2. h \in Rows /\ Mine = line[h] /\ Mine \in Row /\ Mine.status = "pending"
  BY <1>1, HeadFacts
<1> QED
  BY <1>1, <1>2 DEF Row

LEMMA NoJobType ==
  ASSUME CalendarBounds
  PROVE  NoJob \in Job /\ NoJob.pc = "idle" /\ ~ NoJob.invite /\ NoJob.time = 1
BY OrganizerIn DEF NoJob, Job, Changes, CalendarBounds

JobPcs == {"idle", "decide", "mark", "claim", "create", "fill", "move", "remove",
           "reinvite", "takeoff", "takenoff", "putback", "reinvited"}

LEMMA JobRecord ==
  ASSUME NEW j \in Job, NEW pc \in JobPcs
  PROVE  /\ [j EXCEPT !.pc = pc] \in Job /\ [j EXCEPT !.pc = pc].pc = pc
         /\ [j EXCEPT !.pc = pc].left = j.left /\ [j EXCEPT !.pc = pc].time = j.time
         /\ [j EXCEPT !.pc = pc].inviting = j.inviting /\ [j EXCEPT !.pc = pc].invite = j.invite
BY DEF Job, JobPcs

LEMMA DecidedRecord ==
  ASSUME job \in Job, NEW pc \in JobPcs, NEW invite \in BOOLEAN, Decided(invite, pc)
  PROVE  /\ job' \in Job /\ job'.pc = pc /\ job'.left = job.left /\ job'.time = job.time
         /\ job'.inviting = job.inviting /\ job'.invite = invite
BY DEF Job, JobPcs, Decided

LEMMA RestRecord ==
  ASSUME job \in Job
  PROVE  /\ Rest \in Job /\ Rest.left = job.left \ {d1} /\ Rest.time = job.time
         /\ Rest.inviting = job.inviting /\ Rest.invite = job.invite
         /\ Rest.pc = IF job.pc = "fill" THEN "claim" ELSE job.pc
BY DEF Rest, Job

(* A step of the job that keeps its row, and one that ends its attempt. *)
LEMMA JobGoesOn ==
  ASSUME CalendarBounds, Base, AnyPending, Steady, SameStatus, SameMail,
         UNCHANGED <<booking, change>>, TypeOK', FitsJob(job'.pc, Mine.action), AtDest'
  PROVE  Base'
BY BaseKept DEF Base, JobHasRow

LEMMA JobEnds ==
  ASSUME CalendarBounds, Base, AnyPending, Steady, SameMail, UNCHANGED <<booking, change>>, TypeOK',
         job' = NoJob, NEW s \in {"pending", "done", "failed", "skipped"}, HeadBecomes(s)
  PROVE  Base'
<1>1. AtDest'
  BY NoJobType DEF AtDest
<1> QED
  BY <1>1, BaseKept

(* What a failed attempt does. *)
LEMMA FailSteps ==
  ASSUME CalendarBounds, Base, job.pc # "idle", FailRow(Mine)
  PROVE  /\ Steady /\ SameMail /\ SameMuted /\ SameRedo /\ SameLooks
         /\ HeadBecomes("pending") \/ HeadBecomes("failed")
         /\ line' \in Seq(Row) /\ job' = NoJob /\ job' \in Job
<1>1. AnyPending /\ line \in Seq(Row) /\ Mine \in Row /\ Mine = line[h] /\ h \in Rows
  BY MineFacts
<1>2. /\ Steady /\ SameMail /\ SameMuted /\ SameRedo
      /\ HeadBecomes("pending") \/ HeadBecomes("failed")
      /\ \A i \in Rows : i # h => line'[i].looks = line[i].looks
      /\ line'[h].looks = Mine.looks
      /\ job' = NoJob
  BY <1>1, FailOutcome
<1>3. SameLooks
  BY <1>1, <1>2 DEF SameLooks
<1> QED
  BY <1>2, <1>3, NoJobType DEF Steady

(* A failed attempt that changed nothing the types say more of. *)
LEMMA FailBase ==
  ASSUME CalendarBounds, Base, job.pc # "idle", FailRow(Mine),
         ref' \in [Destinations -> {"free", "claimed", "filled"}],
         event' \in [Destinations -> [n : Nat, time : Changes, guest : BOOLEAN]],
         told' \subseteq [by : {"mail", "provider"}, on : 0 .. MaxChanges, says : Content],
         torn' \in {"nothing", "claim", "event"}, faults' \in 0 .. MaxFaults,
         UNCHANGED <<booking, change, mail>>
  PROVE  Base'
<1>1. /\ Steady /\ SameMail /\ (HeadBecomes("pending") \/ HeadBecomes("failed"))
      /\ line' \in Seq(Row) /\ job' = NoJob /\ job' \in Job /\ AnyPending
  BY FailSteps, MineFacts
<1>2. TypeOK'
  BY <1>1 DEF TypeOK, Base
<1>3. Steady /\ SameMail
  BY FailSteps
<1> QED
  BY <1>1, <1>2, <1>3, JobEnds

LEMMA WorkIn == ASSUME CalendarBounds PROVE Work \in SUBSET Destinations
BY DEF Work, Filled

LEMMA BeginBase ==
  ASSUME CalendarBounds, Base, Begin
  PROVE  Base'
<1>1. AnyPending /\ line \in Seq(Row)
  BY DEF Begin, Base, TypeOK
<1>2. h \in Rows /\ Mine = line[h] /\ Mine \in Row
  BY <1>1, HeadFacts
<1>3. CASE TooLate
  <2>1. EndRow("skipped")
    BY <1>3 DEF Begin
  <2>2. /\ Steady /\ SameMail /\ HeadBecomes("skipped") /\ job' = NoJob
    BY <1>1, <2>1, EndOutcome
  <2>3. TypeOK'
    BY <2>2, NoJobType DEF Steady, TypeOK, Base, Begin
  <2> QED
    BY <1>1, <2>2, <2>3, JobEnds DEF Begin
<1>4. CASE ~ TooLate
  <2>1. /\ line' = line
        /\ job' = [pc |-> IF Mine.action = "reinvite" THEN "reinvite" ELSE "decide",
                   time |-> booking.time, invite |-> FALSE, left |-> Work,
                   inviting |-> Inviting(Work)]
    BY <1>4 DEF Begin
  <2>2. Work \in SUBSET Destinations /\ Inviting(Work) \in Destinations
    BY WorkIn, InvitingIn
  <2>3. booking.time \in Changes
    BY DEF Base, TypeOK
  <2>4. job' \in Job
    BY <2>1, <2>2, <2>3 DEF Job
  <2>5. FitsJob(job'.pc, Mine.action) /\ AtDest'
    BY <2>1 DEF FitsJob, AtDest, ReinvitePcs
  <2>6. Steady /\ SameMail /\ SameStatus
    BY <1>1, <2>1, SameLine
  <2>7. TypeOK'
    BY <2>1, <2>4 DEF TypeOK, Base, Begin
  <2> QED
    BY <1>1, <2>5, <2>6, <2>7, JobGoesOn DEF Begin
<1> QED
  BY <1>3, <1>4

LEMMA ActFits ==
  ASSUME CalendarBounds, Mine \in Row, Mine.action # "reinvite"
  PROVE  Act \in {"remove", "move", "claim"} /\ FitsJob(Act, Mine.action)
BY DEF Act, FitsJob, ReinvitePcs, Row

LEMMA DecideBase ==
  ASSUME CalendarBounds, Base, Decide
  PROVE  Base'
<1>1. /\ AnyPending /\ line \in Seq(Row) /\ Mine \in Row /\ job \in Job /\ Mine.action # "reinvite"
  BY MineFacts DEF Decide, Base, PcFits, FitsJob
<1>2. line' = line /\ UNCHANGED <<booking, change, mail, ref, event, told, torn, faults>>
  BY DEF Decide
<1>3. PICK invite \in BOOLEAN, pc \in {Act, "mark"} : Decided(invite, pc)
  BY DEF Decide
<1>4. Act \in {"remove", "move", "claim"} /\ FitsJob(Act, Mine.action) /\ FitsJob("mark", Mine.action)
  BY <1>1, ActFits DEF FitsJob, ReinvitePcs
<1>5. job' \in Job /\ job'.pc = pc
  BY <1>1, <1>3, <1>4, DecidedRecord DEF JobPcs
<1>6. Steady /\ SameMail /\ SameStatus
  BY <1>1, <1>2, SameLine
<1>7. TypeOK' /\ AtDest'
  BY <1>2, <1>3, <1>4, <1>5 DEF TypeOK, AtDest, Base
<1> QED
  BY <1>1, <1>2, <1>3, <1>4, <1>5, <1>6, <1>7, JobGoesOn

(* A removal that waits once more: the look is counted. *)
LEMMA LookSteps ==
  ASSUME CalendarBounds, Base, job.pc # "idle", StillWaits,
         FailRow([Mine EXCEPT !.looks = @ + 1])
  PROVE  /\ Steady /\ SameMail /\ SameMuted /\ SameRedo
         /\ HeadBecomes("pending") \/ HeadBecomes("failed")
         /\ \A i \in Rows : i # h => line'[i].looks = line[i].looks
         /\ line' \in Seq(Row) /\ job' = NoJob /\ job' \in Job
         /\ Mine.looks < MaxLooks
<1> DEFINE looked == [Mine EXCEPT !.looks = @ + 1]
<1>1. AnyPending /\ line \in Seq(Row) /\ Mine \in Row /\ Mine.looks \in 0 .. MaxLooks
  BY MineFacts
<1>2. Mine.looks + 1 \in 0 .. MaxLooks /\ Mine.looks < MaxLooks
  BY <1>1 DEF StillWaits, CalendarBounds
<1>3. looked \in Row /\ FailRow(looked)
  BY <1>1, <1>2 DEF Row
<1>4. /\ Steady /\ SameMail /\ SameMuted /\ SameRedo
      /\ HeadBecomes("pending") \/ HeadBecomes("failed")
      /\ \A i \in Rows : i # h => line'[i].looks = line[i].looks
      /\ job' = NoJob
  <2>1. looked = Mine \/ looked = [Mine EXCEPT !.looks = @ + 1]
    OBVIOUS
  <2> HIDE DEF looked
  <2> QED
    BY <1>1, <1>3, <2>1, FailOutcome
<1> QED
  BY <1>2, <1>4, NoJobType DEF Steady

LEMMA DecideRemovalBase ==
  ASSUME CalendarBounds, Base, DecideRemoval
  PROVE  Base'
<1>1. /\ AnyPending /\ line \in Seq(Row) /\ Mine \in Row /\ job \in Job /\ Mine.action = "delete"
      /\ job.pc # "idle" /\ Mine.mail \in 0 .. MaxChanges
  BY MineFacts DEF DecideRemoval
<1>2. UNCHANGED <<booking, change, ref, event, told, torn, faults>>
  BY DEF DecideRemoval
<1>3. Act \in {"remove", "move", "claim"} /\ FitsJob(Act, Mine.action) /\ FitsJob("mark", Mine.action)
  BY <1>1, ActFits DEF FitsJob, ReinvitePcs
<1>4. ASSUME NEW invite \in BOOLEAN, NEW pc \in {Act, "mark"}, Decided(invite, pc), line' = line,
             mail' \in [Changes -> Mail]
      PROVE  Base'
  <2>1. job' \in Job /\ job'.pc = pc
    BY <1>1, <1>3, <1>4, DecidedRecord DEF JobPcs
  <2>2. Steady /\ SameMail /\ SameStatus
    BY <1>1, <1>4, SameLine
  <2>3. TypeOK' /\ AtDest'
    BY <1>2, <1>3, <1>4, <2>1 DEF TypeOK, AtDest, Base
  <2> QED
    BY <1>1, <1>2, <1>3, <1>4, <2>1, <2>2, <2>3, JobGoesOn
<1>5. ASSUME StillWaits, FailRow([Mine EXCEPT !.looks = @ + 1]), mail' = mail
      PROVE  Base'
  <2>1. /\ Steady /\ SameMail /\ (HeadBecomes("pending") \/ HeadBecomes("failed"))
        /\ line' \in Seq(Row) /\ job' = NoJob /\ job' \in Job
    BY <1>1, <1>5, LookSteps
  <2>2. TypeOK'
    BY <1>2, <1>5, <2>1 DEF TypeOK, Base
  <2>3. Steady /\ SameMail
    BY <1>1, <1>5, LookSteps
  <2> QED
    BY <1>1, <1>2, <2>1, <2>2, <2>3, JobEnds
<1>6. mail \in [Changes -> Mail]
  BY DEF Base, TypeOK
<1>7. MailStatus = "queued" => [mail EXCEPT ![Mine.mail].status = "ended"] \in [Changes -> Mail]
  <2>1. MailStatus = "queued" => Mine.mail \in Changes
    BY <1>1 DEF MailStatus, Changes
  <2> QED
    BY <1>6, <2>1, MailTypes
<1> QED
  BY <1>4, <1>5, <1>6, <1>7 DEF DecideRemoval

LEMMA MarkBase ==
  ASSUME CalendarBounds, Base, Mark
  PROVE  Base'
<1>1. /\ AnyPending /\ line \in Seq(Row) /\ Mine \in Row /\ job \in Job /\ Mine.action # "reinvite"
  BY MineFacts DEF Mark, Base, PcFits, FitsJob
<1>2. /\ line' = MarkMuted /\ job' = [job EXCEPT !.pc = Act]
      /\ UNCHANGED <<booking, change, mail, ref, event, told, torn, faults>>
  BY DEF Mark
<1>3. Act \in {"remove", "move", "claim"} /\ FitsJob(Act, Mine.action)
  BY <1>1, ActFits
<1>4. job' \in Job /\ job'.pc = Act
  <2>1. Act \in JobPcs /\ job \in Job
    BY <1>1, <1>3 DEF JobPcs
  <2> QED
    BY <1>2, <2>1, JobRecord, Zenon
<1>5. Steady /\ SameMail /\ SameStatus
  BY <1>1, <1>2, MuteOutcome
<1>6. TypeOK' /\ AtDest'
  BY <1>2, <1>3, <1>4, <1>5 DEF TypeOK, AtDest, Base, Steady
<1> QED
  BY <1>1, <1>2, <1>3, <1>4, <1>5, <1>6, JobGoesOn

LEMMA NextDest ==
  ASSUME CalendarBounds, Base, job.left # {}
  PROVE  d1 \in job.left /\ d1 \in Destinations
<1>1. job.left \in SUBSET Destinations
  BY DEF Base, TypeOK, Job
<1> QED
  BY <1>1, FirstIn DEF d1

(* The job goes on to its next destination. *)
LEMMA RestSteps ==
  ASSUME CalendarBounds, Base, job.pc \in {"claim", "fill", "move", "remove"}, job' = Rest
  PROVE  /\ job' \in Job /\ FitsJob(job'.pc, Mine.action) /\ AtDest'
         /\ job'.left = job.left \ {d1} /\ job'.time = job.time /\ job'.inviting = job.inviting
         /\ job'.invite = job.invite
         /\ job'.pc = IF job.pc = "fill" THEN "claim" ELSE job.pc
<1>1. job \in Job
  BY DEF Base, TypeOK
<1>2. /\ job' \in Job /\ job'.left = job.left \ {d1} /\ job'.time = job.time
      /\ job'.inviting = job.inviting
      /\ job'.invite = job.invite /\ job'.pc = IF job.pc = "fill" THEN "claim" ELSE job.pc
  BY <1>1, RestRecord
<1>3. FitsJob(job'.pc, Mine.action)
  BY <1>2 DEF Base, PcFits, FitsJob, ReinvitePcs
<1>4. AtDest'
  BY <1>2 DEF AtDest
<1> QED
  BY <1>2, <1>3, <1>4

LEMMA HeardType ==
  ASSUME CalendarBounds, Base, job.pc # "idle", NEW news, Notify(news)
  PROVE  told' \subseteq [by : {"mail", "provider"}, on : 0 .. MaxChanges, says : Content]
<1>1. Mine.mail \in 0 .. MaxChanges /\ job.time \in Changes
  BY MineFacts DEF Job
<1>2. NoMeeting \in Content /\ job.time \in Content
  BY <1>1 DEF Content
<1>3. CASE told' = told
  BY <1>3 DEF Base, TypeOK
<1>4. CASE Hear("provider", Mine.mail, IF Mine.action = "delete" THEN NoMeeting ELSE job.time)
  BY <1>1, <1>2, <1>4, HearType DEF Base, TypeOK
<1> QED
  BY <1>3, <1>4 DEF Notify

LEMMA ClaimBase ==
  ASSUME CalendarBounds, Base, Claim
  PROVE  Base'
<1>1. /\ AnyPending /\ line \in Seq(Row) /\ job \in Job /\ job.pc = "claim" /\ job.left # {}
      /\ line' = line /\ UNCHANGED <<booking, change, mail, event, told, torn, faults>>
  BY MineFacts DEF Claim
<1>2. Steady /\ SameMail /\ SameStatus
  BY <1>1, SameLine
<1>3. CASE MayClaim(d1)
  <2>1. ref' = [ref EXCEPT ![d1] = "claimed"] /\ job' = [job EXCEPT !.pc = "create"]
    BY <1>3 DEF Claim
  <2>2. job' \in Job /\ job'.pc = "create" /\ job'.left = job.left
    BY <1>1, <2>1, JobRecord DEF JobPcs
  <2>3. FitsJob(job'.pc, Mine.action) /\ AtDest'
    BY <1>1, <2>2 DEF Base, PcFits, FitsJob, AtDest, ReinvitePcs
  <2>4. TypeOK'
    BY <1>1, <2>1, <2>2 DEF TypeOK, Base
  <2> QED
    BY <1>1, <1>2, <2>3, <2>4, JobGoesOn
<1>4. CASE ~ MayClaim(d1)
  <2>1. ref' = ref /\ job' = Rest
    BY <1>4 DEF Claim
  <2>2. job' \in Job /\ FitsJob(job'.pc, Mine.action) /\ AtDest'
    BY <1>1, <2>1, RestSteps
  <2>3. TypeOK'
    BY <1>1, <2>1, <2>2 DEF TypeOK, Base
  <2> QED
    BY <1>1, <1>2, <2>2, <2>3, JobGoesOn
<1> QED
  BY <1>3, <1>4

(* What a created event is; and that it may be told of. *)
LEMMA CreatedSteps ==
  ASSUME CalendarBounds, Base, job.pc = "create", Created
  PROVE  /\ d1 \in Destinations /\ event'[d1] = [n |-> event[d1].n + 1, time |-> job.time, guest |-> TRUE]
         /\ \A d \in Destinations : d # d1 => event'[d] = event[d]
         /\ event' \in [Destinations -> [n : Nat, time : Changes, guest : BOOLEAN]]
         /\ told' \subseteq [by : {"mail", "provider"}, on : 0 .. MaxChanges, says : Content]
<1>1. d1 \in Destinations
  BY NextDest DEF Base, AtDest
<1>2. job.time \in Changes
  BY DEF Base, TypeOK, Job
<1>3. event \in [Destinations -> [n : Nat, time : Changes, guest : BOOLEAN]]
  BY DEF Base, TypeOK
<1>4. event' = [event EXCEPT ![d1] = [n |-> event[d1].n + 1, time |-> job.time, guest |-> TRUE]]
  BY DEF Created
<1>5. Notify(TRUE)
  BY DEF Created
<1>6. told' \subseteq [by : {"mail", "provider"}, on : 0 .. MaxChanges, says : Content]
  BY <1>5, HeardType
<1>7. event[d1].n + 1 \in Nat
  BY <1>1, <1>3
<1> QED
  BY <1>1, <1>2, <1>3, <1>4, <1>6, <1>7

LEMMA CreateEventBase ==
  ASSUME CalendarBounds, Base, CreateEvent
  PROVE  Base'
<1>1. /\ AnyPending /\ line \in Seq(Row) /\ job \in Job /\ job.pc = "create" /\ job.left # {}
      /\ UNCHANGED <<booking, change, mail>>
  BY MineFacts DEF CreateEvent, Base, AtDest
<1>2. /\ ref \in [Destinations -> {"free", "claimed", "filled"}]
      /\ event \in [Destinations -> [n : Nat, time : Changes, guest : BOOLEAN]]
      /\ told \subseteq [by : {"mail", "provider"}, on : 0 .. MaxChanges, says : Content]
      /\ torn \in {"nothing", "claim", "event"} /\ faults \in 0 .. MaxFaults
  BY DEF Base, TypeOK
<1>3. ASSUME Created, job' = [job EXCEPT !.pc = "fill"], UNCHANGED <<line, ref, torn, faults>>
      PROVE  Base'
  <2>1. job' \in Job /\ job'.pc = "fill" /\ job'.left = job.left
    BY <1>1, <1>3, JobRecord DEF JobPcs
  <2>2. Steady /\ SameMail /\ SameStatus
    BY <1>1, <1>3, SameLine
  <2>3. FitsJob(job'.pc, Mine.action) /\ AtDest'
    BY <1>1, <2>1 DEF Base, PcFits, FitsJob, AtDest, ReinvitePcs
  <2>4. TypeOK'
    BY <1>1, <1>3, <2>1, CreatedSteps DEF TypeOK, Base
  <2> QED
    BY <1>1, <1>3, <2>2, <2>3, <2>4, JobGoesOn
<1>4. ASSUME Release
      PROVE  ref' \in [Destinations -> {"free", "claimed", "filled"}] /\ FailRow(Mine)
  BY <1>2, <1>4 DEF Release
<1>5. ASSUME Release, UNCHANGED <<event, told, torn, faults>>
      PROVE  Base'
  <2>1. ref' \in [Destinations -> {"free", "claimed", "filled"}] /\ FailRow(Mine)
    BY <1>4, <1>5
  <2> QED
    BY <1>1, <1>2, <1>5, <2>1, FailBase
<1>6. ASSUME Fault("lost"), Created, Release, torn' = "event"
      PROVE  Base'
  <2>1. ref' \in [Destinations -> {"free", "claimed", "filled"}] /\ FailRow(Mine)
    BY <1>4, <1>6
  <2>2. /\ event' \in [Destinations -> [n : Nat, time : Changes, guest : BOOLEAN]]
        /\ told' \subseteq [by : {"mail", "provider"}, on : 0 .. MaxChanges, says : Content]
    BY <1>1, <1>6, CreatedSteps
  <2>3. faults' \in 0 .. MaxFaults
    BY <1>2, <1>6 DEF Fault, CalendarBounds
  <2> QED
    BY <1>1, <1>6, <2>1, <2>2, <2>3, FailBase
<1> QED
  BY <1>3, <1>5, <1>6 DEF CreateEvent

LEMMA FillBase ==
  ASSUME CalendarBounds, Base, Fill
  PROVE  Base'
<1>1. /\ AnyPending /\ line \in Seq(Row) /\ job \in Job /\ job.pc = "fill"
      /\ line' = line /\ UNCHANGED <<booking, change, mail, event, told, torn, faults>>
      /\ ref' = [ref EXCEPT ![d1] = "filled"] /\ job' = Rest
  BY MineFacts DEF Fill
<1>2. Steady /\ SameMail /\ SameStatus
  BY <1>1, SameLine
<1>3. job' \in Job /\ FitsJob(job'.pc, Mine.action) /\ AtDest'
  BY <1>1, RestSteps
<1>4. TypeOK'
  BY <1>1, <1>3 DEF TypeOK, Base
<1> QED
  BY <1>1, <1>2, <1>3, <1>4, JobGoesOn

(* What a change of one event leaves. *)
EventType == [n : Nat, time : Changes, guest : BOOLEAN]

LEMMA UpdateSteps ==
  ASSUME CalendarBounds, Base, job.pc \in {"move", "putback"}, job.left # {},
         event' = [event EXCEPT ![d1].time = job.time, ![d1].guest = TRUE]
  PROVE  /\ d1 \in Destinations /\ event' \in [Destinations -> EventType]
         /\ event'[d1].n = event[d1].n /\ event'[d1].time = job.time /\ event'[d1].guest
         /\ \A d \in Destinations : d # d1 => event'[d] = event[d]
<1>1. d1 \in Destinations
  BY NextDest
<1>2. job.time \in Changes
  BY DEF Base, TypeOK, Job
<1>3. event \in [Destinations -> EventType] /\ event[d1] \in EventType
  BY <1>1 DEF Base, TypeOK, EventType
<1> DEFINE e == [event[d1] EXCEPT !.time = job.time, !.guest = TRUE]
<1>4. e \in EventType /\ e.n = event[d1].n /\ e.time = job.time
  BY <1>2, <1>3 DEF EventType
<1>5. e.guest
  BY <1>3 DEF EventType
<1>6. event' = [event EXCEPT ![d1] = e]
  OBVIOUS
<1> HIDE DEF e
<1> QED
  BY <1>1, <1>3, <1>4, <1>5, <1>6

LEMMA UpdateEventBase ==
  ASSUME CalendarBounds, Base, UpdateEvent
  PROVE  Base'
<1>1. /\ AnyPending /\ line \in Seq(Row) /\ job \in Job /\ job.pc = "move" /\ job.left # {}
      /\ UNCHANGED <<booking, change, mail, ref, torn, faults>>
  BY MineFacts DEF UpdateEvent
<1>2. ASSUME event' = [event EXCEPT ![d1].time = job.time, ![d1].guest = TRUE],
             Notify(event[d1].n > 0 /\ (event[d1].time # job.time \/ ~ event[d1].guest)),
             job' = Rest, line' = line
      PROVE  Base'
  <2>1. Steady /\ SameMail /\ SameStatus
    BY <1>1, <1>2, SameLine
  <2>2. job' \in Job /\ FitsJob(job'.pc, Mine.action) /\ AtDest'
    BY <1>1, <1>2, RestSteps
  <2>3. event' \in [Destinations -> EventType]
    BY <1>1, <1>2, UpdateSteps
  <2>4. told' \subseteq [by : {"mail", "provider"}, on : 0 .. MaxChanges, says : Content]
    BY <1>1, <1>2, HeardType
  <2>5. TypeOK'
    BY <1>1, <1>2, <2>2, <2>3, <2>4 DEF TypeOK, Base, EventType
  <2> QED
    BY <1>1, <1>2, <2>1, <2>2, <2>5, JobGoesOn
<1>3. ASSUME FailRow(Mine), UNCHANGED <<event, told>>
      PROVE  Base'
  BY <1>1, <1>3, FailBase DEF Base, TypeOK
<1> QED
  BY <1>2, <1>3 DEF UpdateEvent

LEMMA DeleteSteps ==
  ASSUME CalendarBounds, Base, job.left # {},
         event' = [event EXCEPT ![d1].n = IF @ = 0 THEN 0 ELSE @ - 1]
  PROVE  /\ d1 \in Destinations /\ event' \in [Destinations -> EventType]
         /\ event'[d1].n = (IF event[d1].n = 0 THEN 0 ELSE event[d1].n - 1)
         /\ event'[d1].time = event[d1].time /\ event'[d1].guest = event[d1].guest
         /\ \A d \in Destinations : d # d1 => event'[d] = event[d]
<1>1. d1 \in Destinations
  BY NextDest
<1>2. event \in [Destinations -> EventType] /\ event[d1] \in EventType
  BY <1>1 DEF Base, TypeOK, EventType
<1> DEFINE k == IF event[d1].n = 0 THEN 0 ELSE event[d1].n - 1
<1> DEFINE e == [event[d1] EXCEPT !.n = k]
<1>3. k \in Nat
  BY <1>2 DEF EventType
<1>4. event' = [event EXCEPT ![d1] = e]
  OBVIOUS
<1>5. k = IF event[d1].n = 0 THEN 0 ELSE event[d1].n - 1
  OBVIOUS
<1> HIDE DEF k
<1>6. e \in EventType /\ e.n = k /\ e.time = event[d1].time /\ e.guest = event[d1].guest
  BY <1>2, <1>3 DEF EventType
<1> HIDE DEF e
<1> QED
  BY <1>1, <1>2, <1>4, <1>5, <1>6

LEMMA DeleteEventBase ==
  ASSUME CalendarBounds, Base, DeleteEvent
  PROVE  Base'
<1>1. /\ AnyPending /\ line \in Seq(Row) /\ job \in Job /\ job.pc = "remove" /\ job.left # {}
      /\ UNCHANGED <<booking, change, mail, ref, torn, faults>>
  BY MineFacts DEF DeleteEvent
<1>2. ASSUME event' = [event EXCEPT ![d1].n = IF @ = 0 THEN 0 ELSE @ - 1],
             Notify(event[d1].n > 0), job' = Rest, line' = line
      PROVE  Base'
  <2>1. Steady /\ SameMail /\ SameStatus
    BY <1>1, <1>2, SameLine
  <2>2. job' \in Job /\ FitsJob(job'.pc, Mine.action) /\ AtDest'
    BY <1>1, <1>2, RestSteps
  <2>3. event' \in [Destinations -> EventType]
    BY <1>1, <1>2, DeleteSteps
  <2>4. told' \subseteq [by : {"mail", "provider"}, on : 0 .. MaxChanges, says : Content]
    BY <1>1, <1>2, HeardType
  <2>5. TypeOK'
    BY <1>1, <1>2, <2>2, <2>3, <2>4 DEF TypeOK, Base, EventType
  <2> QED
    BY <1>1, <1>2, <2>1, <2>2, <2>5, JobGoesOn
<1>3. ASSUME FailRow(Mine), UNCHANGED <<event, told>>
      PROVE  Base'
  BY <1>1, <1>3, FailBase DEF Base, TypeOK
<1> QED
  BY <1>2, <1>3 DEF DeleteEvent

LEMMA FinishBase ==
  ASSUME CalendarBounds, Base, EndJob
  PROVE  Base'
<1>1. /\ AnyPending /\ line \in Seq(Row) /\ job \in Job
      /\ UNCHANGED <<booking, change, mail, event, told, torn, faults>> /\ EndRow("done")
  BY MineFacts DEF EndJob
<1>2. ref' \in [Destinations -> {"free", "claimed", "filled"}]
  BY DEF EndJob, Base, TypeOK
<1>3. Steady /\ SameMail /\ HeadBecomes("done") /\ job' = NoJob
  BY <1>1, EndOutcome
<1>4. TypeOK'
  BY <1>1, <1>2, <1>3, NoJobType DEF Steady, TypeOK, Base
<1> QED
  BY <1>1, <1>3, <1>4, JobEnds

(* A reinvite's steps.  The change it is for has its row before it. *)
LEMMA OwedFacts ==
  ASSUME CalendarBounds, Base, AnyPending, Mine.action = "reinvite"
  PROVE  /\ Owed \in MarkedBy(Mine.mail) /\ Owed \in Rows /\ Owed # h
         /\ line[Owed].mail = Mine.mail /\ line[Owed].action # "reinvite"
         /\ Mine.mail \in Changes
         /\ \E o \in MarkedBy(Mine.mail) : o \in Rows /\ o < h
<1>1. h \in Rows /\ Mine = line[h]
  BY HeadFacts DEF Base, TypeOK
<1>2. Mine.mail \in Changes /\ HasRow(h)
  BY <1>1 DEF Base, ReinvitesOwe
<1>3. PICK o \in Rows : o < h /\ line[o].mail = line[h].mail /\ line[o].action # "reinvite"
  BY <1>2 DEF HasRow
<1>4. o \in MarkedBy(Mine.mail)
  BY <1>1, <1>3 DEF MarkedBy, Rows
<1>5. Owed \in MarkedBy(Mine.mail)
  BY <1>4 DEF Owed
<1>6. Owed \in Rows /\ line[Owed].mail = Mine.mail /\ line[Owed].action # "reinvite"
  BY <1>5 DEF MarkedBy, Rows
<1> QED
  BY <1>1, <1>2, <1>3, <1>4, <1>5, <1>6

LEMMA InvitingRecord ==
  ASSUME NEW j \in Job, NEW pc \in JobPcs, NEW left \in SUBSET Destinations, NEW k \in Destinations
  PROVE  LET r == [j EXCEPT !.pc = pc, !.left = left, !.inviting = k, !.invite = TRUE]
         IN  /\ r \in Job /\ r.pc = pc /\ r.left = left /\ r.inviting = k
             /\ r.time = j.time /\ r.invite
<1> DEFINE r == [j EXCEPT !.pc = pc, !.left = left, !.inviting = k, !.invite = TRUE]
<1>1. r \in Job
  BY DEF Job, JobPcs
<1>2. r.pc = pc /\ r.left = left /\ r.inviting = k /\ r.time = j.time
  BY DEF Job
<1>3. r.invite
  BY DEF Job
<1> QED
  BY <1>1, <1>2, <1>3

(* On to the organizer's event. *)
LEMMA ReinviteLooksSteps ==
  ASSUME CalendarBounds, Base, ReinviteLooks, line' = line,
         job' = [job EXCEPT !.pc = IF line[Owed].removed THEN "putback" ELSE "takeoff",
                            !.left = {Inviting(Filled)}, !.inviting = Inviting(Filled),
                            !.invite = TRUE]
  PROVE  /\ job' \in Job /\ job'.pc = (IF line[Owed].removed THEN "putback" ELSE "takeoff")
         /\ job'.left = {Inviting(Filled)} /\ job'.inviting = Inviting(Filled)
         /\ job'.invite /\ job'.time = job.time
         /\ Inviting(Filled) \in Destinations /\ (Filled # {} => Inviting(Filled) \in Filled)
         /\ Base'
<1>1. /\ AnyPending /\ line \in Seq(Row) /\ job \in Job /\ Mine.action = "reinvite"
      /\ UNCHANGED <<booking, change, mail, ref, event, told, torn, faults>>
  BY MineFacts DEF ReinviteLooks, Base, PcFits, FitsJob, ReinvitePcs
<1>2. Inviting(Filled) \in Destinations /\ (Filled # {} => Inviting(Filled) \in Filled)
  <2>1. Filled \in SUBSET Destinations
    BY DEF Filled
  <2> QED
    BY <2>1, InvitingIn
<1> DEFINE pc == IF line[Owed].removed THEN "putback" ELSE "takeoff"
<1> DEFINE k == Inviting(Filled)
<1>3. pc \in {"putback", "takeoff"} /\ k \in Destinations
  BY <1>2
<1>4. job' = [job EXCEPT !.pc = pc, !.left = {k}, !.inviting = k, !.invite = TRUE]
  OBVIOUS
<1> HIDE DEF pc, k
<1>5. {k} \in SUBSET Destinations /\ pc \in JobPcs /\ job \in Job
  BY <1>1, <1>3 DEF JobPcs
<1>6. /\ job' \in Job /\ job'.pc = pc /\ job'.left = {k} /\ job'.inviting = k
      /\ job'.time = job.time /\ job'.invite
  <2> DEFINE left == {k}
  <2> DEFINE r == [job EXCEPT !.pc = pc, !.left = left, !.inviting = k, !.invite = TRUE]
  <2>1. left \in SUBSET Destinations /\ job' = r
    BY <1>4, <1>5
  <2> HIDE DEF left
  <2>2. /\ r \in Job /\ r.pc = pc /\ r.left = left /\ r.inviting = k
        /\ r.time = job.time /\ r.invite
    BY <1>3, <1>5, <2>1, InvitingRecord, Zenon
  <2> HIDE DEF r
  <2>3. job'.invite
    BY <2>1, <2>2, Zenon
  <2> QED
    BY <2>1, <2>2, <2>3 DEF left
<1>7. Steady /\ SameMail /\ SameStatus
  BY <1>1, SameLine
<1>8. FitsJob(job'.pc, Mine.action) /\ AtDest'
  BY <1>1, <1>3, <1>6 DEF FitsJob, AtDest, ReinvitePcs
<1>9. TypeOK'
  BY <1>1, <1>6 DEF TypeOK, Base
<1>10. Base'
  BY <1>1, <1>7, <1>8, <1>9, JobGoesOn
<1> QED
  BY <1>2, <1>6, <1>10 DEF pc, k

LEMMA ReinviteLooksBase ==
  ASSUME CalendarBounds, Base, ReinviteLooks
  PROVE  Base'
<1>1. /\ AnyPending /\ line \in Seq(Row) /\ job.pc # "idle"
      /\ UNCHANGED <<booking, change, mail, ref, event, told, torn, faults>>
  BY MineFacts DEF ReinviteLooks
<1>2. CASE EndRow("done")
  <2>1. Steady /\ SameMail /\ HeadBecomes("done") /\ job' = NoJob
    BY <1>1, <1>2, EndOutcome
  <2>2. TypeOK'
    BY <1>1, <2>1, NoJobType DEF Steady, TypeOK, Base
  <2> QED
    BY <1>1, <2>1, <2>2, JobEnds
<1>3. CASE FailRow(Mine)
  BY <1>1, <1>3, FailBase DEF Base, TypeOK
<1> QED
  BY <1>2, <1>3, ReinviteLooksSteps DEF ReinviteLooks

LEMMA TakeOffSteps ==
  ASSUME CalendarBounds, Base, job.pc = "takeoff",
         event' = [event EXCEPT ![d1].guest = FALSE, ![d1].time = job.time]
  PROVE  /\ d1 \in Destinations /\ event' \in [Destinations -> EventType]
         /\ event'[d1].n = event[d1].n /\ event'[d1].time = job.time /\ ~ event'[d1].guest
         /\ \A d \in Destinations : d # d1 => event'[d] = event[d]
<1>1. d1 \in Destinations
  BY NextDest DEF Base, AtDest
<1>2. job.time \in Changes
  BY DEF Base, TypeOK, Job
<1>3. event \in [Destinations -> EventType] /\ event[d1] \in EventType
  BY <1>1 DEF Base, TypeOK, EventType
<1> DEFINE e == [event[d1] EXCEPT !.guest = FALSE, !.time = job.time]
<1>4. e \in EventType /\ e.n = event[d1].n /\ e.time = job.time
  BY <1>2, <1>3 DEF EventType
<1>5. ~ e.guest
  BY <1>3 DEF EventType
<1>6. event' = [event EXCEPT ![d1] = e]
  OBVIOUS
<1> HIDE DEF e
<1> QED
  BY <1>1, <1>3, <1>4, <1>5, <1>6

LEMMA TakeOffBase ==
  ASSUME CalendarBounds, Base, TakeOff
  PROVE  Base'
<1>1. /\ AnyPending /\ line \in Seq(Row) /\ job \in Job /\ job.pc = "takeoff"
      /\ Mine.action = "reinvite" /\ UNCHANGED <<booking, change, mail, ref, told, torn, faults>>
  BY MineFacts DEF TakeOff, Base, PcFits, FitsJob, ReinvitePcs
<1>2. ASSUME event' = [event EXCEPT ![d1].guest = FALSE, ![d1].time = job.time],
             job' = [job EXCEPT !.pc = "takenoff"], line' = line
      PROVE  Base'
  <2>1. Steady /\ SameMail /\ SameStatus
    BY <1>1, <1>2, SameLine
  <2>2. job' \in Job /\ job'.pc = "takenoff" /\ job'.left = job.left
    BY <1>1, <1>2, JobRecord DEF JobPcs
  <2>3. event' \in [Destinations -> EventType]
    BY <1>1, <1>2, TakeOffSteps
  <2>4. FitsJob(job'.pc, Mine.action) /\ AtDest'
    BY <1>1, <2>2 DEF Base, FitsJob, AtDest, ReinvitePcs
  <2>5. TypeOK'
    BY <1>1, <1>2, <2>2, <2>3 DEF TypeOK, Base, EventType
  <2> QED
    BY <1>1, <1>2, <2>1, <2>4, <2>5, JobGoesOn
<1>3. ASSUME FailRow(Mine), UNCHANGED event
      PROVE  Base'
  BY <1>1, <1>3, FailBase DEF Base, TypeOK
<1> QED
  BY <1>2, <1>3 DEF TakeOff

LEMMA TakenOffBase ==
  ASSUME CalendarBounds, Base, TakenOff
  PROVE  Base'
<1>1. /\ AnyPending /\ line \in Seq(Row) /\ job \in Job /\ job.pc = "takenoff"
      /\ Mine.action = "reinvite" /\ UNCHANGED <<booking, change, mail, ref, event, told, torn, faults>>
      /\ line' = [line EXCEPT ![Owed].removed = TRUE] /\ job' = [job EXCEPT !.pc = "putback"]
  BY MineFacts DEF TakenOff, Base, PcFits, FitsJob, ReinvitePcs
<1>2. Owed \in Rows
  BY <1>1, OwedFacts
<1>3. Steady /\ SameMail /\ SameStatus
  BY <1>1, <1>2, RemovedOutcome
<1>4. job' \in Job /\ job'.pc = "putback" /\ job'.left = job.left
  BY <1>1, JobRecord DEF JobPcs
<1>5. FitsJob(job'.pc, Mine.action) /\ AtDest'
  BY <1>1, <1>4 DEF Base, FitsJob, AtDest, ReinvitePcs
<1>6. TypeOK'
  BY <1>1, <1>3, <1>4 DEF TypeOK, Base, Steady
<1> QED
  BY <1>1, <1>3, <1>5, <1>6, JobGoesOn

LEMMA PutBackBase ==
  ASSUME CalendarBounds, Base, PutBack
  PROVE  Base'
<1>1. /\ AnyPending /\ line \in Seq(Row) /\ job \in Job /\ job.pc = "putback" /\ job.left # {}
      /\ Mine.action = "reinvite" /\ UNCHANGED <<booking, change, mail, ref, torn, faults>>
  BY MineFacts DEF PutBack, Base, PcFits, FitsJob, ReinvitePcs, AtDest
<1>2. ASSUME event' = [event EXCEPT ![d1].guest = TRUE, ![d1].time = job.time],
             Notify(event[d1].n > 0 /\ (event[d1].time # job.time \/ ~ event[d1].guest)),
             job' = [job EXCEPT !.pc = "reinvited"], line' = line
      PROVE  Base'
  <2>1. Steady /\ SameMail /\ SameStatus
    BY <1>1, <1>2, SameLine
  <2>2. job' \in Job /\ job'.pc = "reinvited" /\ job'.left = job.left
    BY <1>1, <1>2, JobRecord DEF JobPcs
  <2>3. event' \in [Destinations -> EventType]
    <3>1. event' = [event EXCEPT ![d1].time = job.time, ![d1].guest = TRUE]
      BY <1>2
    <3> QED
      BY <1>1, <3>1, UpdateSteps
  <2>4. FitsJob(job'.pc, Mine.action) /\ AtDest'
    BY <1>1, <2>2 DEF Base, FitsJob, AtDest, ReinvitePcs
  <2>5. told' \subseteq [by : {"mail", "provider"}, on : 0 .. MaxChanges, says : Content]
    BY <1>1, <1>2, HeardType
  <2>6. TypeOK'
    BY <1>1, <1>2, <2>2, <2>3, <2>5 DEF TypeOK, Base, EventType
  <2> QED
    BY <1>1, <1>2, <2>1, <2>4, <2>6, JobGoesOn
<1>3. ASSUME FailRow(Mine), UNCHANGED <<event, told>>
      PROVE  Base'
  BY <1>1, <1>3, FailBase DEF Base, TypeOK
<1> QED
  BY <1>2, <1>3 DEF PutBack

LEMMA ReinvitedSteps ==
  ASSUME CalendarBounds, Base, Reinvited
  PROVE  /\ Steady /\ SameMail /\ SameMuted /\ SameLooks /\ HeadBecomes("done")
         /\ Owed \in Rows /\ Owed # h /\ line[Owed].mail = Mine.mail
         /\ line[Owed].action # "reinvite"
         /\ \A j \in Rows : line'[j].removed = line[j].removed
         /\ line'[Owed].reinvited
         /\ \A j \in Rows : j # Owed => line'[j].reinvited = line[j].reinvited
         /\ job' = NoJob /\ AnyPending /\ Mine.action = "reinvite"
         /\ UNCHANGED <<booking, change, mail, ref, event, told, torn, faults>>
<1>1. /\ AnyPending /\ line \in Seq(Row) /\ Mine.action = "reinvite" /\ job' = NoJob
      /\ UNCHANGED <<booking, change, mail, ref, event, told, torn, faults>>
  BY MineFacts DEF Reinvited, Base, PcFits, FitsJob, ReinvitePcs
<1>2. Owed \in Rows /\ Owed # h /\ line[Owed].mail = Mine.mail /\ line[Owed].action # "reinvite"
  BY <1>1, OwedFacts
<1>3. PICK o \in Rows : o = Owed
  BY <1>2
<1>4. line' = [line EXCEPT ![o].reinvited = TRUE, ![h].status = "done"] /\ o # h
  BY <1>2, <1>3 DEF Reinvited
<1>5. /\ Steady /\ SameMail /\ SameMuted /\ SameLooks /\ HeadBecomes("done")
      /\ \A j \in Rows : line'[j].removed = line[j].removed
      /\ line'[o].reinvited /\ \A j \in Rows : j # o => line'[j].reinvited = line[j].reinvited
  BY <1>1, <1>4, ReinvitedOutcome
<1> QED
  BY <1>1, <1>2, <1>3, <1>5

LEMMA ReinvitedBase ==
  ASSUME CalendarBounds, Base, Reinvited
  PROVE  Base'
<1>1. /\ Steady /\ SameMail /\ HeadBecomes("done") /\ job' = NoJob /\ AnyPending
      /\ UNCHANGED <<booking, change, mail, ref, event, told, torn, faults>>
  BY ReinvitedSteps
<1>2. TypeOK'
  BY <1>1, NoJobType DEF TypeOK, Base, Steady
<1> QED
  BY <1>1, <1>2, JobEnds

LEMMA JobDiesBase ==
  ASSUME CalendarBounds, Base, JobDies
  PROVE  Base'
<1>1. /\ line' = line /\ job' = NoJob /\ UNCHANGED <<booking, change, mail, line, ref, event, told>>
      /\ AnyPending /\ line \in Seq(Row) /\ Mine.status = "pending"
  BY MineFacts DEF JobDies
<1>2. Steady /\ SameMail /\ SameStatus
  BY <1>1, SameLine
<1>3. faults' \in 0 .. MaxFaults /\ torn' \in {"nothing", "claim", "event"}
  BY DEF JobDies, Fault, CalendarBounds, Base, TypeOK
<1>4. TypeOK' /\ AtDest'
  BY <1>1, <1>3, NoJobType DEF TypeOK, Base, AtDest
<1>5. FitsJob(job'.pc, Mine.action)
  BY <1>1, NoJobType DEF FitsJob, ReinvitePcs
<1> QED
  BY <1>1, <1>2, <1>4, <1>5, JobGoesOn

LEMMA BaseStep ==
  ASSUME CalendarBounds, Base, [Next]_vars
  PROVE  Base'
<1>1. CASE UNCHANGED vars
  BY <1>1 DEF vars, Base, TypeOK, JobHasRow, InTurn, FirstCreates, DeleteLast, Begun, PcFits, AtDest,
     ReinvitesOwe, HasRow, Rows, AnyPending, Pending, Mine, h, HeadRow
<1>2. ASSUME NEW c \in DOMAIN change, RequestStep(c) \/ MailStep(c)
      PROVE  Base'
  BY <1>2, QueueMailBase, TagBase, SendMailBase, MailAnswerBase, AfterGaveUpBase, MailEndsBase
     DEF RequestStep, MailStep
<1>3. CASE JobStep
  BY <1>3, BeginBase, DecideBase, DecideRemovalBase, MarkBase, ClaimBase, CreateEventBase, FillBase,
     UpdateEventBase, DeleteEventBase, FinishBase, ReinviteLooksBase, TakeOffBase, TakenOffBase,
     PutBackBase, ReinvitedBase DEF JobStep
<1> QED
  BY <1>1, <1>2, <1>3, ChangesBase, JobDiesBase DEF Next

(* Every variable keeps its type, the rows end in the order they were      *)
(* queued, the first row writes the events and only the last can remove    *)
(* them, and the job is at a step its row's action has.                    *)
THEOREM CalendarRowsKept == ASSUME CalendarBounds PROVE Spec => []Base
<1>1. Init => Base
  BY InitBase
<1>2. Base /\ [Next]_vars => Base'
  BY BaseStep
<1> QED
  BY <1>1, <1>2, PTL DEF Spec

THEOREM CalendarTypes == ASSUME CalendarBounds PROVE Spec => []TypeOK
<1>1. Base => TypeOK
  BY DEF Base
<1> QED
  BY <1>1, CalendarRowsKept, PTL

-----------------------------------------------------------------------------
(* What every step leaves of the rows and the mails. *)

LooksKept == \A i \in Rows : line[i].looks = MaxLooks => line'[i].looks = MaxLooks

(* A row stays what it is; one that is marked stays marked with that mail. *)
RowsKept ==
    /\ Rows \subseteq DOMAIN line'
    /\ \A i \in Rows : /\ line'[i].action = line[i].action
                       /\ line[i].mail > 0 => line'[i].mail = line[i].mail /\ line'[i].late = line[i].late
    /\ LooksKept

(* A step of the job, of the rows: it goes on with its row or ends there. *)
JobKeeps ==
    /\ Steady /\ SameMail /\ LooksKept /\ UNCHANGED <<booking, change>> /\ AnyPending
    /\ \/ SameStatus
       \/ job' = NoJob /\ \E s \in {"pending", "done", "failed", "skipped"} : HeadBecomes(s)

LEMMA FailKeeps ==
  ASSUME CalendarBounds, Base, job.pc # "idle", FailRow(Mine), UNCHANGED <<booking, change>>
  PROVE  JobKeeps /\ SameMuted /\ SameRedo /\ job' = NoJob /\ (HeadBecomes("pending") \/ HeadBecomes("failed"))
<1>1. /\ Steady /\ SameMail /\ SameMuted /\ SameRedo /\ SameLooks
      /\ HeadBecomes("pending") \/ HeadBecomes("failed")
      /\ job' = NoJob /\ AnyPending
  BY FailSteps, MineFacts
<1> QED
  BY <1>1 DEF JobKeeps, LooksKept, SameLooks

LEMMA EndKeeps ==
  ASSUME CalendarBounds, Base, AnyPending, NEW s \in {"done", "failed", "skipped"}, EndRow(s),
         UNCHANGED <<booking, change>>
  PROVE  JobKeeps /\ SameMuted /\ SameRedo /\ job' = NoJob /\ HeadBecomes(s)
<1>1. line \in Seq(Row)
  BY DEF Base, TypeOK
<1>2. /\ Steady /\ SameMail /\ SameMuted /\ SameLooks /\ SameRedo /\ HeadBecomes(s) /\ job' = NoJob
  BY <1>1, EndOutcome
<1> QED
  BY <1>2 DEF JobKeeps, LooksKept, SameLooks

LEMMA StayKeeps ==
  ASSUME CalendarBounds, Base, AnyPending, line' = line, UNCHANGED <<booking, change>>
  PROVE  JobKeeps /\ SameMuted /\ SameRedo /\ SameStatus
<1>1. line \in Seq(Row)
  BY DEF Base, TypeOK
<1>2. Steady /\ SameMail /\ SameMuted /\ SameLooks /\ SameRedo /\ SameStatus
  BY <1>1, SameLine
<1> QED
  BY <1>2 DEF JobKeeps, LooksKept, SameLooks

LEMMA LookKeeps ==
  ASSUME CalendarBounds, Base, job.pc # "idle", StillWaits, UNCHANGED <<booking, change>>,
         FailRow([Mine EXCEPT !.looks = @ + 1])
  PROVE  JobKeeps /\ SameMuted /\ SameRedo /\ job' = NoJob /\ (HeadBecomes("pending") \/ HeadBecomes("failed"))
<1>1. /\ Steady /\ SameMail /\ SameMuted /\ SameRedo
      /\ HeadBecomes("pending") \/ HeadBecomes("failed")
      /\ \A i \in Rows : i # h => line'[i].looks = line[i].looks
      /\ job' = NoJob /\ Mine.looks < MaxLooks
  BY LookSteps
<1>2. AnyPending /\ h \in Rows /\ Mine = line[h] /\ Mine.looks \in 0 .. MaxLooks
  BY MineFacts
<1>3. LooksKept
  BY <1>1, <1>2 DEF LooksKept, CalendarBounds
<1> QED
  BY <1>1, <1>2, <1>3 DEF JobKeeps

LEMMA MarkKeeps ==
  ASSUME CalendarBounds, Base, Mark
  PROVE  /\ JobKeeps /\ SameRedo /\ SameStatus
         /\ line'[h].muted /\ \A i \in Rows : i # h => line'[i].muted = line[i].muted
<1>1. AnyPending /\ line \in Seq(Row) /\ line' = MarkMuted /\ UNCHANGED <<booking, change>>
  BY MineFacts DEF Mark
<1>2. /\ Steady /\ SameMail /\ SameLooks /\ SameRedo /\ SameStatus
      /\ line'[h].muted /\ \A i \in Rows : i # h => line'[i].muted = line[i].muted
  BY <1>1, MuteOutcome
<1> QED
  BY <1>1, <1>2 DEF JobKeeps, LooksKept, SameLooks

LEMMA TakenOffKeeps ==
  ASSUME CalendarBounds, Base, TakenOff
  PROVE  /\ JobKeeps /\ SameMuted /\ SameStatus
         /\ Owed \in Rows /\ line'[Owed].removed
         /\ \A j \in Rows : line'[j].reinvited = line[j].reinvited
         /\ \A j \in Rows : j # Owed => line'[j].removed = line[j].removed
<1>1. /\ AnyPending /\ line \in Seq(Row) /\ Mine.action = "reinvite" /\ UNCHANGED <<booking, change>>
      /\ line' = [line EXCEPT ![Owed].removed = TRUE]
  BY MineFacts DEF TakenOff, Base, PcFits, FitsJob, ReinvitePcs
<1>2. Owed \in Rows
  BY <1>1, OwedFacts
<1>3. PICK o \in Rows : o = Owed
  BY <1>2
<1>4. line' = [line EXCEPT ![o].removed = TRUE]
  BY <1>1, <1>3
<1>5. /\ Steady /\ SameMail /\ SameMuted /\ SameLooks /\ SameStatus
      /\ \A j \in Rows : line'[j].reinvited = line[j].reinvited
      /\ line'[o].removed /\ \A j \in Rows : j # o => line'[j].removed = line[j].removed
  BY <1>1, <1>4, RemovedOutcome
<1> QED
  BY <1>1, <1>3, <1>5 DEF JobKeeps, LooksKept, SameLooks

LEMMA JobStepKeeps ==
  ASSUME CalendarBounds, Base, JobStep \/ JobDies
  PROVE  JobKeeps
<1>1. CASE Begin
  BY <1>1, EndKeeps, StayKeeps DEF Begin
<1>2. ASSUME job.pc # "idle", line' = line, UNCHANGED <<booking, change>>
      PROVE  JobKeeps
  BY <1>2, StayKeeps, MineFacts
<1>3. ASSUME job.pc # "idle", FailRow(Mine), UNCHANGED <<booking, change>>
      PROVE  JobKeeps
  BY <1>3, FailKeeps
<1>4. ASSUME job.pc # "idle", EndRow("done"), UNCHANGED <<booking, change>>
      PROVE  JobKeeps
  BY <1>4, EndKeeps, MineFacts
<1>5. CASE Decide \/ Claim \/ Fill \/ JobDies
  BY <1>2, <1>5 DEF Decide, Claim, Fill, JobDies
<1>6. CASE DecideRemoval
  BY <1>2, <1>6, LookKeeps DEF DecideRemoval
<1>7. CASE CreateEvent
  BY <1>2, <1>3, <1>7 DEF CreateEvent, Release
<1>8. CASE UpdateEvent \/ DeleteEvent \/ TakeOff \/ PutBack
  BY <1>2, <1>3, <1>8 DEF UpdateEvent, DeleteEvent, TakeOff, PutBack
<1>9. CASE EndJob \/ ReinviteLooks
  BY <1>2, <1>3, <1>4, <1>9 DEF EndJob, ReinviteLooks
<1>10. CASE Reinvited
  <2>1. /\ Steady /\ SameMail /\ SameLooks /\ HeadBecomes("done") /\ job' = NoJob /\ AnyPending
        /\ UNCHANGED <<booking, change>>
    BY <1>10, ReinvitedSteps
  <2> QED
    BY <2>1 DEF JobKeeps, LooksKept, SameLooks
<1> QED
  BY <1>1, <1>5, <1>6, <1>7, <1>8, <1>9, <1>10, MarkKeeps, TakenOffKeeps DEF JobStep

LEMMA AppendKeeps ==
  ASSUME CalendarBounds, Base, NEW m \in 0 .. MaxChanges,
         NEW action \in {"create", "reschedule", "delete", "reinvite"},
         line' = Append(line, NewRow(action, m))
  PROVE  /\ RowsKept /\ DOMAIN line' = Rows \cup {Len(line) + 1} /\ Len(line) + 1 \notin Rows
         /\ \A i \in Rows : line'[i] = line[i] /\ i < Len(line) + 1
         /\ line'[Len(line) + 1] = NewRow(action, m)
         /\ AnyPending => h' = h /\ Mine' = Mine
<1>1. line \in Seq(Row)
  BY DEF Base, TypeOK
<1>2. /\ DOMAIN line' = Rows \cup {Len(line) + 1} /\ Len(line) + 1 \notin Rows
      /\ \A i \in Rows : line'[i] = line[i] /\ i < Len(line) + 1
      /\ line'[Len(line) + 1] = NewRow(action, m)
      /\ AnyPending => h' = h /\ Mine' = Mine
  BY <1>1, AppendOutcome
<1> QED
  BY <1>2 DEF RowsKept, LooksKept

LEMMA ChangesKeep ==
  ASSUME CalendarBounds, Base, Accept \/ Move \/ Cancel
  PROVE  /\ RowsKept /\ DOMAIN line' = Rows \cup {Len(line) + 1} /\ Len(line) + 1 \notin Rows
         /\ \A i \in Rows : line'[i] = line[i] /\ i < Len(line) + 1
         /\ \E action \in {"create", "reschedule", "delete"} : line'[Len(line) + 1] = NewRow(action, 0)
         /\ AnyPending => h' = h /\ Mine' = Mine
         /\ DOMAIN change' = DOMAIN change \cup {Len(change) + 1} /\ Len(change) + 1 \notin DOMAIN change
         /\ \A c \in DOMAIN change : change'[c] = change[c]
         /\ change'[Len(change) + 1].todo = "mail" /\ Len(change) + 1 \in Changes
         /\ UNCHANGED <<mail, job, ref, event, told, torn, faults>>
<1>1. PICK action \in {"create", "reschedule", "delete"} : Changed(action)
  BY DEF Accept, Move, Cancel
<1>2. /\ line' = Append(line, NewRow(action, 0)) /\ 0 \in 0 .. MaxChanges
      /\ change' = Append(change, [action |-> action, todo |-> "mail"]) /\ Len(change) < MaxChanges
      /\ UNCHANGED <<mail, job, ref, event, told, torn, faults>>
  BY <1>1 DEF Changed, CalendarBounds
<1>3. /\ RowsKept /\ DOMAIN line' = Rows \cup {Len(line) + 1} /\ Len(line) + 1 \notin Rows
      /\ \A i \in Rows : line'[i] = line[i] /\ i < Len(line) + 1
      /\ line'[Len(line) + 1] = NewRow(action, 0)
      /\ AnyPending => h' = h /\ Mine' = Mine
  BY <1>2, AppendKeeps
<1> DEFINE C == [action : {"create", "reschedule", "delete"}, todo : {"mail", "tag", "nothing"}]
<1> DEFINE ch == [action |-> action, todo |-> "mail"]
<1>4. change \in Seq(C) /\ ch \in C /\ change' = Append(change, ch) /\ ch.todo = "mail"
  BY <1>2 DEF Base, TypeOK
<1>5. DOMAIN change = 1 .. Len(change) /\ Len(change) \in Nat
  BY ChangeDomain
<1> HIDE DEF C, ch
<1>6. /\ Len(change') = Len(change) + 1 /\ change' \in Seq(C)
      /\ \A c \in 1 .. Len(change) : change'[c] = change[c]
      /\ change'[Len(change) + 1] = ch
  BY <1>4
<1>7. DOMAIN change' = 1 .. Len(change) + 1
  BY <1>6, LenProperties
<1>8. Len(change) + 1 \in Changes
  BY <1>2, <1>5 DEF Changes, CalendarBounds
<1>9. DOMAIN change' = DOMAIN change \cup {Len(change) + 1} /\ Len(change) + 1 \notin DOMAIN change
  BY <1>5, <1>7
<1> QED
  BY <1>2, <1>3, <1>4, <1>5, <1>6, <1>8, <1>9

LEMMA RowsKeptStep ==
  ASSUME CalendarBounds, Base, [Next]_vars
  PROVE  RowsKept
<1>1. line \in Seq(Row)
  BY DEF Base, TypeOK
<1>2. ASSUME line' = line
      PROVE  RowsKept
  BY <1>2 DEF RowsKept, LooksKept, Rows
<1>3. ASSUME JobKeeps
      PROVE  RowsKept
  BY <1>3 DEF JobKeeps, RowsKept, Steady, SameMail, Rows
<1>4. ASSUME NEW c \in DOMAIN change, Tag(c)
      PROVE  RowsKept
  <2>1. /\ Steady /\ SameLooks
        /\ \/ line' = line
           \/ \E i \in Rows : line[i].mail = 0 /\ \A j \in Rows : j # i => line'[j] = line[j]
    BY <1>4, TagSteps
  <2> QED
    BY <1>2, <2>1 DEF RowsKept, LooksKept, Steady, SameLooks, Rows
<1>5. ASSUME NEW c \in DOMAIN change, AfterGaveUp(c)
      PROVE  RowsKept
  BY <1>2, <1>5, GaveUpSteps, AppendKeeps
<1>6. ASSUME NEW c \in DOMAIN change, QueueMail(c) \/ SendMail(c) \/ MailAnswer(c) \/ MailEnds(c)
      PROVE  RowsKept
  BY <1>2, <1>6 DEF QueueMail, SendMail, MailAnswer, MailEnds
<1> QED
  BY <1>2, <1>3, <1>4, <1>5, <1>6, JobStepKeeps, ChangesKeep DEF Next, RequestStep, MailStep, vars

-----------------------------------------------------------------------------
(* Who tells the guest. *)

Unmailed(c) == c \notin DOMAIN change \/ change[c].todo = "mail"

(* A mail is there once its change has queued it; only one that waits, or  *)
(* was dropped under way, is being sent.                                   *)
MailOnce ==
    \A c \in Changes :
        /\ Unmailed(c) => mail[c].status = "none"
        /\ c \in DOMAIN change /\ change[c].todo = "tag" => mail[c].status # "none"
        /\ mail[c].status \in {"none", "done", "ended"} => mail[c].pc = "idle"
MarksMailed == \A i \in Rows : line[i].mail > 0 => mail[line[i].mail].status # "none"

(* The provider may tell the guest: the mail will not, or is waited for no *)
(* longer.                                                                 *)
GaveWay(c) ==
    \/ mail[c].status \in {"ended", "gone"}
    \/ \E i \in MarkedBy(c) : line[i].action = "delete" /\ line[i].looks = MaxLooks

MailTold == \A t \in told : t.by = "mail" => t.on \in Changes /\ mail[t.on].status \in {"done", "gone"}
ProviderTold == \A t \in told : t.by = "provider" /\ t.on > 0 => GaveWay(t.on)
MayTell ==
    job.invite => job.pc # "idle" /\ (Mine.mail > 0 => GaveWay(Mine.mail))

Hearing == MailOnce /\ MarksMailed /\ MailTold /\ ProviderTold /\ MayTell

(* What a mail has come to, it stays. *)
MailKept ==
    \A c \in Changes :
        /\ mail[c].status \in {"done", "ended", "gone"} => mail'[c].status = mail[c].status
        /\ mail[c].status # "none" => mail'[c].status # "none"

LEMMA MarkedStay ==
  ASSUME RowsKept, NEW c \in Changes, NEW i \in MarkedBy(c)
  PROVE  /\ i \in DOMAIN line' /\ line'[i].mail = c /\ line'[i].action # "reinvite"
         /\ line'[i].action = line[i].action
         /\ line[i].looks = MaxLooks => line'[i].looks = MaxLooks
<1>1. i \in Rows /\ line[i].mail = c /\ c > 0
  BY DEF MarkedBy, Rows, Changes
<1>2. line[i].action # "reinvite"
  BY DEF MarkedBy
<1> QED
  BY <1>1, <1>2 DEF RowsKept, LooksKept

LEMMA GaveWayKept ==
  ASSUME RowsKept, MailKept, NEW c \in Changes, GaveWay(c)
  PROVE  GaveWay(c)'
<1>1. CASE mail[c].status \in {"ended", "gone"}
  BY <1>1 DEF MailKept, GaveWay
<1>2. ASSUME NEW i \in MarkedBy(c), line[i].action = "delete", line[i].looks = MaxLooks
      PROVE  GaveWay(c)'
  <2>1. /\ i \in DOMAIN line' /\ line'[i].mail = c /\ line'[i].action # "reinvite"
        /\ line'[i].action = "delete" /\ line'[i].looks = MaxLooks
    BY <1>2, MarkedStay
  <2>2. \E k \in DOMAIN line' : /\ line'[k].mail = c /\ line'[k].action # "reinvite"
                                 /\ line'[k].action = "delete" /\ line'[k].looks = MaxLooks
    BY <2>1
  <2> QED
    BY <2>2 DEF GaveWay, MarkedBy
<1> QED
  BY <1>1, <1>2 DEF GaveWay

(* What each step does to the mails. *)
LEMMA SendMailEffect ==
  ASSUME CalendarBounds, Base, NEW c \in DOMAIN change, SendMail(c)
  PROVE  /\ c \in Changes /\ mail[c].status = "queued" /\ mail[c].pc = "idle"
         /\ mail'[c].status = "queued" /\ mail'[c].pc \in {"sending", "ending"}
         /\ \A b \in Changes : b # c => mail'[b] = mail[b]
         /\ UNCHANGED <<booking, change, line, job, ref, event, told, torn, faults>>
         /\ mail'[c].pc = "ending" => booking.status = Cancelled
<1>1. c \in Changes /\ mail \in [Changes -> Mail]
  BY ChangeDomain DEF Base, TypeOK
<1>2. PICK pc \in {"sending", "ending"} :
        mail' = [mail EXCEPT ![c].pc = pc] /\ (pc = "ending" => booking.status = Cancelled)
  BY DEF SendMail
<1>3. mail'[c].status = mail[c].status /\ mail'[c].pc = pc /\ \A b \in Changes : b # c => mail'[b] = mail[b]
  BY <1>1, <1>2 DEF Mail
<1> QED
  BY <1>1, <1>2, <1>3 DEF SendMail

LEMMA MailAnswerEffect ==
  ASSUME CalendarBounds, Base, NEW c \in DOMAIN change, MailAnswer(c)
  PROVE  /\ c \in Changes /\ mail[c].pc = "sending"
         /\ \A b \in Changes : b # c => mail'[b] = mail[b]
         /\ \/ /\ mail'[c].status = (IF mail[c].status = "queued" THEN "done" ELSE mail[c].status)
               /\ mail'[c].pc = "idle"
               /\ told' = told \cup {[by |-> "mail", on |-> c, says |-> mail[c].says]}
            \/ mail'[c].status = mail[c].status /\ mail'[c].pc \in {"idle", "ending"} /\ told' = told
         /\ UNCHANGED <<booking, change, line, job, ref, event, torn, faults>>
<1>1. c \in Changes /\ mail \in [Changes -> Mail]
  BY ChangeDomain DEF Base, TypeOK
<1>2. CASE mail' = [mail EXCEPT ![c].pc = "idle", ![c].status = Recorded(c, "done")]
           /\ Hear("mail", c, mail[c].says)
  <2>1. PICK s : s = Recorded(c, "done")
    OBVIOUS
  <2>2. mail' = [mail EXCEPT ![c].pc = "idle", ![c].status = s]
    BY <1>2, <2>1
  <2>3. mail'[c].status = s /\ mail'[c].pc = "idle" /\ \A b \in Changes : b # c => mail'[b] = mail[b]
    BY <1>1, <2>2 DEF Mail
  <2> QED
    BY <1>1, <1>2, <2>1, <2>3 DEF MailAnswer, Recorded, Hear
<1>3. ASSUME NEW pc \in {"idle", "ending"}, mail' = [mail EXCEPT ![c].pc = pc], told' = told
      PROVE  /\ mail'[c].status = mail[c].status /\ mail'[c].pc = pc
             /\ \A b \in Changes : b # c => mail'[b] = mail[b]
  BY <1>1, <1>3 DEF Mail
<1> QED
  BY <1>1, <1>2, <1>3 DEF MailAnswer

LEMMA MailEndsEffect ==
  ASSUME CalendarBounds, Base, NEW c \in DOMAIN change, MailEnds(c)
  PROVE  /\ c \in Changes /\ mail[c].pc = "ended" /\ mail'[c].pc = "idle"
         /\ mail'[c].status = (IF mail[c].status = "queued" THEN "ended" ELSE mail[c].status)
         /\ \A b \in Changes : b # c => mail'[b] = mail[b]
         /\ UNCHANGED <<booking, change, line, job, ref, event, told, torn, faults>>
<1>1. c \in Changes /\ mail \in [Changes -> Mail]
  BY ChangeDomain DEF Base, TypeOK
<1>2. PICK s : s = Recorded(c, "ended")
  OBVIOUS
<1>3. mail' = [mail EXCEPT ![c].pc = "idle", ![c].status = s]
  BY <1>2 DEF MailEnds
<1>4. mail'[c].status = s /\ mail'[c].pc = "idle" /\ \A b \in Changes : b # c => mail'[b] = mail[b]
  BY <1>1, <1>3 DEF Mail
<1> QED
  BY <1>1, <1>2, <1>4 DEF MailEnds, Recorded

LEMMA GaveUpEffect ==
  ASSUME CalendarBounds, Base, NEW c \in DOMAIN change, AfterGaveUp(c)
  PROVE  /\ c \in Changes /\ mail[c].pc = "ending" /\ mail'[c].pc = "ended"
         /\ mail'[c].status = mail[c].status
         /\ \A b \in Changes : b # c => mail'[b] = mail[b]
<1>1. c \in Changes /\ mail \in [Changes -> Mail] /\ mail' = [mail EXCEPT ![c].pc = "ended"]
      /\ mail[c].pc = "ending"
  BY GaveUpSteps DEF Base, TypeOK
<1> QED
  BY <1>1 DEF Mail

(* A queued mail of a booking that is cancelled is dropped. *)
LEMMA QueueMailEffect ==
  ASSUME CalendarBounds, Base, NEW c \in DOMAIN change, QueueMail(c)
  PROVE  /\ c \in Changes /\ change[c].todo = "mail" /\ change'[c].todo \in {"tag", "nothing"}
         /\ \A b \in Changes : b # c =>
              /\ mail'[b].pc = mail[b].pc
              /\ \/ mail'[b].status = mail[b].status
                 \/ mail[b].status = "queued" /\ mail'[b].status = "gone" /\ booking.status = Cancelled
         /\ mail[c].status = "none" =>
              /\ mail'[c].status = IF change'[c].todo = "tag" THEN "queued" ELSE "none"
              /\ mail'[c].pc = IF change'[c].todo = "tag" THEN "idle" ELSE mail[c].pc
         /\ DOMAIN change' = DOMAIN change /\ \A b \in DOMAIN change : b # c => change'[b] = change[b]
         /\ \A b \in DOMAIN change : change'[b].action = change[b].action
         /\ UNCHANGED <<booking, line, job, ref, event, told, torn, faults>>
<1>1. c \in Changes /\ mail \in [Changes -> Mail] /\ change[c].todo = "mail"
      /\ UNCHANGED <<booking, line, job, ref, event, told, torn, faults>>
  BY ChangeDomain DEF Base, TypeOK, QueueMail
<1>2. change[c].action = "delete" => booking.status = Cancelled
  BY DEF Base, Begun
<1>3. /\ \A b \in Changes :
            /\ Unsent(c)[b].pc = mail[b].pc
            /\ \/ Unsent(c)[b].status = mail[b].status
               \/ /\ mail[b].status = "queued" /\ Unsent(c)[b].status = "gone"
                  /\ booking.status = Cancelled
      /\ Unsent(c) \in [Changes -> Mail]
  <2>1. CASE change[c].action # "delete"
    BY <1>1, <2>1 DEF Unsent
  <2>2. CASE change[c].action = "delete"
    <3>1. ASSUME NEW b \in Changes
          PROVE  /\ [mail[b] EXCEPT !.status = "gone"] \in Mail
                 /\ [mail[b] EXCEPT !.status = "gone"].status = "gone"
                 /\ [mail[b] EXCEPT !.status = "gone"].pc = mail[b].pc
      BY <1>1 DEF Mail
    <3>2. Unsent(c) = [b \in Changes |-> IF mail[b].status = "queued" THEN [mail[b] EXCEPT !.status = "gone"]
                                          ELSE mail[b]]
      BY <2>2 DEF Unsent
    <3> QED
      BY <1>1, <1>2, <2>2, <3>1, <3>2
  <2> QED
    BY <2>1, <2>2
<1>4. ASSUME NEW t \in {"tag", "nothing"}, Todo(c, t)
      PROVE  /\ change'[c].todo = t /\ DOMAIN change' = DOMAIN change
             /\ \A b \in DOMAIN change : b # c => change'[b] = change[b]
             /\ \A b \in DOMAIN change : change'[b].action = change[b].action
  BY <1>1, <1>4, TodoBase DEF Todo
<1>5. CASE mail' = [Unsent(c) EXCEPT ![c] = [NoMail EXCEPT !.status = "queued", !.says = Says]]
           /\ Todo(c, "tag")
  <2>1. /\ [NoMail EXCEPT !.status = "queued", !.says = Says].status = "queued"
        /\ [NoMail EXCEPT !.status = "queued", !.says = Says].pc = "idle"
    BY DEF NoMail
  <2>2. mail'[c].status = "queued" /\ mail'[c].pc = "idle"
    BY <1>1, <1>3, <1>5, <2>1
  <2>3. \A b \in Changes : b # c => mail'[b] = Unsent(c)[b]
    BY <1>3, <1>5
  <2>4. change'[c].todo = "tag"
    BY <1>4, <1>5
  <2> QED
    BY <1>1, <1>3, <1>4, <1>5, <2>2, <2>3, <2>4
<1>6. CASE mail' = Unsent(c) /\ Todo(c, "nothing")
  <2>1. change'[c].todo = "nothing"
    BY <1>4, <1>6
  <2> QED
    BY <1>1, <1>3, <1>4, <1>6, <2>1
<1> QED
  BY <1>5, <1>6 DEF QueueMail

(* The removal that takes the mail back. *)
LEMMA RemovalEffect ==
  ASSUME CalendarBounds, Base, DecideRemoval
  PROVE  \/ mail' = mail
         \/ /\ Mine.mail \in Changes /\ mail[Mine.mail].status = "queued" /\ mail[Mine.mail].pc = "idle"
            /\ mail'[Mine.mail].status = "ended" /\ mail'[Mine.mail].pc = "idle"
            /\ \A b \in Changes : b # Mine.mail => mail'[b] = mail[b]
<1>1. mail \in [Changes -> Mail] /\ Mine.mail \in 0 .. MaxChanges
  BY MineFacts DEF DecideRemoval, Base, TypeOK
<1>2. ASSUME MailStatus = "queued", mail[Mine.mail].pc = "idle",
             mail' = [mail EXCEPT ![Mine.mail].status = "ended"]
      PROVE  /\ Mine.mail \in Changes /\ mail[Mine.mail].status = "queued" /\ mail[Mine.mail].pc = "idle"
             /\ mail'[Mine.mail].status = "ended" /\ mail'[Mine.mail].pc = "idle"
             /\ \A b \in Changes : b # Mine.mail => mail'[b] = mail[b]
  <2>1. PICK c : c = Mine.mail
    OBVIOUS
  <2>2. c \in Changes /\ mail[c].status = "queued" /\ mail[c].pc = "idle"
        /\ mail' = [mail EXCEPT ![c].status = "ended"]
    BY <1>1, <1>2, <2>1 DEF MailStatus, Changes
  <2>3. mail'[c].status = "ended" /\ mail'[c].pc = mail[c].pc /\ \A b \in Changes : b # c => mail'[b] = mail[b]
    BY <1>1, <2>2 DEF Mail
  <2> QED
    BY <2>1, <2>2, <2>3
<1> QED
  BY <1>2 DEF DecideRemoval

LEMMA MailKeptStep ==
  ASSUME CalendarBounds, Base, MailOnce, [Next]_vars
  PROVE  MailKept
<1>1. ASSUME mail' = mail
      PROVE  MailKept
  BY <1>1 DEF MailKept
<1>2. ASSUME NEW c \in DOMAIN change, QueueMail(c)
      PROVE  MailKept
  <2>1. mail[c].status = "none"
    BY <1>2, QueueMailEffect DEF MailOnce, Unmailed
  <2> QED
    BY <1>2, <2>1, QueueMailEffect DEF MailKept
<1>3. ASSUME NEW c \in DOMAIN change, SendMail(c) \/ MailAnswer(c) \/ MailEnds(c) \/ AfterGaveUp(c)
      PROVE  MailKept
  BY <1>3, SendMailEffect, MailAnswerEffect, MailEndsEffect, GaveUpEffect DEF MailKept
<1>4. ASSUME NEW c \in DOMAIN change, Tag(c)
      PROVE  MailKept
  BY <1>1, <1>4, TagSteps
<1>5. CASE DecideRemoval
  BY <1>1, <1>5, RemovalEffect DEF MailKept
<1>6. CASE Accept \/ Move \/ Cancel
  BY <1>1, <1>6, ChangesKeep
<1>7. CASE (JobStep /\ ~ DecideRemoval) \/ JobDies
  BY <1>1, <1>7 DEF JobStep, Begin, Decide, Mark, Claim, CreateEvent, Fill, UpdateEvent, DeleteEvent,
     EndJob, ReinviteLooks, TakeOff, TakenOff, PutBack, Reinvited, JobDies
<1> QED
  BY <1>1, <1>2, <1>3, <1>4, <1>5, <1>6, <1>7 DEF Next, RequestStep, MailStep, vars

(* MailOnce reads the changes and the mails alone. *)
LEMMA MailOnceStep ==
  ASSUME CalendarBounds, Base, MailOnce, [Next]_vars
  PROVE  MailOnce'
<1>1. ASSUME UNCHANGED <<mail, change>>
      PROVE  MailOnce'
  BY <1>1 DEF MailOnce, Unmailed
<1>2. ASSUME NEW c \in DOMAIN change, QueueMail(c)
      PROVE  MailOnce'
  <2>1. mail[c].status = "none" /\ mail[c].pc = "idle" /\ c \in Changes
    BY <1>2, QueueMailEffect DEF MailOnce, Unmailed
  <2>2. ASSUME NEW b \in Changes
        PROVE  /\ Unmailed(b)' => mail'[b].status = "none"
               /\ b \in DOMAIN change' /\ change'[b].todo = "tag" => mail'[b].status # "none"
               /\ mail'[b].status \in {"none", "done", "ended"} => mail'[b].pc = "idle"
    <3>1. CASE b = c
      BY <1>2, <2>1, <3>1, QueueMailEffect DEF Unmailed
    <3>2. CASE b # c
      <4>1. /\ mail'[b].pc = mail[b].pc
            /\ \/ mail'[b].status = mail[b].status
               \/ mail[b].status = "queued" /\ mail'[b].status = "gone"
            /\ DOMAIN change' = DOMAIN change /\ (b \in DOMAIN change => change'[b] = change[b])
        BY <1>2, <3>2, QueueMailEffect
      <4>2. /\ Unmailed(b) => mail[b].status = "none"
            /\ b \in DOMAIN change /\ change[b].todo = "tag" => mail[b].status # "none"
            /\ mail[b].status \in {"none", "done", "ended"} => mail[b].pc = "idle"
        BY DEF MailOnce
      <4>3. Unmailed(b)' => Unmailed(b)
        BY <4>1 DEF Unmailed
      <4> QED
        BY <4>1, <4>2, <4>3
    <3> QED
      BY <3>1, <3>2
  <2> QED
    BY <2>2 DEF MailOnce
<1>3. ASSUME NEW c \in DOMAIN change, SendMail(c) \/ MailAnswer(c) \/ MailEnds(c) \/ AfterGaveUp(c)
      PROVE  MailOnce'
  <2>1. /\ c \in Changes /\ change' = change
        /\ \A b \in Changes : b # c => mail'[b] = mail[b]
        /\ mail[c].status = "none" <=> mail'[c].status = "none"
        /\ mail[c].status \in {"none", "done", "ended"} => mail[c].pc = "idle"
        /\ mail'[c].status \in {"none", "done", "ended"} => mail'[c].pc = "idle"
    <3>1. c \in Changes /\ (mail[c].status \in {"none", "done", "ended"} => mail[c].pc = "idle")
      BY ChangeDomain DEF MailOnce
    <3> QED
      BY <1>3, <3>1, SendMailEffect, MailAnswerEffect, MailEndsEffect, GaveUpEffect, GaveUpSteps
  <2>2. \A b \in Changes : mail[b].status = "none" <=> mail'[b].status = "none"
    BY <2>1
  <2>3. \A b \in Changes : mail'[b].status \in {"none", "done", "ended"} => mail'[b].pc = "idle"
    BY <2>1 DEF MailOnce
  <2>4. \A b \in Changes : Unmailed(b)' <=> Unmailed(b)
    BY <2>1 DEF Unmailed
  <2> QED
    BY <2>1, <2>2, <2>3, <2>4 DEF MailOnce
<1>4. ASSUME NEW c \in DOMAIN change, Tag(c)
      PROVE  MailOnce'
  <2>1. /\ change[c].todo = "tag" /\ change'[c].todo = "nothing" /\ mail' = mail
        /\ DOMAIN change' = DOMAIN change /\ \A b \in DOMAIN change : b # c => change'[b] = change[b]
    BY <1>4, TagSteps
  <2>2. ASSUME NEW b \in Changes
        PROVE  /\ Unmailed(b)' => Unmailed(b)
               /\ b \in DOMAIN change' /\ change'[b].todo = "tag" => b \in DOMAIN change /\ change[b].todo = "tag"
    BY <2>1 DEF Unmailed
  <2> QED
    BY <2>1, <2>2 DEF MailOnce
<1>5. CASE DecideRemoval
  <2>1. change' = change
    BY <1>5 DEF DecideRemoval
  <2>2. ASSUME mail' # mail
        PROVE  MailOnce'
    <3>1. PICK c \in Changes : /\ mail[c].status = "queued" /\ mail'[c].status = "ended" /\ mail'[c].pc = "idle"
                                /\ \A b \in Changes : b # c => mail'[b] = mail[b]
      BY <1>5, <2>2, RemovalEffect
    <3>2. \A b \in Changes : Unmailed(b)' <=> Unmailed(b)
      BY <2>1 DEF Unmailed
    <3>3. \A b \in Changes : mail[b].status = "none" <=> mail'[b].status = "none"
      BY <3>1
    <3>4. \A b \in Changes : mail'[b].status \in {"none", "done", "ended"} => mail'[b].pc = "idle"
      BY <3>1 DEF MailOnce
    <3> QED
      BY <2>1, <3>2, <3>3, <3>4 DEF MailOnce
  <2> QED
    BY <1>1, <2>1, <2>2
<1>6. CASE Accept \/ Move \/ Cancel
  <2>1. /\ mail' = mail
        /\ DOMAIN change' = DOMAIN change \cup {Len(change) + 1} /\ Len(change) + 1 \notin DOMAIN change
        /\ \A c \in DOMAIN change : change'[c] = change[c]
        /\ change'[Len(change) + 1].todo = "mail"
    BY <1>6, ChangesKeep
  <2>2. ASSUME NEW b \in Changes
        PROVE  /\ Unmailed(b)' => Unmailed(b)
               /\ b \in DOMAIN change' /\ change'[b].todo = "tag" => b \in DOMAIN change /\ change[b].todo = "tag"
    BY <2>1 DEF Unmailed
  <2> QED
    BY <2>1, <2>2 DEF MailOnce
<1>7. CASE (JobStep /\ ~ DecideRemoval) \/ JobDies
  BY <1>1, <1>7 DEF JobStep, Begin, Decide, Mark, Claim, CreateEvent, Fill, UpdateEvent, DeleteEvent,
     EndJob, ReinviteLooks, TakeOff, TakenOff, PutBack, Reinvited, JobDies
<1> QED
  BY <1>1, <1>2, <1>3, <1>4, <1>5, <1>6, <1>7 DEF Next, RequestStep, MailStep, vars

LEMMA MarksMailedStep ==
  ASSUME CalendarBounds, Base, MailOnce, MarksMailed, [Next]_vars
  PROVE  MarksMailed'
<1>1. MailKept /\ mail \in [Changes -> Mail] /\ line \in Seq(Row)
  BY MailKeptStep DEF Base, TypeOK
<1>2. \A i \in Rows : line[i].mail \in 0 .. MaxChanges
  BY <1>1, LineDomain DEF Row
<1>3. ASSUME Rows' = Rows, \A i \in Rows : line'[i].mail = line[i].mail
      PROVE  MarksMailed'
  BY <1>1, <1>2, <1>3 DEF MarksMailed, MailKept, Changes
<1>4. ASSUME JobKeeps
      PROVE  MarksMailed'
  BY <1>3, <1>4 DEF JobKeeps, Steady, SameMail, Rows
<1>5. ASSUME NEW m \in 0 .. MaxChanges, NEW a, NEW n,
             DOMAIN line' = Rows \cup {n}, \A i \in Rows : line'[i] = line[i], line'[n] = NewRow(a, m),
             m > 0 => mail'[m].status # "none"
      PROVE  MarksMailed'
  <2>1. line'[n].mail = m /\ Rows' = Rows \cup {n}
    BY <1>5 DEF NewRow, Rows
  <2>2. \A i \in Rows : line'[i].mail > 0 => mail'[line'[i].mail].status # "none"
    BY <1>1, <1>2, <1>5 DEF MarksMailed, MailKept, Changes
  <2> QED
    BY <1>5, <2>1, <2>2 DEF MarksMailed
<1>6. ASSUME NEW c \in DOMAIN change, AfterGaveUp(c)
      PROVE  MarksMailed'
  <2>1. CASE line' = line
    BY <1>3, <2>1 DEF Rows
  <2>2. CASE line' # line
    <3>1. /\ c \in Changes /\ c \in 0 .. MaxChanges /\ line' = Append(line, NewRow("reinvite", c))
          /\ mail'[c].status = mail[c].status
          /\ \E i \in MarkedBy(c) : line[i].action # "delete"
      BY <1>6, <2>2, GaveUpSteps, GaveUpEffect
    <3>2. mail[c].status # "none"
      BY <3>1 DEF MarksMailed, MarkedBy, Rows, Changes
    <3>3. /\ DOMAIN line' = Rows \cup {Len(line) + 1} /\ \A i \in Rows : line'[i] = line[i]
          /\ line'[Len(line) + 1] = NewRow("reinvite", c)
      BY <3>1, AppendKeeps
    <3> QED
      BY <1>5, <3>1, <3>2, <3>3
  <2> QED
    BY <2>1, <2>2
<1>7. CASE Accept \/ Move \/ Cancel
  <2>1. 0 \in 0 .. MaxChanges
    BY DEF CalendarBounds
  <2>2. PICK action \in {"create", "reschedule", "delete"} : line'[Len(line) + 1] = NewRow(action, 0)
    BY <1>7, ChangesKeep
  <2>3. DOMAIN line' = Rows \cup {Len(line) + 1} /\ \A i \in Rows : line'[i] = line[i]
    BY <1>7, ChangesKeep
  <2> QED
    BY <1>5, <2>1, <2>2, <2>3
<1>8. ASSUME NEW c \in DOMAIN change, Tag(c)
      PROVE  MarksMailed'
  <2>1. /\ c \in Changes /\ change[c].todo = "tag" /\ mail' = mail /\ Steady
        /\ \/ line' = line
           \/ \E i \in Rows : line'[i].mail = c /\ \A j \in Rows : j # i => line'[j] = line[j]
    BY <1>8, TagSteps
  <2>2. mail[c].status # "none"
    BY <2>1 DEF MailOnce
  <2>3. ASSUME NEW i \in Rows, line'[i].mail = c, \A j \in Rows : j # i => line'[j] = line[j]
        PROVE  MarksMailed'
    BY <2>1, <2>2, <2>3 DEF MarksMailed, Steady, Rows
  <2> QED
    BY <1>3, <2>1, <2>3 DEF Rows
<1>9. ASSUME NEW c \in DOMAIN change, QueueMail(c) \/ SendMail(c) \/ MailAnswer(c) \/ MailEnds(c)
      PROVE  MarksMailed'
  BY <1>3, <1>9 DEF QueueMail, SendMail, MailAnswer, MailEnds, Rows
<1>10. CASE UNCHANGED vars
  BY <1>3, <1>10 DEF vars, Rows
<1> QED
  BY <1>4, <1>6, <1>7, <1>8, <1>9, <1>10, JobStepKeeps DEF Next, RequestStep, MailStep

(* Who a step lets the guest hear from. *)
LEMMA ToldStep ==
  ASSUME CalendarBounds, Base, [Next]_vars
  PROVE  \/ told' = told
         \/ /\ JobStep /\ job.pc # "idle" /\ job.invite
            /\ \E says : told' = told \cup {[by |-> "provider", on |-> Mine.mail, says |-> says]}
         \/ \E c \in DOMAIN change : MailAnswer(c) /\ mail'[c].pc = "idle"
              /\ mail'[c].status = (IF mail[c].status = "queued" THEN "done" ELSE mail[c].status)
              /\ told' = told \cup {[by |-> "mail", on |-> c, says |-> mail[c].says]}
<1>1. ASSUME NEW news, Notify(news)
      PROVE  \/ told' = told
             \/ /\ job.invite
                /\ \E says : told' = told \cup {[by |-> "provider", on |-> Mine.mail, says |-> says]}
  BY <1>1 DEF Notify, Hear
<1>2. CASE JobStep
  <2>1. CASE CreateEvent
    BY <1>1, <1>2, <2>1 DEF CreateEvent, Created
  <2>2. CASE UpdateEvent \/ DeleteEvent \/ PutBack
    BY <1>1, <1>2, <2>2 DEF UpdateEvent, DeleteEvent, PutBack
  <2>3. CASE ~ (CreateEvent \/ UpdateEvent \/ DeleteEvent \/ PutBack)
    BY <1>2, <2>3 DEF JobStep, Begin, Decide, DecideRemoval, Mark, Claim, Fill,
       EndJob, ReinviteLooks, TakeOff, TakenOff, Reinvited
  <2> QED
    BY <2>1, <2>2, <2>3
<1>3. ASSUME NEW c \in DOMAIN change, MailAnswer(c)
      PROVE  \/ told' = told
             \/ /\ MailAnswer(c) /\ mail'[c].pc = "idle"
                /\ mail'[c].status = (IF mail[c].status = "queued" THEN "done" ELSE mail[c].status)
                /\ told' = told \cup {[by |-> "mail", on |-> c, says |-> mail[c].says]}
  BY <1>3, MailAnswerEffect
<1>4. ASSUME NEW c \in DOMAIN change, QueueMail(c) \/ Tag(c) \/ SendMail(c) \/ MailEnds(c) \/ AfterGaveUp(c)
      PROVE  told' = told
  BY <1>4 DEF QueueMail, Tag, SendMail, MailEnds, AfterGaveUp
<1>5. CASE Accept \/ Move \/ Cancel
  BY <1>5, ChangesKeep
<1> QED
  BY <1>2, <1>3, <1>4, <1>5 DEF Next, RequestStep, MailStep, JobDies, vars

(* A step that is not the job's: its row stays as it is. *)
LEMMA MineStays ==
  ASSUME CalendarBounds, Base, job.pc # "idle",
         UNCHANGED vars \/ Accept \/ Move \/ Cancel
         \/ \E c \in DOMAIN change : RequestStep(c) \/ MailStep(c)
  PROVE  job' = job /\ h' = h /\ Mine' = Mine
<1>1. AnyPending /\ line \in Seq(Row) /\ h \in Rows /\ Mine = line[h]
  BY MineFacts
<1>2. ASSUME line' = line, job' = job
      PROVE  job' = job /\ h' = h /\ Mine' = Mine
  BY <1>1, <1>2, SameLine
<1>3. ASSUME NEW c \in DOMAIN change, Tag(c)
      PROVE  job' = job /\ h' = h /\ Mine' = Mine
  <2>1. /\ Steady /\ SameStatus /\ job' = job
        /\ \/ line' = line
           \/ \E i \in Rows : i # h /\ \A j \in Rows : j # i => line'[j] = line[j]
    BY <1>3, TagSteps
  <2>2. h' = h /\ Mine' = line'[h]
    BY <1>1, <2>1, HeadStays
  <2> QED
    BY <1>1, <2>1, <2>2
<1>4. ASSUME NEW c \in DOMAIN change, AfterGaveUp(c)
      PROVE  job' = job /\ h' = h /\ Mine' = Mine
  <2>1. /\ job' = job /\ c \in 0 .. MaxChanges
        /\ line' = line \/ line' = Append(line, NewRow("reinvite", c))
    BY <1>4, GaveUpSteps
  <2> QED
    BY <1>1, <1>2, <2>1, AppendKeeps
<1> QED
  BY <1>1, <1>2, <1>3, <1>4, ChangesKeep
     DEF RequestStep, MailStep, QueueMail, SendMail, MailAnswer, MailEnds, vars

(* When an attempt comes to let the provider tell, the mail gave way. *)
LEMMA InviteSteps ==
  ASSUME CalendarBounds, Base, Hearing, JobStep
  PROVE  \/ job' = NoJob
         \/ /\ job'.pc # "idle"
            /\ job'.invite => job.invite \/ \A c \in Changes : Mine.mail = c => GaveWay(c)'
<1>0. AnyPending /\ line \in Seq(Row) /\ h \in Rows /\ Mine = line[h] /\ job \in Job
  BY MineFacts, HeadFacts DEF JobStep, Begin, Decide, DecideRemoval, Mark, Claim, CreateEvent, Fill,
     UpdateEvent, DeleteEvent, EndJob, ReinviteLooks, TakeOff, TakenOff, PutBack, Reinvited, Base, TypeOK
<1>1. RowsKept /\ MailKept
  BY RowsKeptStep, MailKeptStep DEF Next, Hearing
<1>2. Mine.mail > 0 => Mine.mail \in Changes /\ mail[Mine.mail].status # "none"
  <2>1. Mine.mail \in 0 .. MaxChanges
    BY <1>0, LineDomain DEF Row
  <2> QED
    BY <1>0, <2>1 DEF Changes, Hearing, MarksMailed
<1>3. mail \in [Changes -> Mail]
  BY DEF Base, TypeOK
<1>4. ASSUME Mine.mail > 0 => GaveWay(Mine.mail), NEW c \in Changes, Mine.mail = c
      PROVE  GaveWay(c)'
  <2>1. GaveWay(c)
    BY <1>4 DEF Changes
  <2> QED
    BY <1>1, <2>1, GaveWayKept
<1>5. CASE Begin
  <2>1. CASE TooLate
    BY <1>5, <2>1 DEF Begin, EndRow
  <2>2. CASE ~ TooLate
    BY <1>5, <2>2 DEF Begin
  <2> QED
    BY <2>1, <2>2
<1>6. Act # "idle" /\ Act \in JobPcs
  BY DEF Act, JobPcs
<1>7. CASE Decide
  <2>1. CASE \E pc \in {Act, "mark"} : Decided(FALSE, pc)
    <3>1. PICK pc \in {Act, "mark"} : Decided(FALSE, pc)
      BY <2>1
    <3>2. job'.pc = pc /\ job'.invite = FALSE
      BY <1>0, <1>6, <3>1, DecidedRecord DEF JobPcs
    <3> QED
      BY <1>6, <3>1, <3>2
  <2>2. CASE Decided(TRUE, Act) /\ MailStatus \notin {"queued", "done"}
    <3>1. job'.pc = Act
      BY <1>0, <1>6, <2>2, DecidedRecord
    <3>2. Mine.mail > 0 => GaveWay(Mine.mail)
      BY <1>2, <1>3, <2>2 DEF MailStatus, GaveWay, Mail
    <3> QED
      BY <1>4, <1>6, <3>1, <3>2
  <2> QED
    BY <1>7, <2>1, <2>2 DEF Decide
<1>8. CASE DecideRemoval
  <2>1. CASE Decided(FALSE, "mark")
    <3>1. job'.pc = "mark" /\ job'.invite = FALSE
      BY <1>0, <2>1, DecidedRecord DEF JobPcs
    <3> QED
      BY <3>1
  <2>2. CASE FailRow([Mine EXCEPT !.looks = @ + 1])
    BY <2>2 DEF FailRow
  <2>3. CASE Decided(TRUE, Act) /\ MailStatus \in {"none", "ended", "gone"}
    <3>1. job'.pc = Act
      BY <1>0, <1>6, <2>3, DecidedRecord
    <3>2. Mine.mail > 0 => GaveWay(Mine.mail)
      BY <1>2, <1>3, <2>3 DEF MailStatus, GaveWay
    <3> QED
      BY <1>4, <1>6, <3>1, <3>2
  <2>4. CASE Decided(TRUE, Act) /\ MailStatus = "queued" /\ ~ StillWaits
             /\ mail' = IF mail[Mine.mail].pc = "idle"
                        THEN [mail EXCEPT ![Mine.mail].status = "ended"] ELSE mail
    <3>1. job'.pc = Act /\ Mine.mail > 0
      <4>1. Mine.mail # 0 /\ Mine.mail \in 0 .. MaxChanges
        BY <1>0, <2>4, LineDomain DEF MailStatus, Row
      <4>2. Mine.mail > 0
        BY <4>1
      <4>3. job'.pc = Act
        BY <1>0, <1>6, <2>4, DecidedRecord
      <4> QED
        BY <4>2, <4>3
    <3>2. CASE mail[Mine.mail].pc = "idle"
      <4>1. PICK c \in Changes : c = Mine.mail
        BY <1>2, <3>1
      <4>2. mail'[c].status = "ended"
        BY <1>3, <2>4, <3>2, <4>1 DEF Mail
      <4>3. GaveWay(c)'
        BY <4>2 DEF GaveWay
      <4> QED
        BY <1>6, <3>1, <4>1, <4>3
    <3>3. CASE mail[Mine.mail].pc # "idle"
      <4>1. ~ (Mine.looks < MaxLooks) /\ Mine.looks \in 0 .. MaxLooks
        BY <1>0, <2>4, <3>3, LineDomain DEF StillWaits, Row
      <4>2. line[h].looks = MaxLooks /\ line[h].action = "delete"
        BY <1>0, <1>8, <4>1 DEF DecideRemoval, CalendarBounds
      <4>3. GaveWay(Mine.mail)
        BY <1>0, <4>2 DEF GaveWay, MarkedBy, Rows
      <4> QED
        BY <1>4, <1>6, <3>1, <4>3
    <3> QED
      BY <3>2, <3>3
  <2> QED
    BY <1>8, <2>1, <2>2, <2>3, <2>4 DEF DecideRemoval
<1>9. CASE ReinviteLooks
  <2>1. CASE EndRow("done") \/ FailRow(Mine)
    BY <2>1 DEF EndRow, FailRow
  <2>2. ASSUME Wanted, MailStatus \in {"ended", "gone"}, line' = line,
               job' = [job EXCEPT !.pc = IF line[Owed].removed THEN "putback" ELSE "takeoff",
                                  !.left = {Inviting(Filled)}, !.inviting = Inviting(Filled),
                                  !.invite = TRUE]
        PROVE  job'.pc # "idle" /\ \A c \in Changes : Mine.mail = c => GaveWay(c)'
    <3>1. Mine.mail > 0 => GaveWay(Mine.mail)
      BY <2>2 DEF MailStatus, GaveWay
    <3>2. job'.pc # "idle"
      BY <1>9, <2>2, ReinviteLooksSteps
    <3> QED
      BY <1>4, <3>1, <3>2
  <2> QED
    BY <1>9, <2>1, <2>2 DEF ReinviteLooks
<1>10. ASSUME NEW pc \in JobPcs \ {"idle"}, job' = [job EXCEPT !.pc = pc]
       PROVE  job'.pc # "idle" /\ job'.invite = job.invite
  BY <1>0, <1>10, JobRecord
<1>11. CASE Mark \/ TakeOff \/ TakenOff \/ PutBack
  BY <1>6, <1>10, <1>11 DEF Mark, TakeOff, TakenOff, PutBack, FailRow, JobPcs
<1>12. ASSUME job.pc \in {"claim", "fill", "move", "remove"}, job' = Rest
       PROVE  job'.pc # "idle" /\ job'.invite = job.invite
  BY <1>12, RestSteps
<1>13. CASE Claim \/ CreateEvent \/ Fill \/ UpdateEvent \/ DeleteEvent
  BY <1>10, <1>12, <1>13 DEF Claim, CreateEvent, Fill, UpdateEvent, DeleteEvent, Release, FailRow, JobPcs
<1>14. CASE EndJob \/ Reinvited
  BY <1>14 DEF EndJob, EndRow, Reinvited
<1> QED
  BY <1>5, <1>7, <1>8, <1>9, <1>11, <1>13, <1>14 DEF JobStep

LEMMA InitHearing ==
  ASSUME CalendarBounds, Init
  PROVE  Hearing
<1>1. /\ Rows = {} /\ DOMAIN change = {} /\ told = {} /\ job = NoJob
      /\ mail = [c \in Changes |-> NoMail]
  BY DEF Init, Rows
<1> QED
  BY <1>1 DEF Hearing, MailOnce, MarksMailed, MailTold, ProviderTold, MayTell, NoMail, NoJob, Unmailed

LEMMA HearingStep ==
  ASSUME CalendarBounds, Base, Hearing, [Next]_vars
  PROVE  Hearing'
<1>1. MailOnce' /\ MarksMailed' /\ RowsKept /\ MailKept
  BY MailOnceStep, MarksMailedStep, RowsKeptStep, MailKeptStep DEF Hearing
<1>2. \A t \in told : t.on \in 0 .. MaxChanges
  BY DEF Base, TypeOK
<1>3. MailTold'
  <2>1. \A t \in told : t.by = "mail" => t.on \in Changes /\ mail'[t.on].status \in {"done", "gone"}
    BY <1>1 DEF Hearing, MailTold, MailKept
  <2>2. ASSUME NEW c \in DOMAIN change, MailAnswer(c),
               mail'[c].status = (IF mail[c].status = "queued" THEN "done" ELSE mail[c].status)
        PROVE  c \in Changes /\ mail'[c].status \in {"done", "gone"}
    <3>1. c \in Changes /\ mail[c].pc = "sending" /\ mail[c] \in Mail
      BY <2>2, MailAnswerEffect DEF Base, TypeOK
    <3>2. mail[c].status \in {"queued", "gone"}
      BY <3>1 DEF Hearing, MailOnce, Mail
    <3> QED
      BY <2>2, <3>1, <3>2
  <2> QED
    BY <2>1, <2>2, ToldStep DEF MailTold
<1>4. ProviderTold'
  <2>1. ASSUME NEW t \in told, t.by = "provider", t.on > 0
        PROVE  GaveWay(t.on)'
    <3>1. t.on \in Changes
      BY <1>2, <2>1 DEF Changes
    <3>2. PICK c \in Changes : c = t.on
      BY <3>1
    <3>3. GaveWay(c)
      BY <2>1, <3>2 DEF Hearing, ProviderTold
    <3>4. GaveWay(c)'
      BY <1>1, <3>3, GaveWayKept
    <3> QED
      BY <3>2, <3>4
  <2>2. ASSUME job.invite, job.pc # "idle"
        PROVE  \A c \in Changes : Mine.mail = c => GaveWay(c)'
    <3>1. ASSUME NEW c \in Changes, Mine.mail = c
          PROVE  GaveWay(c)'
      <4>1. GaveWay(c)
        BY <2>2, <3>1 DEF Hearing, MayTell, Changes
      <4> QED
        BY <1>1, <4>1, GaveWayKept
    <3> QED
      BY <3>1
  <2>3. ASSUME NEW t \in told', t.by = "provider", t.on > 0, t \notin told
        PROVE  GaveWay(t.on)'
    <3>1. job.pc # "idle" /\ job.invite /\ t.on = Mine.mail
      BY <2>3, ToldStep
    <3>2. Mine.mail \in 0 .. MaxChanges
      BY <3>1, MineFacts
    <3>3. PICK c \in Changes : c = t.on
      BY <2>3, <3>1, <3>2 DEF Changes
    <3>4. GaveWay(c)'
      BY <2>2, <3>1, <3>3
    <3> QED
      BY <3>3, <3>4
  <2> QED
    BY <2>1, <2>3 DEF ProviderTold
<1>5. MayTell'
  <2>1. CASE job.pc = "idle" /\ job' = job
    BY <2>1 DEF Hearing, MayTell
  <2>2. ASSUME job.invite
        PROVE  \A c \in Changes : Mine.mail = c => GaveWay(c)'
    <3>1. ASSUME NEW c \in Changes, Mine.mail = c
          PROVE  GaveWay(c)'
      <4>1. GaveWay(c)
        BY <2>2, <3>1 DEF Hearing, MayTell, Changes
      <4> QED
        BY <1>1, <4>1, GaveWayKept
    <3> QED
      BY <3>1
  <2>3. ASSUME job'.invite, job'.pc # "idle", Mine'.mail = Mine.mail, Mine.mail \in 0 .. MaxChanges,
               \A c \in Changes : Mine.mail = c => GaveWay(c)'
        PROVE  MayTell'
    <3>1. ASSUME Mine'.mail > 0
          PROVE  GaveWay(Mine.mail)'
      <4>1. PICK c \in Changes : c = Mine.mail
        BY <2>3, <3>1 DEF Changes
      <4>2. GaveWay(c)' /\ c = Mine'.mail
        BY <2>3, <4>1
      <4> QED
        BY <4>2
    <3> QED
      BY <2>3, <3>1 DEF MayTell
  <2>4. CASE job' = NoJob
    BY <2>4 DEF NoJob, MayTell
  <2>5. ASSUME job' # NoJob, JobStep, job'.invite
        PROVE  MayTell'
    <3>1. JobKeeps
      BY <2>5, JobStepKeeps
    <3>2. SameStatus /\ AnyPending /\ Steady /\ SameMail /\ line \in Seq(Row)
      BY <2>5, <3>1 DEF JobKeeps, Base, TypeOK
    <3>3. h' = h /\ Mine' = line'[h] /\ Mine = line[h] /\ h \in Rows /\ Mine \in Row
      BY <3>2, HeadStays, HeadFacts
    <3>4. Mine'.mail = Mine.mail /\ Mine.mail \in 0 .. MaxChanges
      BY <3>2, <3>3 DEF SameMail, Row
    <3>5. job'.pc # "idle" /\ \A c \in Changes : Mine.mail = c => GaveWay(c)'
      BY <2>2, <2>5, InviteSteps
    <3> QED
      BY <2>3, <2>5, <3>4, <3>5
  <2>6. ASSUME job' = job, h' = h, Mine' = Mine, job.invite
        PROVE  MayTell'
    <3>1. job.pc # "idle"
      BY <2>6 DEF Hearing, MayTell
    <3>2. Mine.mail \in 0 .. MaxChanges
      BY <3>1, MineFacts
    <3> QED
      BY <2>2, <2>3, <2>6, <3>1, <3>2
  <2>7. CASE ~ JobStep /\ ~ JobDies
    <3>1. UNCHANGED vars \/ Accept \/ Move \/ Cancel \/ \E c \in DOMAIN change : RequestStep(c) \/ MailStep(c)
      BY <2>7 DEF Next
    <3>2. job' = job
      BY <3>1, ChangesKeep, TagSteps, GaveUpSteps
         DEF RequestStep, MailStep, QueueMail, SendMail, MailAnswer, MailEnds, vars
    <3>3. CASE job.pc # "idle"
      <4>1. job' = job /\ h' = h /\ Mine' = Mine
        BY <3>1, <3>3, MineStays
      <4>2. CASE ~ job.invite
        BY <4>1, <4>2 DEF MayTell
      <4> QED
        BY <2>6, <4>1, <4>2
    <3> QED
      BY <2>1, <3>2, <3>3
  <2>8. CASE ~ job'.invite
    BY <2>8 DEF MayTell
  <2> QED
    BY <2>4, <2>5, <2>7, <2>8 DEF JobDies
<1> QED
  BY <1>1, <1>3, <1>4, <1>5 DEF Hearing

(* The guest hears of one change from the mail or from the provider, never *)
(* from both: the provider is asked to tell only where the mail's row has   *)
(* ended unsent or was dropped, or a removal has spent its looks, and what  *)
(* a mail has come to it stays, so a retry of either job finds it so.       *)
THEOREM GuestToldOnce == ASSUME CalendarBounds PROVE Spec => []ToldOnce
<1>1. Init => Base /\ Hearing
  BY InitBase, InitHearing
<1>2. Base /\ Hearing /\ [Next]_vars => Base' /\ Hearing'
  BY BaseStep, HearingStep
<1>3. Base /\ Hearing => ToldOnce
  <2> SUFFICES ASSUME Base, Hearing, NEW a \in told, NEW b \in told,
                      a.by = "mail", b.by = "provider", a.on = b.on, mail[a.on].status # "gone"
               PROVE  \E i \in MarkedBy(a.on) : line[i].action = "delete" /\ line[i].looks = MaxLooks
    BY DEF ToldOnce
  <2>1. a.on \in Changes /\ mail[a.on].status = "done"
    BY DEF Hearing, MailTold
  <2>2. a.on > 0
    BY <2>1 DEF Changes
  <2>3. GaveWay(a.on)
    BY <2>2 DEF Hearing, ProviderTold
  <2> QED
    BY <2>1, <2>3 DEF GaveWay
<1> QED
  BY <1>1, <1>2, <1>3, PTL DEF Spec

-----------------------------------------------------------------------------
(* The references and the events: no event is written twice, and none is   *)
(* left when the booking is off.                                           *)

Whole == torn = "nothing"
Writing == job.pc \in {"create", "fill"}
MayStand == booking.status = "accepted" \/ AnyPending

Claims ==
    /\ Writing => ref[d1] = "claimed"
    /\ Whole => \A d \in Destinations : ref[d] = "claimed" => Writing /\ d = d1
Once ==
    torn # "event" =>
        /\ \A d \in Destinations : event[d].n <= 1
        /\ MayStand => \A d \in Destinations : ref[d] = "free" => event[d].n = 0
        /\ job.pc = "create" => event[d1].n = 0
Clearing ==
    Whole /\ job.pc # "idle" /\ Mine.action = "delete" =>
        \A d \in Destinations : d \notin job.left => event[d].n = 0
Cleared ==
    \A i \in Rows : line[i].action = "delete" =>
        /\ line[i].status # "skipped"
        /\ Whole /\ line[i].status = "done" => \A d \in Destinations : event[d].n = 0
Written == Claims /\ Once /\ Clearing /\ Cleared

SameCounts == \A d \in Destinations : event'[d].n = event[d].n

LEMMA InitWritten ==
  ASSUME CalendarBounds, Init
  PROVE  Written
BY DEF Init, Written, Claims, Once, Clearing, Cleared, Writing, NoJob, Rows

(* A step that is not the job's, or its death before a claim. *)
LEMMA AsideWritten ==
  ASSUME CalendarBounds, Base, Written, UNCHANGED <<ref, event, torn>>,
         UNCHANGED vars \/ Accept \/ Move \/ Cancel
         \/ \E c \in DOMAIN change : RequestStep(c) \/ MailStep(c)
  PROVE  Written'
<1>1. job' = job /\ d1' = d1
  BY ChangesKeep, TagSteps, GaveUpSteps
     DEF RequestStep, MailStep, QueueMail, SendMail, MailAnswer, MailEnds, vars, d1
<1>2. job.pc # "idle" => Mine' = Mine
  BY MineStays
<1>3. line \in Seq(Row)
  BY DEF Base, TypeOK
<1>4. \A i \in Rows' : \/ i \in Rows /\ line'[i].status = line[i].status /\ line'[i].action = line[i].action
                       \/ line'[i].status = "pending" /\ booking.status = "accepted"
  <2>1. CASE Accept \/ Move \/ Cancel
    <3>1. PICK action \in {"create", "reschedule", "delete"} : line'[Len(line) + 1] = NewRow(action, 0)
      BY <2>1, ChangesKeep
    <3>2. line'[Len(line) + 1].status = "pending" /\ booking.status = "accepted"
      BY <2>1, <3>1 DEF NewRow, Accept, Move, Cancel, Changed
    <3>3. Rows' = Rows \cup {Len(line) + 1} /\ \A i \in Rows : line'[i] = line[i]
      BY <2>1, ChangesKeep DEF Rows
    <3> QED
      BY <3>2, <3>3
  <2>2. ASSUME NEW c \in DOMAIN change, AfterGaveUp(c), line' # line
        PROVE  \A i \in Rows' : \/ i \in Rows /\ line'[i] = line[i]
                                \/ line'[i].status = "pending" /\ booking.status = "accepted"
    <3>1. /\ c \in 0 .. MaxChanges /\ line' = Append(line, NewRow("reinvite", c))
          /\ booking.status = "accepted"
      BY <2>2, GaveUpSteps
    <3>2. /\ Rows' = Rows \cup {Len(line) + 1} /\ \A i \in Rows : line'[i] = line[i]
          /\ line'[Len(line) + 1] = NewRow("reinvite", c)
      BY <3>1, AppendKeeps DEF Rows
    <3>3. line'[Len(line) + 1].status = "pending"
      BY <3>2 DEF NewRow
    <3>4. booking.status = "accepted"
      BY <3>1
    <3> QED
      BY <3>2, <3>3, <3>4
  <2>3. ASSUME NEW c \in DOMAIN change, Tag(c)
        PROVE  Rows' = Rows /\ \A i \in Rows : line'[i].status = line[i].status /\ line'[i].action = line[i].action
    BY <2>3, TagSteps DEF Steady, SameStatus, Rows
  <2>4. CASE line' = line
    BY <2>4 DEF Rows
  <2> QED
    BY <2>1, <2>2, <2>3, <2>4 DEF RequestStep, MailStep, QueueMail, SendMail, MailAnswer, MailEnds, vars
<1>5. MayStand' => MayStand
  <2>1. booking'.status = "accepted" => booking.status = "accepted"
    <3>1. CASE Accept \/ Move \/ Cancel
      BY <3>1 DEF Accept, Move, Cancel, Changed
    <3>2. ASSUME NEW c \in DOMAIN change, RequestStep(c) \/ MailStep(c)
          PROVE  booking' = booking
      BY <3>2 DEF RequestStep, MailStep, QueueMail, Tag, SendMail, MailAnswer, MailEnds, AfterGaveUp
    <3> QED
      BY <3>1, <3>2 DEF vars
  <2>2. AnyPending' => AnyPending \/ booking.status = "accepted"
    BY <1>4, HeadIs DEF Rows
  <2> QED
    BY <2>1, <2>2 DEF MayStand
<1>6. Claims' /\ Once'
  BY <1>1, <1>5 DEF Written, Claims, Once, Writing, Whole
<1>7. Clearing'
  BY <1>1, <1>2 DEF Written, Clearing, Whole
<1>8. Cleared'
  BY <1>4 DEF Written, Cleared, Whole
<1> QED
  BY <1>6, <1>7, <1>8 DEF Written

(* A step of the job that writes nothing. *)
LEMMA QuietWritten ==
  ASSUME CalendarBounds, Base, Written, JobKeeps, UNCHANGED <<ref, torn>>, SameCounts,
         ~ Writing, ~ Writing',
         \/ job' = NoJob
         \/ SameStatus /\ (Mine.action = "delete" => job.pc # "idle" /\ job'.left = job.left),
         Mine.action = "delete" => ~ HeadBecomes("done") /\ ~ HeadBecomes("skipped")
  PROVE  Written'
<1>1. Claims'
  BY DEF Written, Claims, Whole
<1>2. Once'
  BY DEF Written, Once, MayStand, JobKeeps, SameCounts, Writing
<1>3. line \in Seq(Row) /\ AnyPending /\ Steady
  BY DEF Base, TypeOK, JobKeeps
<1>4. Clearing'
  <2>1. CASE job' = NoJob
    BY <2>1 DEF NoJob, Clearing
  <2>2. CASE SameStatus /\ (Mine.action = "delete" => job.pc # "idle" /\ job'.left = job.left)
    <3>1. Mine'.action = Mine.action
      BY <1>3, <2>2, HeadStays
    <3> QED
      BY <2>2, <3>1 DEF Written, Clearing, SameCounts, Whole
  <2> QED
    BY <2>1, <2>2
<1>5. Cleared'
  <2>1. \A i \in Rows : line'[i].action = line[i].action
    BY <1>3 DEF Steady
  <2>2. Rows' = Rows
    BY <1>3 DEF Steady, Rows
  <2>3. \A i \in Rows : line[i].action = "delete" =>
           line'[i].status = line[i].status \/ line'[i].status \notin {"done", "skipped"}
    <3>1. CASE SameStatus
      BY <3>1 DEF SameStatus
    <3>2. ASSUME NEW s \in {"pending", "done", "failed", "skipped"}, HeadBecomes(s)
          PROVE  \A i \in Rows : line[i].action = "delete" =>
                   line'[i].status = line[i].status \/ line'[i].status \notin {"done", "skipped"}
      <4>1. h \in Rows /\ Mine = line[h]
        BY <1>3, HeadFacts
      <4> QED
        BY <3>2, <4>1 DEF HeadBecomes
    <3> QED
      BY <3>1, <3>2 DEF JobKeeps
  <2> QED
    BY <2>1, <2>2, <2>3 DEF Written, Cleared, SameCounts, Whole
<1> QED
  BY <1>1, <1>2, <1>4, <1>5 DEF Written

LEMMA BeginWritten ==
  ASSUME CalendarBounds, Base, Written, Begin
  PROVE  Written'
<1>1. /\ AnyPending /\ line \in Seq(Row) /\ job.pc = "idle" /\ JobKeeps
      /\ UNCHANGED <<ref, torn, event>> /\ SameCounts
  BY JobStepKeeps DEF Begin, Base, TypeOK, SameCounts, JobStep
<1>2. CASE TooLate
  <2>1. job' = NoJob /\ HeadBecomes("skipped") /\ Mine.action # "delete"
    BY <1>1, <1>2, EndKeeps DEF Begin, TooLate
  <2> QED
    BY <1>1, <2>1, QuietWritten DEF Writing, NoJob
<1>3. CASE ~ TooLate
  <2>1. /\ line' = line /\ job'.pc \in {"reinvite", "decide"} /\ job'.left = Work
    BY <1>3 DEF Begin
  <2>2. Steady /\ SameStatus /\ h' = h /\ Mine' = Mine
    BY <1>1, <2>1, SameLine
  <2>3. Claims' /\ Once'
    BY <1>1, <2>1 DEF Written, Claims, Once, MayStand, Writing, Whole, JobKeeps
  <2>4. Clearing'
    <3>1. ASSUME Whole, Mine.action = "delete", NEW d \in Destinations, d \notin Filled
          PROVE  event[d].n = 0
      <4>1. ref[d] # "filled" /\ ref[d] \in {"free", "claimed", "filled"}
        BY <3>1 DEF Filled, Base, TypeOK
      <4>2. ref[d] # "claimed"
        BY <1>1, <3>1 DEF Written, Claims, Writing
      <4> QED
        BY <1>1, <3>1, <4>1, <4>2 DEF Written, Once, MayStand, Whole
    <3>2. Mine.action = "delete" => Work = Filled
      BY DEF Work
    <3> QED
      BY <1>1, <2>1, <2>2, <3>1, <3>2 DEF Clearing, Whole
  <2>5. Cleared'
    BY <1>1, <2>1 DEF Written, Cleared, Whole, Rows
  <2> QED
    BY <2>3, <2>4, <2>5 DEF Written
<1> QED
  BY <1>2, <1>3

(* A failed attempt that wrote nothing. *)
LEMMA FailWritten ==
  ASSUME CalendarBounds, Base, Written, job.pc # "idle", FailRow(Mine), ~ Writing,
         UNCHANGED <<booking, change, ref, event, torn>>
  PROVE  Written'
<1>1. JobKeeps /\ job' = NoJob /\ (HeadBecomes("pending") \/ HeadBecomes("failed"))
  BY FailKeeps
<1>2. ~ HeadBecomes("done") /\ ~ HeadBecomes("skipped")
  BY <1>1 DEF HeadBecomes
<1>3. SameCounts /\ ~ Writing'
  BY <1>1 DEF SameCounts, Writing, NoJob
<1> QED
  BY <1>1, <1>2, <1>3, QuietWritten

(* A step of the attempt on its way, that leaves the counts. *)
LEMMA OnWritten ==
  ASSUME CalendarBounds, Base, Written, job.pc # "idle", JobKeeps, SameStatus, UNCHANGED <<ref, torn>>,
         SameCounts, ~ Writing, ~ Writing', Mine.action = "delete" => job'.left = job.left
  PROVE  Written'
<1>1. h \in Rows /\ Mine = line[h] /\ Mine.status = "pending"
  BY MineFacts
<1>2. ~ HeadBecomes("done") /\ ~ HeadBecomes("skipped")
  BY <1>1 DEF HeadBecomes, SameStatus
<1> QED
  BY <1>2, QuietWritten

LEMMA DecisionsWritten ==
  ASSUME CalendarBounds, Base, Written, Decide \/ DecideRemoval \/ Mark \/ TakenOff
  PROVE  Written'
<1>1. /\ AnyPending /\ job \in Job /\ job.pc \in {"decide", "mark", "takenoff"} /\ JobKeeps
      /\ UNCHANGED <<ref, torn, event>> /\ SameCounts /\ ~ Writing
  BY JobStepKeeps, MineFacts DEF Decide, DecideRemoval, Mark, TakenOff, SameCounts, JobStep, Writing
<1>2. Act \in {"remove", "move", "claim"}
  BY DEF Act
<1>3. ASSUME NEW invite \in BOOLEAN, NEW pc \in {Act, "mark"}, Decided(invite, pc), line' = line
      PROVE  Written'
  <2>1. pc \in {"remove", "move", "claim", "mark"}
    BY <1>2
  <2>2. job'.pc = pc /\ job'.left = job.left
    BY <1>1, <1>3, <2>1, DecidedRecord DEF JobPcs
  <2>3. SameStatus
    BY <1>3 DEF SameStatus
  <2> QED
    BY <1>1, <2>1, <2>2, <2>3, OnWritten DEF Writing
<1>4. CASE Decide
  <2>1. line' = line
    BY <1>4 DEF Decide
  <2>2. PICK invite \in BOOLEAN, pc \in {Act, "mark"} : Decided(invite, pc)
    BY <1>4 DEF Decide
  <2> QED
    BY <1>3, <2>1, <2>2
<1>5. CASE DecideRemoval
  <2>1. CASE StillWaits /\ FailRow([Mine EXCEPT !.looks = @ + 1])
    <3>1. job' = NoJob /\ (HeadBecomes("pending") \/ HeadBecomes("failed"))
      BY <1>1, <1>5, <2>1, LookKeeps DEF JobKeeps
    <3>2. ~ HeadBecomes("done") /\ ~ HeadBecomes("skipped") /\ ~ Writing'
      BY <3>1 DEF HeadBecomes, Writing, NoJob
    <3> QED
      BY <1>1, <3>1, <3>2, QuietWritten
  <2>2. CASE line' = line /\ \E invite \in BOOLEAN, pc \in {Act, "mark"} : Decided(invite, pc)
    <3>1. PICK invite \in BOOLEAN, pc \in {Act, "mark"} : Decided(invite, pc)
      BY <2>2
    <3> QED
      BY <1>3, <2>2, <3>1
  <2> QED
    BY <1>5, <2>1, <2>2 DEF DecideRemoval
<1>6. ASSUME NEW pc \in {"remove", "move", "claim", "putback"}, job' = [job EXCEPT !.pc = pc], SameStatus
      PROVE  Written'
  <2>1. job'.pc = pc /\ job'.left = job.left
    BY <1>1, <1>6, JobRecord DEF JobPcs
  <2> QED
    BY <1>1, <1>6, <2>1, OnWritten DEF Writing
<1>7. CASE Mark
  BY <1>2, <1>6, <1>7, MarkKeeps DEF Mark
<1>8. CASE TakenOff
  BY <1>6, <1>8, TakenOffKeeps DEF TakenOff
<1> QED
  BY <1>4, <1>5, <1>7, <1>8

LEMMA ClaimWritten ==
  ASSUME CalendarBounds, Base, Written, Claim
  PROVE  Written'
<1>1. /\ AnyPending /\ job \in Job /\ job.pc = "claim" /\ job.left # {} /\ line' = line
      /\ Mine.action # "delete" /\ UNCHANGED <<booking, change, torn, event>> /\ d1 \in Destinations
  BY MineFacts, NextDest DEF Claim, Base, PcFits, FitsJob
<1>2. JobKeeps /\ SameStatus /\ SameCounts /\ ~ Writing /\ h' = h /\ Mine' = Mine
  BY <1>1, StayKeeps, SameLine DEF SameCounts, Writing, Base, TypeOK
<1>3. CASE MayClaim(d1)
  <2>1. ref' = [ref EXCEPT ![d1] = "claimed"] /\ job' = [job EXCEPT !.pc = "create"] /\ ref[d1] = "free"
    BY <1>3 DEF Claim, MayClaim
  <2>2. job'.pc = "create" /\ job'.left = job.left
    BY <1>1, <2>1, JobRecord DEF JobPcs
  <2>3. d1' = d1 /\ Writing'
    BY <2>2 DEF d1, Writing
  <2>4. PICK d \in Destinations : d = d1
    BY <1>1
  <2>5. ref'[d] = "claimed" /\ \A e \in Destinations : e # d => ref'[e] = ref[e]
    BY <2>1, <2>4 DEF Base, TypeOK
  <2>6. Claims'
    BY <1>1, <1>2, <2>3, <2>4, <2>5 DEF Written, Claims, Whole
  <2>7. Once'
    BY <1>1, <1>2, <2>1, <2>3, <2>4, <2>5 DEF Written, Once, MayStand
  <2>8. Clearing' /\ Cleared'
    BY <1>1, <1>2 DEF Written, Clearing, Cleared, Whole, Rows
  <2> QED
    BY <2>6, <2>7, <2>8 DEF Written
<1>4. CASE ~ MayClaim(d1)
  <2>1. ref' = ref /\ job' = Rest
    BY <1>4 DEF Claim
  <2>2. job'.pc = "claim"
    BY <1>1, <2>1, RestSteps
  <2> QED
    BY <1>1, <1>2, <2>1, <2>2, OnWritten DEF Writing
<1> QED
  BY <1>3, <1>4

(* What releasing a claim leaves. *)
LEMMA ReleaseSteps ==
  ASSUME CalendarBounds, Base, Written, job.pc = "create", Release, UNCHANGED <<booking, change>>
  PROVE  /\ d1 \in Destinations /\ ref'[d1] = "free" /\ ref[d1] = "claimed"
         /\ \A d \in Destinations : d # d1 => ref'[d] = ref[d]
         /\ JobKeeps /\ job' = NoJob /\ job'.pc = "idle" /\ AnyPending /\ ~ Writing'
         /\ HeadBecomes("pending") \/ HeadBecomes("failed")
<1>1. d1 \in Destinations /\ AnyPending
  BY NextDest, MineFacts DEF Base, AtDest
<1>2. ref' = [ref EXCEPT ![d1] = "free"] /\ FailRow(Mine) /\ ref \in [Destinations -> {"free", "claimed", "filled"}]
  BY DEF Release, Base, TypeOK
<1>3. JobKeeps /\ job' = NoJob /\ (HeadBecomes("pending") \/ HeadBecomes("failed"))
  BY <1>2, FailKeeps
<1>4. job'.pc = "idle" /\ ~ Writing'
  BY <1>3 DEF NoJob, Writing
<1> QED
  BY <1>1, <1>2, <1>3, <1>4 DEF Written, Claims, Writing

(* The rows of a removal, where one that is not a removal goes on or fails. *)
LEMMA OtherCleared ==
  ASSUME CalendarBounds, Base, Written, JobKeeps, Mine.action # "delete",
         Whole' => Whole /\ \A i \in Rows : line[i].action = "delete" => line[i].status # "done"
  PROVE  Cleared'
<1>1. h \in Rows /\ Mine = line[h] /\ Rows' = Rows /\ \A i \in Rows : line'[i].action = line[i].action
  BY HeadFacts DEF JobKeeps, Base, TypeOK, Steady, Rows
<1>2. \A i \in Rows : line[i].action = "delete" => line'[i].status = line[i].status
  BY <1>1 DEF JobKeeps, SameStatus, HeadBecomes
<1> QED
  BY <1>1, <1>2 DEF Cleared, Written

(* A removal is the last row: while another waits it is not done. *)
LEMMA RemovalWaits ==
  ASSUME CalendarBounds, Base, AnyPending
  PROVE  \A i \in Rows : line[i].action = "delete" => line[i].status = "pending"
<1>1. h \in Rows /\ line[h].status = "pending" /\ Rows = 1 .. Len(line) /\ Len(line) \in Nat
  BY HeadFacts, LineDomain DEF Base, TypeOK
<1>2. \A i \in Rows : line[i].action = "delete" => i = Len(line)
  BY DEF Base, DeleteLast
<1>3. \A i \in Rows : i = Len(line) => h <= i
  BY <1>1
<1>4. \A i \in Rows : h < i => line[i].status = "pending"
  BY <1>1 DEF Base, InTurn
<1> QED
  BY <1>1, <1>2, <1>3, <1>4

LEMMA CreateEventWritten ==
  ASSUME CalendarBounds, Base, Written, CreateEvent
  PROVE  Written'
<1>1. /\ AnyPending /\ job \in Job /\ job.pc = "create" /\ job.left # {}
      /\ Mine.action # "delete" /\ UNCHANGED <<booking, change>> /\ d1 \in Destinations
      /\ Writing /\ ref[d1] = "claimed"
  BY MineFacts, NextDest DEF CreateEvent, Base, PcFits, FitsJob, AtDest, Written, Claims, Writing
<1>2. \A i \in Rows : line[i].action = "delete" => line[i].status = "pending"
  BY <1>1, RemovalWaits
<1>3. PICK d \in Destinations : d = d1
  BY <1>1
<1>4. event \in [Destinations -> EventType]
  BY DEF Base, TypeOK, EventType
<1>5. ASSUME Created, job' = [job EXCEPT !.pc = "fill"], UNCHANGED <<line, ref, torn, faults>>
      PROVE  Written'
  <2>1. job'.pc = "fill" /\ job'.left = job.left
    BY <1>1, <1>5, JobRecord DEF JobPcs
  <2>2. d1' = d1 /\ Writing'
    BY <2>1 DEF d1, Writing
  <2>3. JobKeeps /\ h' = h /\ Mine' = Mine
    BY <1>1, <1>5, StayKeeps, SameLine DEF Base, TypeOK
  <2>4. event'[d].n = event[d].n + 1 /\ \A e \in Destinations : e # d => event'[e] = event[e]
    BY <1>1, <1>3, <1>5, CreatedSteps
  <2>5. Claims'
    BY <1>1, <1>5, <2>1, <2>2 DEF Written, Claims, Whole
  <2>6. Once'
    BY <1>1, <1>3, <1>4, <1>5, <2>1, <2>2, <2>3, <2>4 DEF Written, Once, MayStand, JobKeeps, EventType
  <2>7. Clearing'
    BY <1>1, <2>3 DEF Clearing
  <2>8. Cleared'
    BY <1>1, <1>2, <1>5, <2>3, OtherCleared DEF Whole
  <2> QED
    BY <2>5, <2>6, <2>7, <2>8 DEF Written
<1>6. ASSUME Release, UNCHANGED <<event, torn>> \/ torn' = "event"
      PROVE  Written'
  <2>1. /\ ref'[d] = "free" /\ ref[d] = "claimed"
        /\ \A e \in Destinations : e # d => ref'[e] = ref[e]
        /\ JobKeeps /\ job' = NoJob /\ job'.pc = "idle" /\ ~ Writing'
    BY <1>1, <1>3, <1>6, ReleaseSteps
  <2>2. Claims'
    BY <1>1, <1>3, <1>6, <2>1 DEF Written, Claims, Whole
  <2>3. Once'
    BY <1>1, <1>3, <1>6, <2>1 DEF Written, Once, MayStand
  <2>4. Clearing'
    BY <2>1 DEF Clearing
  <2>5. Cleared'
    BY <1>1, <1>2, <1>6, <2>1, OtherCleared DEF Whole
  <2> QED
    BY <2>2, <2>3, <2>4, <2>5 DEF Written
<1> QED
  BY <1>5, <1>6 DEF CreateEvent

LEMMA FillWritten ==
  ASSUME CalendarBounds, Base, Written, Fill
  PROVE  Written'
<1>1. /\ AnyPending /\ job.pc = "fill" /\ line' = line /\ Mine.action # "delete"
      /\ UNCHANGED <<booking, change, torn, event>> /\ d1 \in Destinations /\ Writing
      /\ ref' = [ref EXCEPT ![d1] = "filled"] /\ job' = Rest
  BY MineFacts, NextDest DEF Fill, Base, PcFits, FitsJob, AtDest, Writing
<1>2. JobKeeps /\ h' = h /\ Mine' = Mine
  BY <1>1, StayKeeps, SameLine DEF Base, TypeOK
<1>3. job'.pc = "claim" /\ ~ Writing'
  BY <1>1, RestSteps DEF Writing
<1>4. PICK d \in Destinations : d = d1
  BY <1>1
<1>5. ref'[d] = "filled" /\ \A e \in Destinations : e # d => ref'[e] = ref[e]
  BY <1>1, <1>4 DEF Base, TypeOK
<1>6. Claims'
  BY <1>1, <1>3, <1>4, <1>5 DEF Written, Claims, Whole
<1>7. Once'
  BY <1>1, <1>2, <1>3, <1>4, <1>5 DEF Written, Once, MayStand
<1>8. Clearing' /\ Cleared'
  BY <1>1, <1>2 DEF Written, Clearing, Cleared, Whole, Rows
<1> QED
  BY <1>6, <1>7, <1>8 DEF Written

LEMMA UpdateEventWritten ==
  ASSUME CalendarBounds, Base, Written, UpdateEvent
  PROVE  Written'
<1>1. /\ AnyPending /\ job.pc = "move" /\ job.left # {} /\ Mine.action # "delete"
      /\ UNCHANGED <<booking, change, ref, torn>> /\ ~ Writing
  BY MineFacts DEF UpdateEvent, Base, PcFits, FitsJob, Writing
<1>2. CASE FailRow(Mine) /\ event' = event
  BY <1>1, <1>2, FailWritten
<1>3. ASSUME event' = [event EXCEPT ![d1].time = job.time, ![d1].guest = TRUE], job' = Rest, line' = line
      PROVE  Written'
  <2>1. SameCounts
    BY <1>1, <1>3, UpdateSteps DEF SameCounts
  <2>2. job'.pc = "move"
    BY <1>1, <1>3, RestSteps
  <2> QED
    BY <1>1, <1>3, <2>1, <2>2, StayKeeps, OnWritten DEF Writing
<1> QED
  BY <1>2, <1>3 DEF UpdateEvent

LEMMA DeleteEventWritten ==
  ASSUME CalendarBounds, Base, Written, DeleteEvent
  PROVE  Written'
<1>1. /\ AnyPending /\ job.pc = "remove" /\ job.left # {} /\ Mine.action = "delete" /\ d1 \in Destinations
      /\ UNCHANGED <<booking, change, ref, torn>> /\ ~ Writing
  BY MineFacts, NextDest DEF DeleteEvent, Base, PcFits, FitsJob, Writing
<1>2. CASE FailRow(Mine) /\ event' = event
  BY <1>1, <1>2, FailWritten
<1>3. ASSUME event' = [event EXCEPT ![d1].n = IF @ = 0 THEN 0 ELSE @ - 1], job' = Rest, line' = line
      PROVE  Written'
  <2>1. PICK d \in Destinations : d = d1
    BY <1>1
  <2>2. /\ event'[d].n = (IF event[d].n = 0 THEN 0 ELSE event[d].n - 1)
        /\ \A e \in Destinations : e # d => event'[e] = event[e]
    BY <1>1, <1>3, <2>1, DeleteSteps
  <2>3. job'.pc = "remove" /\ job'.left = job.left \ {d}
    BY <1>1, <1>3, <2>1, RestSteps
  <2>4. JobKeeps /\ h' = h /\ Mine' = Mine
    BY <1>1, <1>3, StayKeeps, SameLine DEF Base, TypeOK
  <2>5. event[d].n \in Nat
    BY DEF Base, TypeOK
  <2>6. Claims'
    BY <1>1, <2>3 DEF Written, Claims, Writing, Whole
  <2>7. \A e \in Destinations : event[e].n <= 1 => event'[e].n <= 1
    BY <2>2, <2>5
  <2>8. \A e \in Destinations : event[e].n = 0 => event'[e].n = 0
    BY <2>2
  <2>9. Once'
    BY <1>1, <2>3, <2>4, <2>7, <2>8 DEF Written, Once, MayStand, JobKeeps
  <2>10. event[d].n <= 1 => event'[d].n = 0
    BY <2>2, <2>5
  <2>11. Clearing'
    BY <1>1, <2>3, <2>4, <2>8, <2>10 DEF Written, Once, Clearing, Whole
  <2>12. Cleared'
    BY <1>1, <1>3, <2>8 DEF Written, Cleared, Whole, Rows
  <2> QED
    BY <2>6, <2>9, <2>11, <2>12 DEF Written
<1> QED
  BY <1>2, <1>3 DEF DeleteEvent

LEMMA FinishWritten ==
  ASSUME CalendarBounds, Base, Written, EndJob
  PROVE  Written'
<1>1. /\ AnyPending /\ job.pc \in {"claim", "move", "remove"} /\ job.left = {} /\ EndRow("done")
      /\ UNCHANGED <<booking, change, torn, event>> /\ ~ Writing /\ job.pc # "idle"
  BY MineFacts DEF EndJob, Writing
<1>2. JobKeeps /\ job' = NoJob /\ HeadBecomes("done")
  BY <1>1, EndKeeps
<1>3. ~ Writing' /\ SameCounts /\ job'.pc = "idle"
  BY <1>1, <1>2 DEF Writing, NoJob, SameCounts
<1>4. CASE job.pc # "remove"
  <2>1. ref' = ref
    BY <1>4 DEF EndJob
  <2>2. Mine.action # "delete"
    BY <1>1, <1>4 DEF Base, PcFits, FitsJob
  <2> QED
    BY <1>1, <1>2, <1>3, <2>1, <2>2, QuietWritten
<1>5. CASE job.pc = "remove"
  <2>1. ref' = [d \in Destinations |-> "free"] /\ Mine.action = "delete"
    BY <1>5 DEF EndJob, Base, PcFits, FitsJob
  <2>2. Whole => \A d \in Destinations : event[d].n = 0
    BY <1>1, <2>1 DEF Written, Clearing
  <2>3. Claims'
    BY <1>3, <2>1 DEF Claims
  <2>4. booking'.status # "accepted" /\ ~ AnyPending'
    <3>1. h \in Rows /\ line[h].action = "delete" /\ Rows = 1 .. Len(line) /\ Len(line) \in Nat
      BY <1>1, <2>1, MineFacts, LineDomain
    <3>2. h = Len(line) /\ booking.status = Cancelled
      BY <3>1 DEF Base, DeleteLast
    <3>3. \A i \in Rows : i # h => line[i].status # "pending"
      BY <3>1, <3>2, HeadFacts, MineFacts, <1>1
    <3>4. \A i \in DOMAIN line' : line'[i].status # "pending"
      BY <1>2, <3>3 DEF HeadBecomes, JobKeeps, Steady, Rows
    <3> QED
      BY <1>1, <3>2, <3>4, HeadIs DEF Cancelled
  <2>5. Once'
    BY <1>1, <1>3, <2>4 DEF Written, Once, MayStand
  <2>6. Clearing'
    BY <1>3 DEF Clearing
  <2>7. Cleared'
    <3>1. Rows' = Rows /\ \A i \in Rows : line'[i].action = line[i].action
      BY <1>2 DEF JobKeeps, Steady, Rows
    <3>2. \A i \in Rows : line'[i].status # "skipped" \/ line[i].status = "skipped"
      BY <1>2 DEF HeadBecomes
    <3> QED
      BY <1>1, <2>2, <3>1, <3>2 DEF Written, Cleared, Whole
  <2> QED
    BY <2>3, <2>5, <2>6, <2>7 DEF Written
<1> QED
  BY <1>4, <1>5

LEMMA ReinvitesWritten ==
  ASSUME CalendarBounds, Base, Written, ReinviteLooks \/ TakeOff \/ PutBack \/ Reinvited
  PROVE  Written'
<1>1. /\ AnyPending /\ job \in Job /\ job.pc \in {"reinvite", "takeoff", "putback", "reinvited"}
      /\ Mine.action = "reinvite" /\ ~ Writing
      /\ UNCHANGED <<booking, change, ref, torn>>
  BY MineFacts DEF ReinviteLooks, TakeOff, PutBack, Reinvited, Base, PcFits, FitsJob, ReinvitePcs, Writing
<1>2. JobKeeps
  BY JobStepKeeps DEF JobStep
<1>3. ASSUME FailRow(Mine), event' = event
      PROVE  Written'
  BY <1>1, <1>3, FailWritten
<1>4. ASSUME job' = NoJob, event' = event
      PROVE  Written'
  BY <1>1, <1>2, <1>4, QuietWritten DEF Writing, NoJob, SameCounts
<1>5. ASSUME line' = line, job'.pc \in ReinvitePcs, SameCounts
      PROVE  Written'
  BY <1>1, <1>2, <1>5, OnWritten DEF Writing, ReinvitePcs, SameStatus
<1>6. CASE ReinviteLooks
  <2>1. event' = event /\ SameCounts
    BY <1>6 DEF ReinviteLooks, SameCounts
  <2>2. CASE EndRow("done")
    BY <1>4, <2>1, <2>2 DEF EndRow
  <2>3. CASE ~ EndRow("done") /\ ~ FailRow(Mine)
    <3>1. line' = line
      BY <1>6, <2>3 DEF ReinviteLooks
    <3>2. job'.pc \in ReinvitePcs
      BY <1>6, <2>3, ReinviteLooksSteps DEF ReinviteLooks, ReinvitePcs
    <3> QED
      BY <1>5, <2>1, <3>1, <3>2
  <2> QED
    BY <1>3, <2>1, <2>2, <2>3
<1>7. CASE TakeOff
  <2>1. ASSUME event' = [event EXCEPT ![d1].guest = FALSE, ![d1].time = job.time],
               job' = [job EXCEPT !.pc = "takenoff"], line' = line
        PROVE  Written'
    <3>1. SameCounts
      BY <1>7, <2>1, TakeOffSteps DEF SameCounts, TakeOff
    <3>2. job'.pc = "takenoff"
      BY <1>1, <2>1, JobRecord DEF JobPcs
    <3> QED
      BY <1>5, <2>1, <3>1, <3>2 DEF ReinvitePcs
  <2> QED
    BY <1>3, <1>7, <2>1 DEF TakeOff
<1>8. CASE PutBack
  <2>1. ASSUME event' = [event EXCEPT ![d1].guest = TRUE, ![d1].time = job.time],
               job' = [job EXCEPT !.pc = "reinvited"], line' = line
        PROVE  Written'
    <3>1. job.pc = "putback" /\ job.left # {}
      BY <1>8 DEF PutBack, Base, AtDest
    <3>2. event' = [event EXCEPT ![d1].time = job.time, ![d1].guest = TRUE]
      BY <2>1
    <3>3. SameCounts
      BY <3>1, <3>2, UpdateSteps DEF SameCounts
    <3>4. job'.pc = "reinvited"
      BY <1>1, <2>1, JobRecord DEF JobPcs
    <3> QED
      BY <1>5, <2>1, <3>3, <3>4 DEF ReinvitePcs
  <2> QED
    BY <1>3, <1>8, <2>1 DEF PutBack
<1>9. CASE Reinvited
  BY <1>4, <1>9 DEF Reinvited
<1> QED
  BY <1>6, <1>7, <1>8, <1>9

LEMMA JobDiesWritten ==
  ASSUME CalendarBounds, Base, Written, JobDies
  PROVE  Written'
<1>1. /\ AnyPending /\ job' = NoJob /\ line' = line /\ UNCHANGED <<booking, ref, event>>
      /\ torn' = IF Whole /\ Writing THEN "claim" ELSE torn
  BY MineFacts DEF JobDies, Whole, Writing
<1>2. job'.pc = "idle" /\ ~ Writing'
  BY <1>1 DEF NoJob, Writing
<1>3. Claims'
  BY <1>1, <1>2 DEF Written, Claims, Whole
<1>4. Once'
  BY <1>1, <1>2 DEF Written, Once, MayStand, Whole
<1>5. Clearing' /\ Cleared'
  BY <1>1, <1>2 DEF Written, Clearing, Cleared, Whole, Rows
<1> QED
  BY <1>3, <1>4, <1>5 DEF Written

LEMMA WrittenStep ==
  ASSUME CalendarBounds, Base, Written, [Next]_vars
  PROVE  Written'
<1>1. CASE UNCHANGED vars \/ Accept \/ Move \/ Cancel
           \/ \E c \in DOMAIN change : RequestStep(c) \/ MailStep(c)
  <2>1. UNCHANGED <<ref, event, torn>>
    BY <1>1 DEF Accept, Move, Cancel, Changed, RequestStep, MailStep, QueueMail, Tag, SendMail,
       MailAnswer, MailEnds, AfterGaveUp, vars
  <2> QED
    BY <1>1, <2>1, AsideWritten
<1>2. CASE JobStep
  BY <1>2, BeginWritten, DecisionsWritten, ClaimWritten, CreateEventWritten, FillWritten,
     UpdateEventWritten, DeleteEventWritten, FinishWritten, ReinvitesWritten DEF JobStep
<1> QED
  BY <1>1, <1>2, JobDiesWritten DEF Next

(* Base and Written of every state that is reached. *)
THEOREM CalendarWrittenKept == ASSUME CalendarBounds PROVE Spec => [](Base /\ Written)
<1>1. Init => Base /\ Written
  BY InitBase, InitWritten
<1>2. Base /\ Written /\ [Next]_vars => Base' /\ Written'
  BY BaseStep, WrittenStep
<1> QED
  BY <1>1, <1>2, PTL DEF Spec

(* A cancelled booking leaves no event behind: its removal is the last row *)
(* of the line, starts from the references that are filled, and every      *)
(* event written by then is under one of them.                             *)
THEOREM CalendarCleared == ASSUME CalendarBounds PROVE Spec => []OffTheCalendar
<1>1. Base /\ Written => OffTheCalendar
  <2> SUFFICES ASSUME Base, Written, AtRest, booking.status = Cancelled, torn = "nothing",
                      \A i \in DOMAIN line : line[i].action = "delete" => line[i].status # "failed",
                      NEW d \in Destinations
               PROVE  event[d].n = 0
    BY DEF OffTheCalendar
  <2>1. Rows = 1 .. Len(line) /\ Len(line) \in Nat /\ Len(line) # 0 /\ \A i \in Rows : line[i] \in Row
    BY LineDomain DEF Base, TypeOK, AtRest
  <2>2. PICK i \in Rows : i = Len(line)
    BY <2>1
  <2>3. line[i].action = "delete"
    BY <2>2 DEF Base, DeleteLast
  <2>4. line[i].status \notin {"pending", "failed", "skipped"}
    BY <2>3 DEF AtRest, AnyPending, Pending, Written, Cleared, Rows
  <2>5. line[i].status = "done"
    BY <2>1, <2>4 DEF Row
  <2> QED
    BY <2>3, <2>5 DEF Written, Cleared, Whole
<1> QED
  BY <1>1, CalendarWrittenKept, PTL

-----------------------------------------------------------------------------
(* A mail marks one row of its change, and one reinvite.                   *)

Closed(c) == c \in DOMAIN change /\ change[c].todo = "nothing"
MarksClosed == \A i \in Rows : line[i].mail > 0 => Closed(line[i].mail)
OneMark ==
    \A i, j \in Rows :
        /\ line[i].mail > 0 /\ line[j].mail = line[i].mail
        /\ line[i].action = "reinvite" <=> line[j].action = "reinvite"
        => i = j
Marks == MarksClosed /\ OneMark

(* A step that is not the job's. *)
Aside ==
    \/ UNCHANGED vars \/ Accept \/ Move \/ Cancel
    \/ \E c \in DOMAIN change : RequestStep(c) \/ MailStep(c)

(* What such a step does: it may append one row, and mark one. *)
LEMMA AsideRows ==
  ASSUME CalendarBounds, Base, Aside
  PROVE  /\ job' = job /\ UNCHANGED <<ref, event, torn>>
         /\ \A i \in Rows :
              /\ line'[i].status = line[i].status /\ line'[i].action = line[i].action
              /\ line'[i].muted = line[i].muted
              /\ line'[i].removed = line[i].removed /\ line'[i].reinvited = line[i].reinvited
         /\ \/ Rows' = Rows /\ booking' = booking
            \/ /\ Rows' = Rows \cup {Len(line) + 1} /\ Len(line) + 1 \notin Rows
               /\ booking.status = "accepted"
               /\ \A i \in Rows : line'[i] = line[i] /\ i < Len(line) + 1
               /\ \/ \E c \in DOMAIN change :
                       /\ line'[Len(line) + 1] = NewRow("reinvite", c) /\ booking' = booking
                       /\ AfterGaveUp(c) /\ c \in Changes /\ line # <<>>
                       /\ \E i \in MarkedBy(c) : line[i].action # "delete"
                       /\ ReinviteFor(c) = {}
                  \/ /\ \E a \in {"create", "reschedule", "delete"} : line'[Len(line) + 1] = NewRow(a, 0)
                     /\ Accept \/ Move \/ Cancel
                     /\ line # <<>> \/ booking' = booking
<1>1. line \in Seq(Row)
  BY DEF Base, TypeOK
<1>2. job' = job /\ UNCHANGED <<ref, event, torn>>
  <2>1. ASSUME NEW c \in DOMAIN change, RequestStep(c) \/ MailStep(c)
        PROVE  job' = job /\ UNCHANGED <<ref, event, torn>>
    BY <2>1 DEF RequestStep, MailStep, QueueMail, Tag, SendMail, MailAnswer, AfterGaveUp, MailEnds
  <2> QED
    BY <2>1, ChangesKeep DEF Aside, vars
<1> DEFINE n == Len(line) + 1
<1>3. CASE Accept \/ Move \/ Cancel
  <2>1. booking.status = "accepted" /\ (line # <<>> \/ booking' = booking)
    BY <1>3 DEF Accept, Move, Cancel, Changed, Base, Begun
  <2>2. /\ DOMAIN line' = Rows \cup {n} /\ n \notin Rows
        /\ \A i \in Rows : line'[i] = line[i] /\ i < n
        /\ \E a \in {"create", "reschedule", "delete"} : line'[n] = NewRow(a, 0)
    BY <1>3, ChangesKeep
  <2> QED
    BY <1>2, <1>3, <2>1, <2>2 DEF Rows
<1>4. ASSUME NEW c \in DOMAIN change, AfterGaveUp(c), line' # line
      PROVE  /\ Rows' = Rows \cup {n} /\ n \notin Rows /\ booking.status = "accepted"
             /\ \A i \in Rows : line'[i] = line[i] /\ i < n
             /\ line'[n] = NewRow("reinvite", c) /\ booking' = booking /\ c \in Changes /\ line # <<>>
             /\ \E i \in MarkedBy(c) : line[i].action # "delete"
             /\ ReinviteFor(c) = {}
  <2>1. /\ c \in 0 .. MaxChanges /\ line' = Append(line, NewRow("reinvite", c)) /\ c \in Changes
        /\ booking.status = "accepted" /\ booking' = booking /\ line # <<>>
        /\ \E i \in MarkedBy(c) : line[i].action # "delete"
        /\ ReinviteFor(c) = {}
    BY <1>4, GaveUpSteps
  <2>2. /\ DOMAIN line' = Rows \cup {n} /\ n \notin Rows
        /\ \A i \in Rows : line'[i] = line[i] /\ i < n
        /\ line'[n] = NewRow("reinvite", c)
    BY <2>1, AppendKeeps
  <2> QED
    BY <2>1, <2>2 DEF Rows
<1>5. ASSUME NEW c \in DOMAIN change, Tag(c)
      PROVE  /\ Rows' = Rows /\ booking' = booking
             /\ \A i \in Rows :
                  /\ line'[i].status = line[i].status /\ line'[i].action = line[i].action
                  /\ line'[i].muted = line[i].muted
                  /\ line'[i].removed = line[i].removed /\ line'[i].reinvited = line[i].reinvited
  BY <1>5, TagSteps DEF Steady, SameStatus, SameMuted, SameRedo, Rows
<1>6. CASE line' = line /\ booking' = booking
  BY <1>2, <1>6 DEF Rows
<1>7. ASSUME NEW c \in DOMAIN change, QueueMail(c) \/ SendMail(c) \/ MailAnswer(c) \/ MailEnds(c) \/ AfterGaveUp(c)
      PROVE  booking' = booking /\ (line' = line \/ AfterGaveUp(c))
  BY <1>7 DEF QueueMail, SendMail, MailAnswer, MailEnds, AfterGaveUp
<1> HIDE DEF n
<1>8. CASE \E c \in DOMAIN change : AfterGaveUp(c) /\ line' # line
  <2>1. PICK c \in DOMAIN change : AfterGaveUp(c) /\ line' # line
    BY <1>8
  <2> QED
    BY <1>2, <1>4, <2>1 DEF n
<1>9. CASE \E c \in DOMAIN change : Tag(c)
  BY <1>2, <1>5, <1>9
<1> QED
  BY <1>3, <1>6, <1>7, <1>8, <1>9 DEF Aside, RequestStep, MailStep, vars

LEMMA InitMarks == ASSUME Init PROVE Marks
BY DEF Init, Marks, MarksClosed, OneMark, Rows

LEMMA MarksStep ==
  ASSUME CalendarBounds, Base, Marks, [Next]_vars
  PROVE  Marks'
<1>1. line \in Seq(Row) /\ RowsKept
  BY RowsKeptStep DEF Base, TypeOK
<1>2. ASSUME NEW c \in DOMAIN change, Tag(c)
      PROVE  Marks'
  <2>1. /\ Steady /\ c \in Changes /\ change[c].todo = "tag" /\ change'[c].todo = "nothing"
        /\ DOMAIN change' = DOMAIN change /\ c \in DOMAIN change
        /\ \A b \in DOMAIN change : b # c => change'[b] = change[b]
        /\ \/ line' = line
           \/ \E i \in Rows : /\ line[i].mail = 0 /\ line'[i].mail = c /\ line[i].action = change[c].action
                               /\ \A j \in Rows : j # i => line'[j] = line[j]
    BY <1>2, TagSteps
  <2>2. \A b : Closed(b) => Closed(b)'
    BY <2>1 DEF Closed
  <2>3. CASE line' = line
    BY <2>2, <2>3 DEF Marks, MarksClosed, OneMark, Rows
  <2>4. ASSUME NEW i \in Rows, line[i].mail = 0, line'[i].mail = c, line[i].action = change[c].action,
               \A j \in Rows : j # i => line'[j] = line[j]
        PROVE  Marks'
    <3>1. line[i].action # "reinvite"
      BY <2>4, ChangeDomain
    <3>2. \A j \in Rows : line[j].mail # c
      BY <2>1 DEF Marks, MarksClosed, Closed, Changes
    <3>3. Rows' = Rows /\ Closed(c)'
      BY <2>1 DEF Steady, Rows, Closed
    <3>4. MarksClosed'
      BY <2>2, <2>4, <3>3 DEF Marks, MarksClosed
    <3>5. \A j \in Rows : line'[j].action = line[j].action
      BY <2>1 DEF Steady
    <3>6. OneMark'
      BY <2>4, <3>2, <3>3, <3>5 DEF Marks, OneMark
    <3> QED
      BY <3>4, <3>6 DEF Marks
  <2> QED
    BY <2>1, <2>3, <2>4
<1>3. ASSUME \A b \in Changes : Closed(b) => Closed(b)', Rows' = Rows,
             \A i \in Rows : line'[i].mail = line[i].mail /\ line'[i].action = line[i].action
      PROVE  Marks'
  <2>1. \A i \in Rows : line[i].mail > 0 => line[i].mail \in Changes
    BY <1>1, LineDomain DEF Row, Changes
  <2>2. MarksClosed'
    BY <1>3, <2>1 DEF Marks, MarksClosed
  <2>3. OneMark'
    BY <1>3 DEF Marks, OneMark
  <2> QED
    BY <2>2, <2>3 DEF Marks
<1>4. CASE JobStep \/ JobDies
  <2>1. JobKeeps
    BY <1>4, JobStepKeeps
  <2> QED
    BY <1>3, <2>1 DEF JobKeeps, Steady, SameMail, Rows, Closed
<1>5. ASSUME NEW c \in DOMAIN change, QueueMail(c)
      PROVE  Marks'
  <2>1. /\ change[c].todo = "mail" /\ line' = line /\ DOMAIN change' = DOMAIN change
        /\ \A b \in DOMAIN change : b # c => change'[b] = change[b]
    BY <1>5, QueueMailEffect
  <2>2. \A b \in Changes : Closed(b) => Closed(b)'
    BY <2>1 DEF Closed
  <2> QED
    BY <1>3, <2>1, <2>2 DEF Rows
<1>6. CASE UNCHANGED vars \/ \E c \in DOMAIN change : SendMail(c) \/ MailAnswer(c) \/ MailEnds(c)
  <2>1. line' = line /\ change' = change
    BY <1>6 DEF SendMail, MailAnswer, MailEnds, vars
  <2> QED
    BY <1>3, <2>1 DEF Rows, Closed
<1>7. CASE Accept \/ Move \/ Cancel
  <2>1. /\ Rows' = Rows \cup {Len(line) + 1} /\ \A i \in Rows : line'[i] = line[i]
        /\ \A c \in DOMAIN change : change'[c] = change[c]
        /\ DOMAIN change' = DOMAIN change \cup {Len(change) + 1}
    BY <1>7, ChangesKeep DEF Rows
  <2>2. line'[Len(line) + 1].mail = 0
    BY <1>7, ChangesKeep DEF NewRow
  <2>3. \A b : Closed(b) => Closed(b)'
    BY <2>1 DEF Closed
  <2>4. MarksClosed'
    BY <2>1, <2>2, <2>3 DEF Marks, MarksClosed
  <2>5. OneMark'
    BY <2>1, <2>2 DEF Marks, OneMark
  <2> QED
    BY <2>4, <2>5 DEF Marks
<1>8. ASSUME NEW c \in DOMAIN change, AfterGaveUp(c)
      PROVE  Marks'
  <2>1. change' = change /\ c \in Changes /\ c \in 0 .. MaxChanges
    BY <1>8, GaveUpSteps
  <2>2. CASE line' = line
    BY <1>3, <2>1, <2>2 DEF Rows, Closed
  <2>3. CASE line' # line
    <3>1. /\ line' = Append(line, NewRow("reinvite", c)) /\ ReinviteFor(c) = {}
          /\ \E i \in MarkedBy(c) : line[i].action # "delete"
      BY <1>8, <2>3, GaveUpSteps
    <3> DEFINE n == Len(line) + 1
    <3>2. /\ Rows' = Rows \cup {n} /\ n \notin Rows /\ \A i \in Rows : line'[i] = line[i]
          /\ line'[n] = NewRow("reinvite", c)
      BY <2>1, <3>1, AppendKeeps DEF Rows
    <3>3. line'[n].mail = c /\ line'[n].action = "reinvite"
      BY <3>2 DEF NewRow
    <3>4. Closed(c)
      BY <2>1, <3>1 DEF Marks, MarksClosed, MarkedBy, Rows, Changes
    <3>5. MarksClosed'
      BY <2>1, <3>2, <3>3, <3>4 DEF Marks, MarksClosed, Closed
    <3>6. \A j \in Rows : ~ (line[j].mail = c /\ line[j].action = "reinvite")
      BY <3>1 DEF ReinviteFor, Rows
    <3> HIDE DEF n
    <3>7. OneMark'
      BY <3>2, <3>3, <3>6 DEF Marks, OneMark
    <3> QED
      BY <3>5, <3>7 DEF Marks
  <2> QED
    BY <2>2, <2>3
<1> QED
  BY <1>2, <1>4, <1>5, <1>6, <1>7, <1>8 DEF Next, RequestStep, MailStep

-----------------------------------------------------------------------------
(* A booking that is on is on each of its calendars once it has been        *)
(* written.                                                                *)

WritePcs == {"decide", "mark", "claim", "create", "fill"}
OtherRefs == \A d \in Destinations : d # d1 => ref'[d] = ref[d]
OtherCounts == \A d \in Destinations : d # d1 => event'[d].n = event[d].n

(* What a step of the job does to the references and the events. *)
RefsStay == ref' = ref /\ SameCounts /\ ~ Writing'
RefClaimed ==
    /\ job.pc = "claim" /\ job.left # {} /\ job'.pc = "create" /\ job'.left = job.left /\ d1' = d1
    /\ ref[d1] = "free" /\ ref'[d1] = "claimed" /\ OtherRefs /\ SameCounts /\ SameStatus
EventWritten ==
    /\ job.pc = "create" /\ job'.pc = "fill" /\ job'.left = job.left /\ d1' = d1
    /\ ref' = ref /\ event'[d1].n = event[d1].n + 1 /\ OtherCounts /\ SameStatus
RefReleased ==
    /\ job.pc = "create" /\ job' = NoJob /\ ref[d1] = "claimed" /\ ref'[d1] = "free" /\ OtherRefs
    /\ SameCounts
RefFilled ==
    /\ job.pc = "fill" /\ job'.pc = "claim" /\ job'.left = job.left \ {d1}
    /\ ref'[d1] = "filled" /\ OtherRefs /\ SameCounts /\ SameStatus
Removing == Mine.action = "delete"

LEMMA RefStepsOfWriting ==
  ASSUME CalendarBounds, Base, Written, Claim \/ CreateEvent \/ Fill, Whole'
  PROVE  RefsStay \/ RefClaimed \/ EventWritten \/ RefReleased \/ RefFilled
<1>1. job \in Job /\ AnyPending /\ line \in Seq(Row) /\ job.left # {} /\ d1 \in Destinations
  BY MineFacts, NextDest DEF Claim, CreateEvent, Fill, Base, AtDest
<1>2. PICK d \in Destinations : d = d1
  BY <1>1
<1>3. ref \in [Destinations -> {"free", "claimed", "filled"}]
  BY DEF Base, TypeOK
<1>4. line' = line => SameStatus
  BY DEF SameStatus
<1>5. CASE Claim
  <2>1. job.pc = "claim" /\ SameStatus /\ SameCounts
    BY <1>4, <1>5 DEF Claim, SameCounts
  <2>2. CASE MayClaim(d1)
    <3>1. ref' = [ref EXCEPT ![d1] = "claimed"] /\ job' = [job EXCEPT !.pc = "create"] /\ ref[d1] = "free"
      BY <1>5, <2>2 DEF Claim, MayClaim
    <3>2. job'.pc = "create" /\ job'.left = job.left
      BY <1>1, <3>1, JobRecord DEF JobPcs
    <3>3. d1' = d1
      BY <3>2 DEF d1
    <3>4. ref'[d] = "claimed" /\ \A e \in Destinations : e # d => ref'[e] = ref[e]
      BY <1>2, <1>3, <3>1
    <3> QED
      BY <1>1, <1>2, <2>1, <3>1, <3>2, <3>3, <3>4 DEF RefClaimed, OtherRefs
  <2>3. CASE ~ MayClaim(d1)
    <3>1. ref' = ref /\ job' = Rest
      BY <1>5, <2>3 DEF Claim
    <3>2. job'.pc = "claim"
      BY <2>1, <3>1, RestSteps
    <3> QED
      BY <2>1, <3>1, <3>2 DEF RefsStay, Writing
  <2> QED
    BY <2>2, <2>3
<1>6. CASE CreateEvent
  <2>1. job.pc = "create"
    BY <1>6 DEF CreateEvent
  <2>2. ASSUME Created, job' = [job EXCEPT !.pc = "fill"], UNCHANGED <<line, ref>>
        PROVE  EventWritten
    <3>1. job'.pc = "fill" /\ job'.left = job.left
      BY <1>1, <2>2, JobRecord DEF JobPcs
    <3>2. d1' = d1
      BY <3>1 DEF d1
    <3>3. event'[d].n = event[d].n + 1 /\ \A e \in Destinations : e # d => event'[e] = event[e]
      BY <1>2, <2>1, <2>2, CreatedSteps
    <3> QED
      BY <1>2, <1>4, <2>1, <2>2, <3>1, <3>2, <3>3 DEF EventWritten, OtherCounts
  <2>3. ASSUME Release, event' = event
        PROVE  RefReleased
    <3>1. /\ ref'[d] = "free" /\ ref[d] = "claimed"
          /\ \A e \in Destinations : e # d => ref'[e] = ref[e]
          /\ job' = NoJob
      BY <1>2, <1>6, <2>1, <2>3, ReleaseSteps DEF CreateEvent
    <3> QED
      BY <1>2, <2>1, <2>3, <3>1 DEF RefReleased, OtherRefs, SameCounts
  <2>4. torn' # "event"
    BY DEF Whole
  <2> QED
    BY <1>6, <2>2, <2>3, <2>4 DEF CreateEvent
<1>7. CASE Fill
  <2>1. /\ job.pc = "fill" /\ SameStatus /\ SameCounts /\ job' = Rest
        /\ ref' = [ref EXCEPT ![d1] = "filled"]
    BY <1>4, <1>7 DEF Fill, SameCounts
  <2>2. job'.pc = "claim" /\ job'.left = job.left \ {d1}
    BY <2>1, RestSteps
  <2>3. ref'[d] = "filled" /\ \A e \in Destinations : e # d => ref'[e] = ref[e]
    BY <1>2, <1>3, <2>1
  <2> QED
    BY <1>2, <2>1, <2>2, <2>3 DEF RefFilled, OtherRefs
<1> QED
  BY <1>5, <1>6, <1>7

LEMMA RefSteps ==
  ASSUME CalendarBounds, Base, Written, JobStep \/ JobDies, Whole'
  PROVE  /\ JobKeeps /\ Whole
         /\ RefsStay \/ RefClaimed \/ EventWritten \/ RefReleased \/ RefFilled \/ Removing
<1>1. JobKeeps
  BY JobStepKeeps
<1>2. Whole
  BY DEF Whole, JobStep, Begin, Decide, DecideRemoval, Mark, Claim, CreateEvent, Fill, UpdateEvent,
     DeleteEvent, EndJob, ReinviteLooks, TakeOff, TakenOff, PutBack, Reinvited, JobDies
<1>3. ASSUME UNCHANGED <<ref, event>>, ~ Writing'
      PROVE  RefsStay
  BY <1>3 DEF RefsStay, SameCounts
<1>4. ASSUME UNCHANGED <<ref, event>>, job' = NoJob
      PROVE  RefsStay
  BY <1>3, <1>4 DEF NoJob, Writing
<1>5. job \in Job
  BY DEF Base, TypeOK
<1>6. CASE Begin
  <2>1. UNCHANGED <<ref, event>> /\ (job' = NoJob \/ job'.pc \in {"reinvite", "decide"})
    BY <1>6 DEF Begin, EndRow
  <2>2. job'.pc \in {"reinvite", "decide"} => ~ Writing'
    BY DEF Writing
  <2>3. RefsStay
    BY <1>3, <1>4, <2>1, <2>2
  <2> QED
    BY <1>1, <1>2, <2>3
<1>7. CASE Decide \/ Mark
  <2>1. /\ job.pc # "idle" /\ UNCHANGED <<ref, event>> /\ Mine.action # "reinvite"
    BY <1>7 DEF Decide, Mark, Base, PcFits, FitsJob
  <2>2. Mine \in Row /\ Act \in {"remove", "move", "claim"}
    BY <2>1, MineFacts, ActFits
  <2>3. job'.pc \in {"remove", "move", "claim", "mark"}
    <3>1. ASSUME NEW invite \in BOOLEAN, NEW pc \in {"remove", "move", "claim", "mark"}, Decided(invite, pc)
          PROVE  job'.pc \in {"remove", "move", "claim", "mark"}
      BY <1>5, <3>1, DecidedRecord DEF JobPcs
    <3>2. ASSUME job' = [job EXCEPT !.pc = Act]
          PROVE  job'.pc \in {"remove", "move", "claim", "mark"}
      BY <1>5, <2>2, <3>2, JobRecord DEF JobPcs
    <3> QED
      BY <1>7, <2>2, <3>1, <3>2 DEF Decide, Mark
  <2>4. ~ Writing'
    BY <2>3 DEF Writing
  <2>5. RefsStay
    BY <1>3, <2>1, <2>4
  <2> QED
    BY <1>1, <1>2, <2>5
<1>8. CASE DecideRemoval \/ DeleteEvent
  BY <1>1, <1>2, <1>8 DEF DecideRemoval, DeleteEvent, Base, PcFits, FitsJob, Removing
<1>9. CASE UpdateEvent
  <2>1. job.pc = "move" /\ job.left # {} /\ ref' = ref
    BY <1>9 DEF UpdateEvent
  <2>2. ASSUME event' = [event EXCEPT ![d1].time = job.time, ![d1].guest = TRUE], job' = Rest
        PROVE  RefsStay
    <3>1. SameCounts
      BY <2>1, <2>2, UpdateSteps DEF SameCounts
    <3>2. job'.pc = "move"
      BY <2>1, <2>2, RestSteps
    <3> QED
      BY <2>1, <3>1, <3>2 DEF RefsStay, Writing
  <2> QED
    BY <1>1, <1>2, <1>4, <1>9, <2>1, <2>2 DEF UpdateEvent, FailRow
<1>10. CASE EndJob
  <2>1. event' = event /\ job' = NoJob /\ (job.pc # "remove" => ref' = ref)
    BY <1>10 DEF EndJob, EndRow
  <2>2. job.pc = "remove" => Removing
    BY DEF Base, PcFits, FitsJob, Removing
  <2> QED
    BY <1>1, <1>2, <1>4, <2>1, <2>2
<1>11. CASE ReinviteLooks
  <2>1. UNCHANGED <<ref, event>>
    BY <1>11 DEF ReinviteLooks
  <2>2. CASE EndRow("done") \/ FailRow(Mine)
    BY <1>1, <1>2, <1>4, <2>1, <2>2 DEF EndRow, FailRow
  <2>3. CASE ~ (EndRow("done") \/ FailRow(Mine))
    <3>1. job'.pc \in {"takeoff", "putback"}
      BY <1>11, <2>3, ReinviteLooksSteps DEF ReinviteLooks
    <3> QED
      BY <1>1, <1>2, <1>3, <2>1, <3>1 DEF Writing
  <2> QED
    BY <2>2, <2>3
<1>12. CASE TakeOff \/ PutBack
  <2>1. job.left # {} /\ job.pc \in {"takeoff", "putback"} /\ ref' = ref
    BY <1>12 DEF TakeOff, PutBack, Base, AtDest
  <2>2. ASSUME job.pc = "takeoff", event' = [event EXCEPT ![d1].guest = FALSE, ![d1].time = job.time]
        PROVE  SameCounts
    BY <2>2, TakeOffSteps DEF SameCounts
  <2>3. ASSUME job.pc = "putback", event' = [event EXCEPT ![d1].guest = TRUE, ![d1].time = job.time]
        PROVE  SameCounts
    <3>1. event' = [event EXCEPT ![d1].time = job.time, ![d1].guest = TRUE]
      BY <2>3
    <3> QED
      BY <2>1, <2>3, <3>1, UpdateSteps DEF SameCounts
  <2>4. ASSUME NEW pc \in {"takenoff", "reinvited"}, job' = [job EXCEPT !.pc = pc]
        PROVE  ~ Writing'
    BY <1>5, <2>4, JobRecord DEF JobPcs, Writing
  <2>5. CASE FailRow(Mine) /\ event' = event
    BY <1>1, <1>2, <1>4, <2>1, <2>5 DEF FailRow
  <2>6. CASE ~ (FailRow(Mine) /\ event' = event)
    <3>1. SameCounts
      BY <1>12, <2>2, <2>3, <2>6 DEF TakeOff, PutBack
    <3>2. ~ Writing'
      BY <1>12, <2>4, <2>6 DEF TakeOff, PutBack
    <3> QED
      BY <1>1, <1>2, <2>1, <3>1, <3>2 DEF RefsStay
  <2> QED
    BY <2>5, <2>6
<1>13. CASE TakenOff
  <2>1. UNCHANGED <<ref, event>> /\ job' = [job EXCEPT !.pc = "putback"]
    BY <1>13 DEF TakenOff
  <2>2. job'.pc = "putback"
    BY <1>5, <2>1, JobRecord DEF JobPcs
  <2> QED
    BY <1>1, <1>2, <1>3, <2>1, <2>2 DEF Writing
<1>14. CASE Reinvited \/ JobDies
  BY <1>1, <1>2, <1>4, <1>14 DEF Reinvited, JobDies
<1> QED
  BY <1>1, <1>2, <1>6, <1>7, <1>8, <1>9, <1>10, <1>11, <1>12, <1>13, <1>14, RefStepsOfWriting DEF JobStep

(* The booking is to be on the calendars: it is on, or the row at work was  *)
(* queued while it was.                                                    *)
Being == booking.status = "accepted" \/ (AnyPending /\ Mine.action # "delete")

LEMMA AsideNext == Aside => [Next]_vars
BY DEF Aside, Next

LEMMA AsideOn ==
  ASSUME CalendarBounds, Base, Aside
  PROVE  (MayStand' => MayStand) /\ (Being' => Being)
<1>1. line \in Seq(Row)
  BY DEF Base, TypeOK
<1>2. /\ \A i \in Rows : line'[i].status = line[i].status /\ line'[i].action = line[i].action
      /\ \/ Rows' = Rows /\ booking' = booking
         \/ booking.status = "accepted"
  BY AsideRows
<1>3. CASE Rows' = Rows /\ booking' = booking
  <2>1. AnyPending' <=> AnyPending
    BY <1>2, <1>3, HeadIs DEF Rows
  <2>2. CASE AnyPending
    <3>1. /\ h \in Rows /\ Mine = line[h] /\ line[h].status = "pending"
          /\ \A j \in Rows : j < h => line[j].status # "pending"
      BY <1>1, <2>2, HeadFacts
    <3>2. line' \in Seq(Row)
      BY BaseStep, AsideNext DEF Base, TypeOK
    <3>3. h' = h
      BY <1>2, <1>3, <3>1, <3>2, HeadIs, HeadOfOnly DEF Rows
    <3>4. Mine'.action = Mine.action
      BY <1>2, <3>1, <3>3, HeadIs
    <3> QED
      BY <1>3, <2>1, <3>4 DEF MayStand, Being
  <2> QED
    BY <1>3, <2>1, <2>2 DEF MayStand, Being
<1> QED
  BY <1>2, <1>3 DEF MayStand, Being

(* A removal is the last row: after it nothing is to be on the calendars.   *)
LEMMA JobOn ==
  ASSUME CalendarBounds, Base, JobStep \/ JobDies
  PROVE  (MayStand' => MayStand) /\ (Being' => Being /\ ~ Removing)
<1>1. JobKeeps
  BY JobStepKeeps
<1>2. /\ AnyPending /\ booking' = booking /\ Steady /\ line \in Seq(Row)
      /\ h \in Rows /\ Mine = line[h] /\ Rows = 1 .. Len(line)
      /\ \A j \in Rows : line[j].status = "pending" => h <= j
  BY <1>1, HeadFacts, LineDomain DEF JobKeeps, Base, TypeOK
<1>3. \A i \in Rows : line'[i].status = "pending" => line[i].status = "pending"
  <2>1. Mine.status = "pending"
    BY <1>2, HeadFacts
  <2> QED
    BY <1>1, <1>2, <2>1 DEF JobKeeps, SameStatus, HeadBecomes
<1>4. CASE Removing
  <2>1. h = Len(line) /\ booking.status = Cancelled
    BY <1>2, <1>4 DEF Removing, Base, DeleteLast
  <2>2. AnyPending' => h' = h /\ Mine'.action = "delete"
    <3> SUFFICES ASSUME AnyPending'
                 PROVE  h' = h /\ Mine'.action = "delete"
      OBVIOUS
    <3>1. line' \in Seq(Row) /\ Rows' = Rows
      BY <1>2 DEF Steady, Rows
    <3>2. h' \in Rows /\ line'[h'].status = "pending"
      <4>1. PICK k \in DOMAIN line' : line'[k].status = "pending"
        BY HeadIs
      <4> QED
        BY <3>1, <4>1, HeadIs, HeadOfFirst DEF Rows
    <3>3. h' = h
      BY <1>2, <1>3, <2>1, <3>2
    <3> QED
      BY <1>2, <1>4, <3>3, HeadIs DEF Removing, Steady
  <2> QED
    BY <1>2, <2>1, <2>2 DEF MayStand, Being, Cancelled
<1>5. CASE ~ Removing
  BY <1>2, <1>5 DEF MayStand, Being, Removing
<1> QED
  BY <1>4, <1>5

LEMMA RemovalFrees ==
  ASSUME CalendarBounds, Base, JobStep \/ JobDies, Removing
  PROVE  ref' = ref \/ \A d \in Destinations : ref'[d] = "free"
<1>1. job.pc # "claim" /\ job.pc # "create" /\ job.pc # "fill"
  BY DEF Removing, Base, PcFits, FitsJob
<1> QED
  BY <1>1 DEF JobStep, Begin, Decide, DecideRemoval, Mark, Claim, CreateEvent, Fill, UpdateEvent,
     DeleteEvent, EndJob, ReinviteLooks, TakeOff, TakenOff, PutBack, Reinvited, JobDies

LEMMA RemovalKeepsRefs ==
  ASSUME CalendarBounds, Base, JobStep \/ JobDies, Removing, MayStand'
  PROVE  ref' = ref
<1>1. /\ AnyPending /\ line \in Seq(Row) /\ JobKeeps
      /\ h \in Rows /\ Mine = line[h] /\ Rows = 1 .. Len(line)
      /\ \A j \in Rows : line[j].status = "pending" => h <= j
  BY JobStepKeeps, HeadFacts, LineDomain DEF JobKeeps, Base, TypeOK
<1>2. h = Len(line) /\ booking.status = Cancelled
  BY <1>1 DEF Removing, Base, DeleteLast
<1>3. job.pc # "claim" /\ job.pc # "create" /\ job.pc # "fill"
  BY DEF Removing, Base, PcFits, FitsJob
<1>4. CASE EndJob
  <2>1. EndRow("done") /\ booking' = booking
    BY <1>4 DEF EndJob
  <2>2. HeadBecomes("done") /\ Steady
    BY <1>1, <2>1, EndOutcome
  <2>3. ~ AnyPending'
    BY <1>1, <1>2, <2>2, HeadIs DEF HeadBecomes, Steady, Rows
  <2> QED
    BY <1>2, <2>1, <2>3 DEF MayStand, Cancelled
<1> QED
  BY <1>3, <1>4 DEF JobStep, Begin, Decide, DecideRemoval, Mark, Claim, CreateEvent, Fill, UpdateEvent,
     DeleteEvent, ReinviteLooks, TakeOff, TakenOff, PutBack, Reinvited, JobDies

(* How the destinations left change while events are being written. *)
WriteBegins == job.pc = "idle" /\ job'.pc = "decide" /\ job'.left = Work /\ UNCHANGED <<ref, event>>
SameLeft ==
    /\ job'.left = job.left
    /\ \/ /\ job.pc \in {"decide", "mark"} /\ job'.pc \in {"mark", "claim"}
          /\ job'.pc = "claim" => Act = "claim"
       \/ job.pc \in {"claim", "create"} /\ job'.pc \in {"create", "fill"}
PassedOver ==
    /\ job.pc = "claim" /\ job.left # {} /\ job'.pc = "claim" /\ job'.left = job.left \ {d1}
    /\ ref[d1] # "free" /\ ref' = ref
WrittenOne ==
    /\ job.pc = "fill" /\ job'.pc = "claim" /\ job'.left = job.left \ {d1}
    /\ ref' = [ref EXCEPT ![d1] = "filled"]

LEMMA LeftSteps ==
  ASSUME CalendarBounds, Base, JobStep \/ JobDies, job'.pc \in WritePcs
  PROVE  /\ SameStatus /\ Steady /\ AnyPending /\ h' = h /\ Mine'.action = Mine.action
         /\ WriteBegins \/ SameLeft \/ PassedOver \/ WrittenOne
<1>1. JobKeeps /\ line \in Seq(Row) /\ job \in Job
  BY JobStepKeeps DEF Base, TypeOK
<1>2. job' # NoJob
  BY DEF NoJob, WritePcs
<1>3. SameStatus /\ Steady /\ AnyPending
  BY <1>1, <1>2 DEF JobKeeps
<1>4. h' = h /\ Mine'.action = Mine.action
  BY <1>1, <1>3, HeadStays
<1>5. WriteBegins \/ SameLeft \/ PassedOver \/ WrittenOne
  <2>1. ~ FailRow(Mine) /\ ~ EndRow("done") /\ ~ EndRow("skipped")
    BY <1>2 DEF FailRow, EndRow
  <2>2. CASE Begin
    BY <2>1, <2>2 DEF Begin, WriteBegins, WritePcs
  <2>3. CASE Decide \/ DecideRemoval \/ Mark
    <3>1. job.pc \in {"decide", "mark"} /\ job.pc # "idle" /\ Mine.action # "reinvite"
      BY <2>3 DEF Decide, DecideRemoval, Mark, Base, PcFits, FitsJob
    <3>2. Mine \in Row /\ Act \in {"remove", "move", "claim"}
      BY <3>1, MineFacts, ActFits
    <3>3. ASSUME NEW invite \in BOOLEAN, NEW pc \in {Act, "mark"}, Decided(invite, pc)
          PROVE  SameLeft
      <4>1. job'.pc = pc /\ job'.left = job.left
        BY <1>1, <3>2, <3>3, DecidedRecord DEF JobPcs
      <4> QED
        BY <3>1, <3>2, <3>3, <4>1 DEF SameLeft, WritePcs
    <3>4. ASSUME job' = [job EXCEPT !.pc = Act]
          PROVE  SameLeft
      <4>1. job'.pc = Act /\ job'.left = job.left
        BY <1>1, <3>2, <3>4, JobRecord DEF JobPcs
      <4> QED
        BY <3>1, <3>2, <4>1 DEF SameLeft, WritePcs
    <3>5. ~ FailRow([Mine EXCEPT !.looks = @ + 1])
      BY <1>2 DEF FailRow
    <3> QED
      BY <2>3, <3>3, <3>4, <3>5 DEF Decide, DecideRemoval, Mark
  <2>4. CASE Claim
    <3>1. CASE MayClaim(d1)
      <4>1. job.pc = "claim" /\ job' = [job EXCEPT !.pc = "create"]
        BY <2>4, <3>1 DEF Claim
      <4>2. job'.pc = "create" /\ job'.left = job.left
        BY <1>1, <4>1, JobRecord DEF JobPcs
      <4> QED
        BY <4>1, <4>2 DEF SameLeft
    <3>2. CASE ~ MayClaim(d1)
      <4>1. job.pc = "claim" /\ job.left # {} /\ job' = Rest /\ ref' = ref /\ ref[d1] # "free"
        BY <2>4, <3>2 DEF Claim, MayClaim
      <4> QED
        BY <4>1, RestSteps DEF PassedOver
    <3> QED
      BY <3>1, <3>2
  <2>5. CASE CreateEvent
    <3>1. job.pc = "create" /\ job' = [job EXCEPT !.pc = "fill"]
      BY <2>1, <2>5 DEF CreateEvent, Release
    <3>2. job'.pc = "fill" /\ job'.left = job.left
      BY <1>1, <3>1, JobRecord DEF JobPcs
    <3> QED
      BY <3>1, <3>2 DEF SameLeft
  <2>6. CASE Fill
    <3>1. job.pc = "fill" /\ job' = Rest /\ ref' = [ref EXCEPT ![d1] = "filled"]
      BY <2>6 DEF Fill
    <3> QED
      BY <3>1, RestSteps DEF WrittenOne
  <2>7. CASE UpdateEvent \/ DeleteEvent
    <3>1. job.pc \in {"move", "remove"} /\ job' = Rest
      BY <2>1, <2>7 DEF UpdateEvent, DeleteEvent
    <3>2. job'.pc = job.pc
      BY <3>1, RestSteps
    <3> QED
      BY <3>1, <3>2 DEF WritePcs
  <2>8. CASE ReinviteLooks
    <3>1. job'.pc \in {"takeoff", "putback"}
      BY <2>1, <2>8, ReinviteLooksSteps DEF ReinviteLooks
    <3> QED
      BY <3>1 DEF WritePcs
  <2>9. ASSUME NEW pc \in {"takenoff", "reinvited", "putback"}, job' = [job EXCEPT !.pc = pc]
        PROVE  FALSE
    <3>1. job'.pc = pc
      BY <1>1, <2>9, JobRecord DEF JobPcs
    <3> QED
      BY <3>1 DEF WritePcs
  <2>10. CASE TakeOff \/ TakenOff \/ PutBack
    BY <2>1, <2>9, <2>10 DEF TakeOff, TakenOff, PutBack
  <2>11. ~ EndJob /\ ~ Reinvited /\ ~ JobDies
    BY <1>2 DEF EndJob, EndRow, Reinvited, JobDies
  <2> QED
    BY <2>2, <2>3, <2>4, <2>5, <2>6, <2>7, <2>8, <2>10, <2>11 DEF JobStep
<1> QED
  BY <1>3, <1>4, <1>5

(* A row is done when its job is through with every destination. *)
LEMMA DoneSteps ==
  ASSUME CalendarBounds, Base, JobStep \/ JobDies, NEW i \in Rows,
         line[i].status # "done", line'[i].status = "done"
  PROVE  /\ i = h /\ Mine = line[i] /\ HeadBecomes("done")
         /\ Mine.action \in {"create", "reschedule"} =>
              job.pc \in {"claim", "move"} /\ job.left = {} /\ UNCHANGED <<ref, event>> /\ job' = NoJob
         /\ Mine.action = "reinvite" => ReinviteLooks \/ Reinvited
<1>1. /\ JobKeeps /\ line \in Seq(Row) /\ AnyPending /\ h \in Rows /\ Mine = line[h] /\ Mine.status = "pending"
  BY JobStepKeeps, HeadFacts DEF Base, TypeOK, JobKeeps
<1>2. i = h /\ HeadBecomes("done") /\ ~ SameStatus /\ line'[h].status = "done" /\ job' = NoJob
  <2>1. ~ SameStatus
    BY DEF SameStatus
  <2>2. PICK s \in {"pending", "done", "failed", "skipped"} : HeadBecomes(s)
    BY <1>1, <2>1 DEF JobKeeps
  <2> QED
    BY <1>1, <2>1, <2>2 DEF HeadBecomes, JobKeeps
<1>3. ASSUME NEW s \in {"pending", "failed", "skipped"}, HeadBecomes(s)
      PROVE  FALSE
  BY <1>2, <1>3 DEF HeadBecomes
<1>4. ASSUME job.pc # "idle", FailRow(Mine), UNCHANGED <<booking, change>>
      PROVE  FALSE
  BY <1>3, <1>4, FailKeeps
<1>5. line' # line
  BY <1>2 DEF SameStatus
<1>6. CASE EndJob
  <2>1. job.pc \in {"claim", "move", "remove"} /\ job.left = {} /\ event' = event
        /\ (job.pc # "remove" => ref' = ref)
    BY <1>6 DEF EndJob
  <2>2. /\ job.pc = "remove" => Mine.action = "delete"
        /\ job.pc \in {"claim", "move"} => Mine.action # "reinvite"
    BY DEF Base, PcFits, FitsJob
  <2> QED
    BY <1>1, <1>2, <2>1, <2>2
<1>7. CASE ReinviteLooks \/ Reinvited
  <2>1. Mine.action = "reinvite"
    BY <1>7 DEF ReinviteLooks, Reinvited, Base, PcFits, FitsJob, ReinvitePcs
  <2> QED
    BY <1>1, <1>2, <1>7, <2>1
<1>8. ~ Begin
  <2>1. ~ EndRow("skipped")
    BY <1>1, <1>3, EndOutcome
  <2> QED
    BY <1>5, <2>1 DEF Begin
<1>9. ~ DecideRemoval
  <2>1. ASSUME job.pc # "idle", StillWaits, FailRow([Mine EXCEPT !.looks = @ + 1]), UNCHANGED <<booking, change>>
        PROVE  FALSE
    BY <1>3, <2>1, LookKeeps
  <2> QED
    BY <1>5, <2>1 DEF DecideRemoval
<1>10. ~ Mark /\ ~ TakenOff
  BY <1>2, MarkKeeps, TakenOffKeeps
<1> QED
  BY <1>4, <1>5, <1>6, <1>7, <1>8, <1>9, <1>10
     DEF JobStep, Decide, Claim, CreateEvent, Release, Fill, UpdateEvent, DeleteEvent, TakeOff, PutBack, JobDies

(* While the booking is to be there, a reference that is filled is of an    *)
(* event that is there.  From the end of the first row on every reference   *)
(* is filled; until then the job has filled those of the destinations it    *)
(* has been to.                                                            *)
There ==
    Whole /\ Being =>
        /\ \A d \in Destinations : ref[d] = "filled" => event[d].n = 1
        /\ job.pc = "fill" => event[d1].n = 1
AllFilled == \A d \in Destinations : ref[d] = "filled"
FirstDone == line # <<>> /\ line[1].status = "done"
FilledSince == Whole /\ FirstDone /\ MayStand => AllFilled
FilledSoFar ==
    Whole /\ job.pc \in WritePcs /\ Mine.action = "create" =>
        \A d \in Destinations : d \notin job.left => ref[d] = "filled"
WritesFirst ==
    Whole /\ job.pc \in {"claim", "create", "fill"} /\ Mine.action = "reschedule" => ~ FirstDone
Listed == There /\ FilledSince /\ FilledSoFar /\ WritesFirst

LEMMA InitListed ==
  ASSUME CalendarBounds, Init
  PROVE  Listed
BY DEF Init, Listed, There, FilledSince, FilledSoFar, WritesFirst, FirstDone, NoJob, WritePcs

LEMMA AsideListed ==
  ASSUME CalendarBounds, Base, Listed, Aside
  PROVE  Listed'
<1>1. line \in Seq(Row) /\ Base'
  BY BaseStep, AsideNext DEF Base, TypeOK
<1>2. job' = job /\ d1' = d1 /\ UNCHANGED <<ref, event, torn>> /\ (MayStand' => MayStand) /\ (Being' => Being)
  BY AsideRows, AsideOn DEF d1
<1>3. job.pc # "idle" => Mine' = Mine
  BY MineStays DEF Aside
<1>4. FirstDone' <=> FirstDone
  <2>1. /\ \A i \in Rows : line'[i].status = line[i].status
        /\ \/ Rows' = Rows
           \/ Rows' = Rows \cup {Len(line) + 1} /\ \E a, m : line'[Len(line) + 1] = NewRow(a, m)
    BY AsideRows
  <2>2. line' \in Seq(Row)
    BY <1>1 DEF Base, TypeOK
  <2>3. /\ Rows = 1 .. Len(line) /\ Len(line) \in Nat /\ (line = <<>> <=> Len(line) = 0)
        /\ Rows' = 1 .. Len(line') /\ Len(line') \in Nat /\ (line' = <<>> <=> Len(line') = 0)
    BY <1>1, <2>2, LineDomain, EmptySeq, LenProperties DEF Rows
  <2>4. CASE Rows' = Rows
    BY <2>1, <2>3, <2>4 DEF FirstDone
  <2>5. ASSUME NEW a, NEW m, Rows' = Rows \cup {Len(line) + 1}, line'[Len(line) + 1] = NewRow(a, m)
        PROVE  FirstDone' <=> FirstDone
    <3>1. line'[Len(line) + 1].status = "pending"
      BY <2>5 DEF NewRow
    <3> QED
      BY <2>1, <2>3, <2>5, <3>1 DEF FirstDone
  <2> QED
    BY <2>1, <2>4, <2>5
<1>5. There'
  BY <1>2 DEF Listed, There, Whole
<1>6. FilledSince'
  BY <1>2, <1>4 DEF Listed, FilledSince, AllFilled, Whole
<1>7. FilledSoFar'
  BY <1>2, <1>3 DEF Listed, FilledSoFar, Whole, WritePcs
<1>8. WritesFirst'
  BY <1>2, <1>3, <1>4 DEF Listed, WritesFirst, Whole
<1> QED
  BY <1>5, <1>6, <1>7, <1>8 DEF Listed

LEMMA JobThere ==
  ASSUME CalendarBounds, Base, Written, There, JobStep \/ JobDies
  PROVE  There'
<1> SUFFICES ASSUME Whole', Being'
             PROVE  /\ \A d \in Destinations : ref'[d] = "filled" => event'[d].n = 1
                    /\ job'.pc = "fill" => event'[d1'].n = 1
  BY DEF There
<1>1. Whole /\ (RefsStay \/ RefClaimed \/ EventWritten \/ RefReleased \/ RefFilled \/ Removing)
  BY RefSteps
<1>2. Being /\ ~ Removing
  BY JobOn
<1>3. \A d \in Destinations : ref[d] = "filled" => event[d].n = 1
  BY <1>1, <1>2 DEF There
<1>4. Writing => job.left # {} /\ d1 \in Destinations
  BY NextDest DEF Writing, Base, AtDest
<1>5. \A d \in Destinations : event[d].n \in Nat
  BY DEF Base, TypeOK
<1>6. CASE RefsStay
  BY <1>3, <1>6 DEF RefsStay, SameCounts, Writing
<1>7. CASE RefClaimed
  BY <1>3, <1>7 DEF RefClaimed, OtherRefs, SameCounts
<1>8. CASE EventWritten
  <2>1. event[d1].n = 0 /\ ref[d1] = "claimed" /\ d1 \in Destinations
    BY <1>1, <1>4, <1>8 DEF EventWritten, Written, Once, Claims, Writing, Whole
  <2> QED
    BY <1>3, <1>8, <2>1 DEF EventWritten, OtherCounts
<1>9. CASE RefReleased
  BY <1>3, <1>9 DEF RefReleased, OtherRefs, SameCounts, NoJob
<1>10. CASE RefFilled
  <2>1. event[d1].n = 1
    BY <1>1, <1>2, <1>10 DEF RefFilled, There
  <2> QED
    BY <1>3, <1>10, <2>1 DEF RefFilled, OtherRefs, SameCounts
<1> QED
  BY <1>1, <1>2, <1>6, <1>7, <1>8, <1>9, <1>10

LEMMA DestinationsExist == ASSUME CalendarBounds PROVE Destinations # {}
BY OrganizerIn

LEMMA JobFilled ==
  ASSUME CalendarBounds, Base, Written, Listed, JobStep \/ JobDies
  PROVE  FilledSince' /\ FilledSoFar' /\ WritesFirst'
<1> SUFFICES ASSUME Whole'
             PROVE  FilledSince' /\ FilledSoFar' /\ WritesFirst'
  BY DEF FilledSince, FilledSoFar, WritesFirst
<1>1. /\ Whole /\ JobKeeps
      /\ RefsStay \/ RefClaimed \/ EventWritten \/ RefReleased \/ RefFilled \/ Removing
  BY RefSteps
<1>2. line \in Seq(Row) /\ Steady /\ AnyPending /\ line # <<>> /\ MayStand /\ 1 \in Rows /\ line[1].action = "create"
  <2>1. line \in Seq(Row) /\ Steady /\ AnyPending
    BY <1>1 DEF JobKeeps, Base, TypeOK
  <2>2. h \in Rows /\ Rows = 1 .. Len(line) /\ Len(line) \in Nat /\ (line = <<>> <=> Len(line) = 0)
    BY <2>1, HeadFacts, LineDomain
  <2>3. 1 \in Rows
    BY <2>2
  <2> QED
    BY <2>1, <2>2, <2>3 DEF MayStand, Base, FirstCreates
<1>3. h \in Rows /\ Mine = line[h]
  BY <1>2, HeadFacts
<1>4. Writing => job.left # {} /\ d1 \in Destinations /\ d1 \in job.left
  BY NextDest DEF Writing, Base, AtDest
<1>5. ref \in [Destinations -> {"free", "claimed", "filled"}]
  BY DEF Base, TypeOK
<1>6. ASSUME NEW S \in SUBSET Destinations, \A d \in S : ref[d] = "filled", MayStand'
      PROVE  \A d \in S : ref'[d] = "filled"
  <2>1. CASE RefReleased
    BY <1>6, <2>1 DEF RefReleased, OtherRefs
  <2>2. CASE Removing
    BY <1>6, <2>2, RemovalKeepsRefs
  <2> QED
    BY <1>1, <1>6, <2>1, <2>2 DEF RefsStay, RefClaimed, EventWritten, RefFilled, OtherRefs
<1>7. FilledSince'
  <2> SUFFICES ASSUME FirstDone', MayStand'
               PROVE  AllFilled'
    BY DEF FilledSince
  <2>1. line'[1].status = "done"
    BY DEF FirstDone
  <2>2. CASE line[1].status = "done"
    <3>1. AllFilled
      BY <1>1, <1>2, <2>2 DEF Listed, FilledSince, FirstDone
    <3> QED
      BY <1>6, <3>1 DEF AllFilled
  <2>3. CASE line[1].status # "done"
    <3>1. /\ Mine.action = "create" /\ job.left = {} /\ ref' = ref /\ job.pc \in {"claim", "move"}
      BY <1>2, <2>1, <2>3, DoneSteps
    <3>2. job.pc = "claim"
      BY <3>1 DEF Base, PcFits, FitsJob
    <3>3. \A d \in Destinations : ref[d] = "filled"
      BY <1>1, <3>1, <3>2 DEF Listed, FilledSoFar, WritePcs
    <3> QED
      BY <3>1, <3>3 DEF AllFilled
  <2> QED
    BY <2>2, <2>3
<1>8. ASSUME job'.pc \in WritePcs
      PROVE  FilledSoFar' /\ WritesFirst'
  <2>1. /\ SameStatus /\ Steady /\ AnyPending /\ h' = h /\ Mine'.action = Mine.action
        /\ WriteBegins \/ SameLeft \/ PassedOver \/ WrittenOne
    BY <1>8, LeftSteps
  <2>2. FirstDone' <=> FirstDone
    BY <1>2, <2>1, EmptySeq DEF FirstDone, SameStatus, Steady
  <2>3. AnyPending' /\ MayStand'
    BY <1>2, <2>1, HeadStays DEF MayStand
  <2>4. ASSUME Mine.action = "create"
        PROVE  \A d \in Destinations : d \notin job'.left => ref'[d] = "filled"
    <3>1. CASE WriteBegins
      BY <2>4, <3>1 DEF WriteBegins, Work
    <3>2. ASSUME job.pc \in WritePcs
          PROVE  \A d \in Destinations \ job.left : ref'[d] = "filled"
      <4>1. \A d \in Destinations \ job.left : ref[d] = "filled"
        BY <1>1, <2>4, <3>2 DEF Listed, FilledSoFar
      <4> QED
        BY <1>6, <2>3, <4>1
    <3>3. CASE SameLeft
      BY <3>2, <3>3 DEF SameLeft, WritePcs
    <3>4. CASE PassedOver
      <4>1. job.pc = "claim" /\ ref[d1] # "free" /\ ref' = ref /\ d1 \in Destinations
            /\ job'.left = job.left \ {d1}
        BY <3>4, NextDest DEF PassedOver
      <4>2. ref[d1] # "claimed"
        BY <1>1, <4>1 DEF Written, Claims, Writing
      <4>3. ref'[d1] = "filled"
        BY <1>5, <4>1, <4>2
      <4> QED
        BY <3>2, <4>1, <4>3 DEF WritePcs
    <3>5. CASE WrittenOne
      <4>1. d1 \in Destinations /\ ref' = [ref EXCEPT ![d1] = "filled"]
        BY <1>4, <3>5 DEF WrittenOne, Writing
      <4>2. ref'[d1] = "filled" /\ job'.left = job.left \ {d1}
        BY <1>5, <3>5, <4>1 DEF WrittenOne
      <4> QED
        BY <3>2, <3>5, <4>2 DEF WrittenOne, WritePcs
    <3> QED
      BY <2>1, <3>1, <3>3, <3>4, <3>5
  <2>5. ASSUME job'.pc \in {"claim", "create", "fill"}, Mine.action = "reschedule", FirstDone
        PROVE  FALSE
    <3>1. AllFilled
      BY <1>1, <1>2, <2>5 DEF Listed, FilledSince
    <3>2. Filled # {}
      BY <3>1, DestinationsExist DEF AllFilled, Filled
    <3>3. ~ (job.pc \in {"claim", "create", "fill"})
      BY <1>1, <2>5 DEF Listed, WritesFirst
    <3>4. SameLeft /\ job'.pc = "claim"
      BY <2>1, <2>5, <3>3 DEF WriteBegins, SameLeft, PassedOver, WrittenOne
    <3>5. Act = "claim"
      BY <3>3, <3>4 DEF SameLeft
    <3>6. Act = "move"
      BY <2>5, <3>2 DEF Act
    <3> QED
      BY <3>5, <3>6
  <2>6. FilledSoFar'
    BY <2>1, <2>4 DEF FilledSoFar
  <2>7. WritesFirst'
    BY <2>1, <2>2, <2>5 DEF WritesFirst
  <2> QED
    BY <2>6, <2>7
<1>9. ASSUME job'.pc \notin WritePcs
      PROVE  FilledSoFar' /\ WritesFirst'
  BY <1>9 DEF FilledSoFar, WritesFirst, WritePcs
<1> QED
  BY <1>7, <1>8, <1>9

LEMMA ListedStep ==
  ASSUME CalendarBounds, Base, Written, Listed, [Next]_vars
  PROVE  Listed'
<1>1. CASE Aside
  BY <1>1, AsideListed
<1>2. CASE JobStep \/ JobDies
  BY <1>2, JobThere, JobFilled DEF Listed
<1> QED
  BY <1>1, <1>2 DEF Next, Aside

-----------------------------------------------------------------------------
(* The time and the guest on the events. *)

SameEvents == \A d \in Destinations : event'[d].time = event[d].time /\ (event'[d].guest <=> event[d].guest)
EventTimed ==
    /\ d1 \in Destinations /\ event'[d1].time = job.time
    /\ \A d \in Destinations : d # d1 => event'[d] = event[d]

(* What a step of the job does to its own record and to the events. *)
AttemptEnds == job' = NoJob /\ SameEvents
AttemptBegins ==
    /\ job.pc = "idle" /\ job'.pc \in {"decide", "reinvite"} /\ SameStatus /\ SameEvents
    /\ job'.time = booking.time /\ job'.left = Work /\ job'.inviting = Inviting(Work)
GoesOn == job.pc # "idle" /\ job'.pc # "idle" /\ job'.time = job.time /\ SameStatus
NoEventChanges ==
    /\ GoesOn /\ SameEvents /\ job'.pc \notin {"fill", "reinvited"}
    /\ job.pc \in {"decide", "mark", "move"} => job'.left = job.left
EventSet ==
    /\ GoesOn /\ EventTimed /\ event'[d1].guest
    /\ job.pc \in {"create", "move"} /\ job'.pc = IF job.pc = "create" THEN "fill" ELSE "move"
    /\ job'.left = IF job.pc = "create" THEN job.left ELSE job.left \ {d1}
GuestSet ==
    /\ GoesOn /\ EventTimed /\ job'.left = job.left
    /\ \/ job.pc = "takeoff" /\ job'.pc = "takenoff"
       \/ job.pc = "putback" /\ job'.pc = "reinvited" /\ event'[d1].guest

LEMMA EventSteps ==
  ASSUME CalendarBounds, Base, JobStep \/ JobDies, Whole'
  PROVE  AttemptEnds \/ AttemptBegins \/ NoEventChanges \/ EventSet \/ GuestSet
<1>1. job \in Job /\ line \in Seq(Row) /\ event \in [Destinations -> EventType] /\ JobKeeps
  BY JobStepKeeps DEF Base, TypeOK, EventType
<1>2. event' = event => SameEvents
  BY DEF SameEvents
<1>3. line' = line => SameStatus
  BY DEF SameStatus
<1>4. ASSUME UNCHANGED event, job' = NoJob
      PROVE  AttemptEnds
  BY <1>2, <1>4 DEF AttemptEnds
<1>5. ASSUME FailRow(Mine), UNCHANGED event
      PROVE  AttemptEnds
  BY <1>4, <1>5 DEF FailRow
<1>6. ASSUME job.pc # "idle", UNCHANGED event, SameStatus,
             NEW pc \in JobPcs, pc \notin {"idle", "fill", "reinvited"},
             job' = [job EXCEPT !.pc = pc]
      PROVE  NoEventChanges
  BY <1>1, <1>2, <1>6, JobRecord DEF NoEventChanges, GoesOn
<1>7. CASE Begin
  <2>1. event' = event
    BY <1>7 DEF Begin
  <2>2. CASE EndRow("skipped")
    BY <1>4, <2>1, <2>2 DEF EndRow
  <2> QED
    BY <1>2, <1>3, <1>7, <2>1, <2>2 DEF Begin, AttemptBegins
<1>8. CASE Decide \/ DecideRemoval \/ Mark
  <2>1. job.pc \in {"decide", "mark"} /\ event' = event /\ Mine.action # "reinvite"
    BY <1>8 DEF Decide, DecideRemoval, Mark, Base, PcFits, FitsJob
  <2>2. Mine \in Row /\ Act \in {"remove", "move", "claim"}
    BY <2>1, MineFacts, ActFits
  <2>3. ASSUME NEW invite \in BOOLEAN, NEW pc \in {Act, "mark"}, Decided(invite, pc), SameStatus
        PROVE  NoEventChanges
    <3>1. job'.pc = pc /\ job'.left = job.left /\ job'.time = job.time
      BY <1>1, <2>2, <2>3, DecidedRecord DEF JobPcs
    <3> QED
      BY <1>2, <2>1, <2>2, <2>3, <3>1 DEF NoEventChanges, GoesOn
  <2>4. CASE Mark
    BY <1>6, <2>1, <2>2, <2>4, MarkKeeps DEF Mark, JobPcs
  <2>5. CASE FailRow([Mine EXCEPT !.looks = @ + 1])
    BY <1>4, <2>1, <2>5 DEF FailRow
  <2> QED
    BY <1>3, <1>8, <2>3, <2>4, <2>5 DEF Decide, DecideRemoval
<1>9. ASSUME job' = Rest, job.pc \in {"claim", "fill", "move", "remove"}, SameStatus
      PROVE  GoesOn /\ job'.left = job.left \ {d1} /\ job'.pc = IF job.pc = "fill" THEN "claim" ELSE job.pc
  BY <1>9, RestSteps DEF GoesOn
<1>10. CASE Claim
  <2>1. job.pc = "claim" /\ event' = event /\ SameStatus
    BY <1>3, <1>10 DEF Claim
  <2>2. CASE MayClaim(d1)
    BY <1>6, <1>10, <2>1, <2>2 DEF Claim, JobPcs
  <2>3. CASE ~ MayClaim(d1)
    BY <1>2, <1>9, <1>10, <2>1, <2>3 DEF Claim, NoEventChanges
  <2> QED
    BY <2>2, <2>3
<1>11. CASE CreateEvent
  <2>1. job.pc = "create" /\ torn' # "event"
    BY <1>11 DEF CreateEvent, Whole
  <2>2. ASSUME Created, job' = [job EXCEPT !.pc = "fill"], line' = line
        PROVE  EventSet
    <3>1. /\ d1 \in Destinations /\ event'[d1] = [n |-> event[d1].n + 1, time |-> job.time, guest |-> TRUE]
          /\ \A d \in Destinations : d # d1 => event'[d] = event[d]
      BY <2>1, <2>2, CreatedSteps
    <3>2. event'[d1].time = job.time /\ event'[d1].guest
      BY <3>1
    <3>3. job'.pc = "fill" /\ job'.left = job.left /\ job'.time = job.time
      BY <1>1, <2>2, JobRecord DEF JobPcs
    <3> QED
      BY <1>3, <2>1, <2>2, <3>1, <3>2, <3>3 DEF EventSet, EventTimed, GoesOn
  <2> QED
    BY <1>5, <1>11, <2>1, <2>2 DEF CreateEvent, Release
<1>12. CASE Fill
  BY <1>2, <1>3, <1>9, <1>12 DEF Fill, NoEventChanges
<1>13. CASE UpdateEvent
  <2>1. job.pc = "move" /\ job.left # {}
    BY <1>13 DEF UpdateEvent
  <2>2. ASSUME event' = [event EXCEPT ![d1].time = job.time, ![d1].guest = TRUE], job' = Rest, line' = line
        PROVE  EventSet
    BY <1>3, <1>9, <2>1, <2>2, UpdateSteps DEF EventSet, EventTimed
  <2> QED
    BY <1>5, <1>13, <2>2 DEF UpdateEvent
<1>14. CASE DeleteEvent
  <2>1. job.pc = "remove" /\ job.left # {}
    BY <1>14 DEF DeleteEvent
  <2>2. ASSUME event' = [event EXCEPT ![d1].n = IF @ = 0 THEN 0 ELSE @ - 1], job' = Rest, line' = line
        PROVE  NoEventChanges
    <3>1. /\ event'[d1].time = event[d1].time /\ event'[d1].guest = event[d1].guest
          /\ \A d \in Destinations : d # d1 => event'[d] = event[d]
      BY <2>1, <2>2, DeleteSteps
    <3>2. SameEvents
      BY <3>1, Zenon DEF SameEvents
    <3> QED
      BY <1>3, <1>9, <2>1, <2>2, <3>2 DEF NoEventChanges
  <2> QED
    BY <1>5, <1>14, <2>2 DEF DeleteEvent
<1>15. CASE EndJob \/ Reinvited \/ JobDies
  BY <1>4, <1>15 DEF EndJob, EndRow, Reinvited, JobDies
<1>16. CASE ReinviteLooks
  <2>1. event' = event /\ job.pc # "idle"
    BY <1>16 DEF ReinviteLooks
  <2>2. CASE EndRow("done") \/ FailRow(Mine)
    BY <1>4, <2>1, <2>2 DEF EndRow, FailRow
  <2>3. CASE ~ (EndRow("done") \/ FailRow(Mine))
    <3>1. job'.pc \in {"takeoff", "putback"} /\ job'.time = job.time /\ line' = line
      BY <1>16, <2>3, ReinviteLooksSteps DEF ReinviteLooks
    <3>2. job.pc \notin {"decide", "mark", "move"}
      BY <1>16 DEF ReinviteLooks
    <3> QED
      BY <1>2, <1>3, <2>1, <3>1, <3>2 DEF NoEventChanges, GoesOn
  <2> QED
    BY <2>2, <2>3
<1>17. CASE TakeOff
  <2>1. ASSUME event' = [event EXCEPT ![d1].guest = FALSE, ![d1].time = job.time],
               job' = [job EXCEPT !.pc = "takenoff"], line' = line
        PROVE  GuestSet
    <3>1. job.pc = "takeoff"
      BY <1>17 DEF TakeOff
    <3>2. job'.pc = "takenoff" /\ job'.left = job.left /\ job'.time = job.time
      BY <1>1, <2>1, JobRecord DEF JobPcs
    <3> QED
      BY <1>3, <2>1, <3>1, <3>2, TakeOffSteps DEF GuestSet, EventTimed, GoesOn
  <2> QED
    BY <1>5, <1>17, <2>1 DEF TakeOff
<1>18. CASE PutBack
  <2>1. ASSUME event' = [event EXCEPT ![d1].guest = TRUE, ![d1].time = job.time],
               job' = [job EXCEPT !.pc = "reinvited"], line' = line
        PROVE  GuestSet
    <3>1. job.pc = "putback" /\ job.left # {}
      BY <1>18 DEF PutBack, Base, AtDest
    <3>2. job'.pc = "reinvited" /\ job'.left = job.left /\ job'.time = job.time
      BY <1>1, <2>1, JobRecord DEF JobPcs
    <3>3. event' = [event EXCEPT ![d1].time = job.time, ![d1].guest = TRUE]
      BY <2>1
    <3> QED
      BY <1>3, <2>1, <3>1, <3>2, <3>3, UpdateSteps DEF GuestSet, EventTimed, GoesOn
  <2> QED
    BY <1>5, <1>18, <2>1 DEF PutBack
<1>19. CASE TakenOff
  BY <1>6, <1>19, TakenOffKeeps DEF TakenOff, JobPcs
<1> QED
  BY <1>7, <1>8, <1>10, <1>11, <1>12, <1>13, <1>14, <1>15, <1>16, <1>17, <1>18, <1>19 DEF JobStep

Fine == \A i \in Rows : line[i].status \in {"pending", "done"}
IsChange(i) == line[i].action # "reinvite"
OneChange == \A i \in Rows : IsChange(i) => i = 1
NoneWaits == \A i \in Rows : IsChange(i) /\ line[i].status = "pending" => i = h
NoneLeft == \A i \in Rows : IsChange(i) => line[i].status # "pending"

(* Until it is moved a booking, its job and its events have one time.  An   *)
(* attempt with no change waiting behind it has read the booking's time; a  *)
(* move has set that of the events it has been to; and once no change is   *)
(* left, every event has it.                                               *)
FirstTime ==
    Whole /\ OneChange => booking.time = 1 /\ job.time = 1 /\ \A d \in Destinations : event[d].time = 1
ReadsTheTime ==
    job.pc # "idle" /\ booking.status = "accepted" /\ NoneWaits => job.time = booking.time
MovedSoFar ==
    Whole /\ FirstDone /\ job.pc # "idle" /\ Mine.action = "reschedule" =>
        \A d \in Destinations : d \notin job.left => event[d].time = job.time
TimesRight ==
    Whole /\ Fine /\ booking.status = "accepted" /\ line # <<>> /\ NoneLeft =>
        \A d \in Destinations : event[d].time = booking.time
Timed == FirstTime /\ ReadsTheTime /\ MovedSoFar /\ TimesRight

LEMMA InitTimed ==
  ASSUME CalendarBounds, Init
  PROVE  Timed
BY DEF Init, Timed, FirstTime, ReadsTheTime, MovedSoFar, TimesRight, FirstDone, NoJob

(* Of the rows, a step that is not the job's may append one. *)
LEMMA AsideChanges ==
  ASSUME CalendarBounds, Base, Aside
  PROVE  /\ Rows \subseteq Rows'
         /\ \A i \in Rows : line'[i].status = line[i].status /\ line'[i].action = line[i].action
         /\ \/ /\ booking' = booking /\ (line' = <<>> => line = <<>>) /\ (line = <<>> => line' = <<>>)
               /\ \A i \in Rows' \ Rows : line'[i].action = "reinvite"
            \/ \E i \in Rows' \ Rows : /\ line'[i].action # "reinvite" /\ line'[i].status = "pending"
                                       /\ i # 1 \/ booking' = booking
         /\ FirstDone' <=> FirstDone
<1>1. /\ \A i \in Rows : line'[i].status = line[i].status /\ line'[i].action = line[i].action
      /\ \/ Rows' = Rows /\ booking' = booking
         \/ /\ Rows' = Rows \cup {Len(line) + 1} /\ Len(line) + 1 \notin Rows
            /\ \/ \E c \in DOMAIN change : line'[Len(line) + 1] = NewRow("reinvite", c) /\ booking' = booking /\ line # <<>>
               \/ /\ \E a \in {"create", "reschedule", "delete"} : line'[Len(line) + 1] = NewRow(a, 0)
                  /\ line # <<>> \/ booking' = booking
  BY AsideRows
<1>2. line \in Seq(Row) /\ line' \in Seq(Row)
  BY BaseStep, AsideNext DEF Base, TypeOK
<1>3. /\ Rows = 1 .. Len(line) /\ Len(line) \in Nat /\ (line = <<>> <=> Len(line) = 0)
      /\ Rows' = 1 .. Len(line') /\ Len(line') \in Nat /\ (line' = <<>> <=> Len(line') = 0)
  BY <1>2, LineDomain, EmptySeq, LenProperties DEF Rows
<1>4. CASE Rows' = Rows /\ booking' = booking
  BY <1>1, <1>3, <1>4 DEF FirstDone
<1>5. ASSUME Rows' = Rows \cup {Len(line) + 1}, Len(line) + 1 \notin Rows, NEW c, booking' = booking,
             line'[Len(line) + 1] = NewRow("reinvite", c), line # <<>>
      PROVE  /\ (line' = <<>> => line = <<>>) /\ (line = <<>> => line' = <<>>)
             /\ \A i \in Rows' \ Rows : line'[i].action = "reinvite"
             /\ FirstDone' <=> FirstDone
  <2>1. line'[Len(line) + 1].action = "reinvite"
    BY <1>5 DEF NewRow
  <2>2. 1 \in Rows /\ line' # <<>>
    BY <1>3, <1>5
  <2> QED
    BY <1>1, <1>5, <2>1, <2>2 DEF FirstDone
<1>6. ASSUME Rows' = Rows \cup {Len(line) + 1}, Len(line) + 1 \notin Rows,
             NEW a \in {"create", "reschedule", "delete"}, line # <<>> \/ booking' = booking,
             line'[Len(line) + 1] = NewRow(a, 0)
      PROVE  /\ \E i \in Rows' \ Rows : /\ line'[i].action # "reinvite" /\ line'[i].status = "pending"
                                        /\ i # 1 \/ booking' = booking
             /\ FirstDone' <=> FirstDone
  <2> DEFINE n == Len(line) + 1
  <2>1. line'[n].action # "reinvite" /\ line'[n].status = "pending" /\ n \in Rows' \ Rows
    BY <1>6 DEF NewRow
  <2>2. n # 1 \/ booking' = booking
    BY <1>3, <1>6
  <2>3. FirstDone' <=> FirstDone
    BY <1>1, <1>3, <2>1 DEF FirstDone
  <2> HIDE DEF n
  <2> QED
    BY <2>1, <2>2, <2>3
<1> QED
  BY <1>1, <1>4, <1>5, <1>6

LEMMA AsideTimed ==
  ASSUME CalendarBounds, Base, Timed, Aside
  PROVE  Timed'
<1>1. /\ Rows \subseteq Rows' /\ (FirstDone' <=> FirstDone)
      /\ \A i \in Rows : line'[i].status = line[i].status /\ line'[i].action = line[i].action
      /\ \/ /\ booking' = booking /\ (line' = <<>> => line = <<>>) /\ (line = <<>> => line' = <<>>)
            /\ \A i \in Rows' \ Rows : line'[i].action = "reinvite"
         \/ \E i \in Rows' \ Rows : /\ line'[i].action # "reinvite" /\ line'[i].status = "pending"
                                    /\ i # 1 \/ booking' = booking
  BY AsideChanges
<1>2. job' = job /\ UNCHANGED <<event, torn>> /\ line \in Seq(Row)
  BY AsideRows DEF Base, TypeOK
<1>3. job.pc # "idle" => h' = h /\ Mine' = Mine /\ h \in Rows
  BY MineStays, MineFacts DEF Aside
<1>4. FirstTime'
  <2>1. OneChange' => OneChange
    BY <1>1 DEF OneChange, IsChange
  <2>2. OneChange' => booking' = booking
    BY <1>1 DEF OneChange, IsChange
  <2> QED
    BY <1>2, <2>1, <2>2 DEF Timed, FirstTime, Whole
<1>5. ReadsTheTime'
  <2> SUFFICES ASSUME job.pc # "idle", booking'.status = "accepted", NoneWaits'
               PROVE  job.time = booking'.time
    BY <1>2 DEF ReadsTheTime
  <2>1. h' = h /\ h \in Rows
    BY <1>3
  <2>2. booking' = booking
    BY <1>1, <2>1 DEF NoneWaits, IsChange
  <2>3. NoneWaits
    BY <1>1, <2>1 DEF NoneWaits, IsChange
  <2> QED
    BY <2>2, <2>3 DEF Timed, ReadsTheTime
<1>6. MovedSoFar'
  BY <1>1, <1>2, <1>3 DEF Timed, MovedSoFar, Whole
<1>7. TimesRight'
  <2> SUFFICES ASSUME Whole', Fine', booking'.status = "accepted", line' # <<>>, NoneLeft'
               PROVE  \A d \in Destinations : event[d].time = booking'.time
    BY <1>2 DEF TimesRight
  <2>1. booking' = booking /\ line # <<>>
    BY <1>1 DEF NoneLeft, IsChange
  <2>2. NoneLeft /\ Fine
    BY <1>1 DEF NoneLeft, IsChange, Fine
  <2> QED
    BY <1>2, <2>1, <2>2 DEF Timed, TimesRight, Whole
<1> QED
  BY <1>4, <1>5, <1>6, <1>7 DEF Timed

LEMMA JobReads ==
  ASSUME CalendarBounds, Base, Timed, JobStep \/ JobDies, Whole, Whole'
  PROVE  FirstTime'
<1>1. JobKeeps /\ (AttemptEnds \/ AttemptBegins \/ NoEventChanges \/ EventSet \/ GuestSet)
  BY JobStepKeeps, EventSteps
<1>2. OneChange' => OneChange
  BY <1>1 DEF JobKeeps, Steady, OneChange, IsChange, Rows
<1>3. booking' = booking
  BY <1>1 DEF JobKeeps
<1> SUFFICES ASSUME OneChange'
             PROVE  job'.time = 1 /\ \A d \in Destinations : event'[d].time = 1
  BY <1>2, <1>3 DEF Timed, FirstTime
<1>4. booking.time = 1 /\ job.time = 1 /\ \A d \in Destinations : event[d].time = 1
  BY <1>2 DEF Timed, FirstTime
<1>5. job'.time = 1
  BY <1>1, <1>4, NoJobType DEF AttemptEnds, AttemptBegins, NoEventChanges, EventSet, GuestSet, GoesOn
<1>6. SameEvents \/ EventTimed
  BY <1>1 DEF AttemptEnds, AttemptBegins, NoEventChanges, EventSet, GuestSet
<1> QED
  BY <1>4, <1>5, <1>6 DEF SameEvents, EventTimed

(* The time an attempt works with is read once, at its start. *)
LEMMA JobTime ==
  ASSUME CalendarBounds, Base, JobStep \/ JobDies, job'.pc # "idle"
  PROVE  /\ SameStatus /\ Steady /\ AnyPending /\ h' = h /\ Mine'.action = Mine.action
         /\ booking' = booking
         /\ \/ job.pc = "idle" /\ job'.time = booking.time /\ Begin
            \/ job.pc # "idle" /\ job'.time = job.time
<1>1. JobKeeps /\ line \in Seq(Row) /\ job \in Job
  BY JobStepKeeps DEF Base, TypeOK
<1>2. job' # NoJob
  BY DEF NoJob
<1>3. SameStatus /\ Steady /\ AnyPending /\ booking' = booking
  BY <1>1, <1>2 DEF JobKeeps
<1>4. h' = h /\ Mine'.action = Mine.action
  BY <1>1, <1>3, HeadStays
<1>5. ~ FailRow(Mine) /\ ~ EndRow("done") /\ ~ EndRow("skipped") /\ ~ FailRow([Mine EXCEPT !.looks = @ + 1])
  BY <1>2 DEF FailRow, EndRow
<1>6. CASE Begin
  BY <1>3, <1>4, <1>5, <1>6 DEF Begin
<1>7. ASSUME NEW pc \in JobPcs, job' = [job EXCEPT !.pc = pc]
      PROVE  job'.time = job.time
  BY <1>1, <1>7, JobRecord
<1>8. CASE Decide \/ DecideRemoval \/ Mark
  <2>1. job.pc \in {"decide", "mark"} /\ Mine.action # "reinvite"
    BY <1>8 DEF Decide, DecideRemoval, Mark, Base, PcFits, FitsJob
  <2>2. Mine \in Row /\ Act \in {"remove", "move", "claim"}
    BY <2>1, MineFacts, ActFits
  <2>3. ASSUME NEW invite \in BOOLEAN, NEW pc \in {Act, "mark"}, Decided(invite, pc)
        PROVE  job'.time = job.time
    BY <1>1, <2>2, <2>3, DecidedRecord DEF JobPcs
  <2>4. ASSUME Mark
        PROVE  job'.time = job.time
    BY <1>7, <2>2, <2>4 DEF Mark, JobPcs
  <2>5. job'.time = job.time
    BY <1>5, <1>8, <2>3, <2>4 DEF Decide, DecideRemoval
  <2> QED
    BY <1>3, <1>4, <2>1, <2>5
<1>9. ASSUME job.pc \in {"claim", "fill", "move", "remove"}, job' = Rest
      PROVE  job'.time = job.time
  BY <1>9, RestSteps
<1>10. CASE Claim \/ CreateEvent \/ Fill \/ UpdateEvent \/ DeleteEvent
  <2>1. job'.time = job.time /\ job.pc # "idle"
    BY <1>5, <1>7, <1>9, <1>10 DEF Claim, CreateEvent, Release, Fill, UpdateEvent, DeleteEvent, JobPcs
  <2> QED
    BY <1>3, <1>4, <2>1
<1>11. CASE ReinviteLooks
  <2>1. job'.time = job.time /\ job.pc # "idle"
    BY <1>5, <1>11, ReinviteLooksSteps DEF ReinviteLooks
  <2> QED
    BY <1>3, <1>4, <2>1
<1>12. CASE TakeOff \/ TakenOff \/ PutBack
  <2>1. job'.time = job.time /\ job.pc # "idle"
    BY <1>5, <1>7, <1>12 DEF TakeOff, TakenOff, PutBack, JobPcs
  <2> QED
    BY <1>3, <1>4, <2>1
<1>13. ~ EndJob /\ ~ Reinvited /\ ~ JobDies
  BY <1>2, <1>5 DEF EndJob, Reinvited, JobDies
<1> QED
  BY <1>6, <1>8, <1>10, <1>11, <1>12, <1>13 DEF JobStep

LEMMA JobReadsTheTime ==
  ASSUME CalendarBounds, Base, Timed, JobStep \/ JobDies
  PROVE  ReadsTheTime'
<1> SUFFICES ASSUME job'.pc # "idle", booking'.status = "accepted", NoneWaits'
             PROVE  job'.time = booking'.time
  BY DEF ReadsTheTime
<1>1. /\ SameStatus /\ Steady /\ h' = h /\ booking' = booking
      /\ \/ job.pc = "idle" /\ job'.time = booking.time
         \/ job.pc # "idle" /\ job'.time = job.time
  BY JobTime
<1>2. NoneWaits
  BY <1>1 DEF NoneWaits, IsChange, SameStatus, Steady, Rows
<1> QED
  BY <1>1, <1>2 DEF Timed, ReadsTheTime

LEMMA JobMoved ==
  ASSUME CalendarBounds, Base, Listed, Timed, JobStep \/ JobDies, Whole, Whole'
  PROVE  MovedSoFar'
<1> SUFFICES ASSUME FirstDone', job'.pc # "idle", Mine'.action = "reschedule"
             PROVE  \A d \in Destinations : d \notin job'.left => event'[d].time = job'.time
  BY DEF MovedSoFar
<1>1. /\ SameStatus /\ Steady /\ AnyPending /\ Mine.action = "reschedule" /\ line \in Seq(Row)
  BY JobTime DEF Base, TypeOK
<1>2. FirstDone
  BY <1>1, EmptySeq, LineDomain DEF FirstDone, SameStatus, Steady
<1>3. AttemptBegins \/ NoEventChanges \/ EventSet \/ GuestSet
  BY EventSteps DEF AttemptEnds, NoJob
<1>4. AllFilled
  BY <1>1, <1>2 DEF Listed, FilledSince, MayStand
<1>5. CASE AttemptBegins
  <2>1. Filled = Destinations
    BY <1>4 DEF AllFilled, Filled
  <2> QED
    BY <1>1, <1>5, <2>1 DEF AttemptBegins, Work
<1>6. CASE job.pc # "idle"
  <2>1. job \in Job
    BY DEF Base, TypeOK
  <2>2. job.pc \in {"decide", "mark", "move"}
    BY <1>1, <1>2, <1>6, <2>1 DEF Base, PcFits, FitsJob, ReinvitePcs, Listed, WritesFirst, Job
  <2>3. \A d \in Destinations : d \notin job.left => event[d].time = job.time
    BY <1>1, <1>2, <1>6 DEF Timed, MovedSoFar
  <2>4. CASE NoEventChanges
    BY <2>2, <2>3, <2>4 DEF NoEventChanges, GoesOn, SameEvents
  <2>5. CASE EventSet
    BY <2>2, <2>3, <2>5 DEF EventSet, GoesOn, EventTimed
  <2> QED
    BY <1>3, <1>6, <2>2, <2>4, <2>5 DEF AttemptBegins, GuestSet
<1> QED
  BY <1>3, <1>5, <1>6 DEF AttemptBegins, NoEventChanges, EventSet, GuestSet, GoesOn

LEMMA JobTimesRight ==
  ASSUME CalendarBounds, Base, Listed, Timed, JobStep \/ JobDies, Whole, Whole'
  PROVE  TimesRight'
<1> SUFFICES ASSUME Fine', booking'.status = "accepted", line' # <<>>, NoneLeft'
             PROVE  \A d \in Destinations : event'[d].time = booking'.time
  BY DEF TimesRight
<1>1. /\ JobKeeps /\ AnyPending /\ line \in Seq(Row) /\ Steady /\ booking' = booking
      /\ h \in Rows /\ Mine = line[h] /\ Mine.status = "pending" /\ Rows' = Rows
      /\ \A i \in Rows : i # h => line'[i].status = line[i].status
      /\ \A j \in Rows : j < h => line[j].status # "pending"
  <2>1. /\ JobKeeps /\ AnyPending /\ line \in Seq(Row) /\ Steady /\ booking' = booking
    BY JobStepKeeps DEF JobKeeps, Base, TypeOK
  <2> QED
    BY <2>1, HeadFacts DEF JobKeeps, SameStatus, HeadBecomes, Steady, Rows
<1>2. Fine /\ line # <<>>
  BY <1>1, EmptySeq DEF Fine, Steady, Rows
<1>3. NoneWaits
  BY <1>1 DEF NoneWaits, NoneLeft, IsChange, Steady
<1>4. CASE NoneLeft
  <2>1. Mine.action = "reinvite"
    BY <1>1, <1>4 DEF NoneLeft, IsChange
  <2>2. \A d \in Destinations : event[d].time = booking.time
    BY <1>1, <1>2, <1>4 DEF Timed, TimesRight
  <2>3. SameEvents \/ GuestSet
    BY <2>1, EventSteps DEF AttemptEnds, AttemptBegins, NoEventChanges, EventSet, Base, PcFits, FitsJob
  <2>4. CASE GuestSet
    <3>1. job.time = booking.time
      BY <1>1, <1>3, <2>4 DEF GuestSet, GoesOn, Timed, ReadsTheTime
    <3> QED
      BY <1>1, <2>2, <2>4, <3>1 DEF GuestSet, EventTimed
  <2> QED
    BY <1>1, <2>2, <2>3, <2>4 DEF SameEvents
<1>5. CASE ~ NoneLeft
  <2>1. IsChange(h) /\ line'[h].status = "done" /\ line[h].status = "pending"
    <3>1. PICK i \in Rows : IsChange(i) /\ line[i].status = "pending"
      BY <1>5 DEF NoneLeft
    <3>2. i = h
      BY <1>3, <3>1 DEF NoneWaits
    <3>3. line'[h].status # "pending"
      BY <1>1, <3>1, <3>2 DEF NoneLeft, IsChange, Steady
    <3> QED
      BY <1>1, <3>1, <3>2, <3>3 DEF Fine
  <2>2. Mine.action # "delete" /\ Mine.action # "reinvite"
    BY <1>1, <2>1 DEF IsChange, Base, DeleteLast, Cancelled
  <2>3. Mine.action \in {"create", "reschedule"}
    BY <1>1, <2>2, LineDomain DEF Row
  <2>4. job.pc \in {"claim", "move"} /\ job.left = {} /\ event' = event
    BY <1>1, <2>1, <2>3, DoneSteps
  <2>5. CASE Mine.action = "create"
    <3>1. h = 1
      BY <1>1, <2>5 DEF Base, FirstCreates
    <3>2. OneChange
      <4> SUFFICES ASSUME NEW i \in Rows, IsChange(i)
                   PROVE  i = 1
        BY DEF OneChange
      <4>1. 1 < i => line[i].status = "pending"
        BY <1>1, <2>1, <3>1 DEF Base, InTurn
      <4>2. i = 1 \/ 1 < i
        BY <1>1, LineDomain
      <4> QED
        BY <1>3, <3>1, <4>1, <4>2 DEF NoneWaits
    <3> QED
      BY <1>1, <2>4, <3>2 DEF Timed, FirstTime
  <2>6. CASE Mine.action = "reschedule"
    <3>1. 1 \in Rows /\ 1 < h
      <4>1. h # 1 /\ Rows = 1 .. Len(line) /\ Len(line) \in Nat
        BY <1>1, <2>6, LineDomain DEF Base, FirstCreates
      <4> QED
        BY <1>1, <4>1
    <3>2. FirstDone
      BY <1>1, <1>2, <3>1 DEF FirstDone, Fine
    <3>3. \A d \in Destinations : event[d].time = job.time
      BY <2>4, <2>6, <3>2 DEF Timed, MovedSoFar
    <3>4. job.time = booking.time
      BY <1>1, <1>3, <2>4 DEF Timed, ReadsTheTime
    <3> QED
      BY <1>1, <2>4, <3>3, <3>4
  <2> QED
    BY <2>3, <2>5, <2>6
<1> QED
  BY <1>4, <1>5

LEMMA TimedStep ==
  ASSUME CalendarBounds, Base, Written, Listed, Timed, [Next]_vars
  PROVE  Timed'
<1>1. CASE Aside
  BY <1>1, AsideTimed
<1>2. CASE JobStep \/ JobDies
  <2>1. Whole' => Whole
    BY <1>2, RefSteps
  <2> QED
    BY <1>2, <2>1, JobReads, JobReadsTheTime, JobMoved, JobTimesRight
       DEF Timed, FirstTime, MovedSoFar, TimesRight
<1> QED
  BY <1>1, <1>2 DEF Next, Aside

(* The change a reinvite makes up for was written quietly, and is owed an   *)
(* invitation for as long as its mail has given up and no one has made one. *)
RedoPcs == {"takeoff", "takenoff", "putback", "reinvited"}
Owing(m) == \A o \in Rows : line[o].mail = m /\ line[o].action # "reinvite" => line[o].muted /\ ~ line[o].reinvited
GaveUp(m) == m \in Changes /\ mail[m].status \in {"ended", "gone"}
ReinvitesGuest == Mine.action = "reinvite" /\ Owing(Mine.mail) /\ GaveUp(Mine.mail)

Reinviting ==
    job.pc \in RedoPcs =>
        /\ job.left = {Inviting(Filled)} /\ job.inviting = Inviting(Filled) /\ job.invite
        /\ Filled # {} /\ ReinvitesGuest
GuestsOn ==
    Whole /\ Fine => \A d \in Destinations : ref[d] = "filled" /\ ~ event[d].guest =>
        AnyPending /\ d = Inviting(Filled) /\ ReinvitesGuest /\ job.pc # "reinvited"
FillsGuest == Whole /\ job.pc = "fill" => event[d1].guest
Guests == Reinviting /\ GuestsOn /\ FillsGuest

LEMMA InitGuests ==
  ASSUME CalendarBounds, Init
  PROVE  Guests
BY DEF Init, Guests, Reinviting, GuestsOn, FillsGuest, NoJob, RedoPcs

(* No step that is not the job's marks a row with a mail that is marked     *)
(* already.                                                                *)
LEMMA AsideMarked ==
  ASSUME CalendarBounds, Base, Marks, Aside, NEW m \in Changes, Closed(m), NEW o \in Rows',
         line'[o].mail = m, line'[o].action # "reinvite"
  PROVE  o \in Rows /\ line[o].mail = m /\ line[o].action # "reinvite"
<1>1. m # 0
  BY DEF Changes
<1>2. CASE line' = line
  BY <1>2 DEF Rows
<1>3. ASSUME NEW c \in DOMAIN change, Tag(c)
      PROVE  o \in Rows /\ line[o].mail = m /\ line[o].action # "reinvite"
  <2>1. /\ Steady /\ change[c].todo = "tag"
        /\ \/ line' = line
           \/ \E i \in Rows : line'[i].mail = c /\ \A j \in Rows : j # i => line'[j] = line[j]
    BY <1>3, TagSteps
  <2>2. c # m
    BY <2>1 DEF Closed
  <2> QED
    BY <2>1, <2>2 DEF Steady, Rows
<1>4. CASE Accept \/ Move \/ Cancel
  <2>1. /\ Rows' = Rows \cup {Len(line) + 1} /\ \A i \in Rows : line'[i] = line[i]
        /\ \E action \in {"create", "reschedule", "delete"} : line'[Len(line) + 1] = NewRow(action, 0)
    BY <1>4, ChangesKeep DEF Rows
  <2>2. line'[Len(line) + 1].mail = 0
    BY <2>1 DEF NewRow
  <2> QED
    BY <1>1, <2>1, <2>2
<1>5. ASSUME NEW c \in DOMAIN change, AfterGaveUp(c)
      PROVE  o \in Rows /\ line[o].mail = m /\ line[o].action # "reinvite"
  <2>1. c \in 0 .. MaxChanges /\ (line' = line \/ line' = Append(line, NewRow("reinvite", c)))
    BY <1>5, GaveUpSteps
  <2>2. ASSUME line' = Append(line, NewRow("reinvite", c))
        PROVE  o \in Rows /\ line'[o] = line[o]
    <3>1. /\ Rows' = Rows \cup {Len(line) + 1} /\ \A i \in Rows : line'[i] = line[i]
          /\ line'[Len(line) + 1] = NewRow("reinvite", c)
      BY <2>1, <2>2, AppendKeeps DEF Rows
    <3>2. line'[Len(line) + 1].action = "reinvite"
      BY <3>1 DEF NewRow
    <3> QED
      BY <3>1, <3>2
  <2> QED
    BY <1>2, <2>1, <2>2
<1> QED
  BY <1>2, <1>3, <1>4, <1>5 DEF Aside, RequestStep, MailStep, QueueMail, SendMail, MailAnswer, MailEnds, vars

LEMMA OwingKept ==
  ASSUME CalendarBounds, Base, Marks, Aside, NEW m \in Changes, Closed(m), Owing(m)
  PROVE  Owing(m)'
<1>1. \A i \in Rows : line'[i].muted = line[i].muted /\ line'[i].reinvited = line[i].reinvited
  BY AsideRows
<1>2. \A o \in Rows' : line'[o].mail = m /\ line'[o].action # "reinvite" =>
          o \in Rows /\ line[o].mail = m /\ line[o].action # "reinvite"
  BY AsideMarked
<1>3. SUFFICES ASSUME NEW o \in Rows', line'[o].mail = m, line'[o].action # "reinvite"
               PROVE  line'[o].muted /\ ~ line'[o].reinvited
  BY Zenon DEF Owing
<1>4. o \in Rows /\ line[o].mail = m /\ line[o].action # "reinvite"
  BY <1>2, <1>3
<1>5. line[o].muted /\ ~ line[o].reinvited
  BY <1>4 DEF Owing
<1> QED
  BY <1>1, <1>4, <1>5, Zenon

(* The row at the head of the line stays there. *)
LEMMA AsideHead ==
  ASSUME CalendarBounds, Base, Aside, AnyPending
  PROVE  /\ h' = h /\ AnyPending' /\ h \in Rows /\ Mine = line[h]
         /\ line'[h].status = line[h].status /\ line'[h].action = line[h].action
<1>1. line \in Seq(Row) /\ line' \in Seq(Row)
  BY BaseStep, AsideNext DEF Base, TypeOK
<1>2. /\ h \in Rows /\ Mine = line[h] /\ line[h].status = "pending"
      /\ \A j \in Rows : j < h => line[j].status # "pending"
  BY <1>1, HeadFacts
<1>3. /\ \A i \in Rows : line'[i].status = line[i].status /\ line'[i].action = line[i].action
      /\ Rows \subseteq Rows' /\ \A i \in Rows' \ Rows : h < i
  <2>1. /\ \A i \in Rows : line'[i].status = line[i].status /\ line'[i].action = line[i].action
        /\ Rows' = Rows \/ (Rows' = Rows \cup {Len(line) + 1} /\ \A i \in Rows : i < Len(line) + 1)
    BY AsideRows
  <2> QED
    BY <1>2, <2>1
<1>4. h \in DOMAIN line' /\ line'[h].status = "pending" /\ \A j \in DOMAIN line' : j < h => line'[j].status # "pending"
  <2>1. \A i \in Rows : i \in Nat
    BY <1>1, LineDomain
  <2>2. \A j \in Rows' : j < h => j \in Rows
    BY <1>1, <1>2, <1>3, <2>1, LenProperties DEF Rows
  <2> QED
    BY <1>2, <1>3, <2>2 DEF Rows
<1>5. h' = h /\ AnyPending'
  BY <1>1, <1>4, HeadOfOnly, HeadIs
<1> QED
  BY <1>2, <1>3, <1>5

(* The reinvite at the head of the line stays there. *)
LEMMA AsideReinvites ==
  ASSUME CalendarBounds, Base, Marks, Hearing, Aside, AnyPending, ReinvitesGuest
  PROVE  AnyPending' /\ ReinvitesGuest'
<1>1. /\ h' = h /\ AnyPending' /\ h \in Rows /\ Mine = line[h]
      /\ line'[h].status = line[h].status /\ line'[h].action = line[h].action
  BY AsideHead
<1>6. Mine.mail \in Changes /\ Mine.action = "reinvite"
  BY DEF ReinvitesGuest, GaveUp
<1>7. Mine'.action = "reinvite" /\ Mine'.mail = Mine.mail
  <2>1. RowsKept
    BY RowsKeptStep, AsideNext
  <2>2. line'[h].mail = line[h].mail
    BY <1>1, <1>6, <2>1 DEF RowsKept, Changes
  <2> QED
    BY <1>1, <1>6, <2>2, HeadIs
<1>8. Closed(Mine.mail)
  BY <1>1, <1>6 DEF Marks, MarksClosed, Changes
<1>9. MailKept
  BY MailKeptStep, AsideNext DEF Hearing
<1>10. GaveUp(Mine.mail) /\ Owing(Mine.mail)
  BY DEF ReinvitesGuest
<1>11. PICK m : m = Mine.mail
  OBVIOUS
<1>12. Owing(m)' /\ GaveUp(m)'
  BY <1>6, <1>8, <1>9, <1>10, <1>11, OwingKept DEF GaveUp, MailKept
<1> QED
  BY <1>1, <1>7, <1>11, <1>12 DEF ReinvitesGuest, Owing, GaveUp

LEMMA AsideGuests ==
  ASSUME CalendarBounds, Base, Marks, Hearing, Guests, Aside
  PROVE  Guests'
<1>1. job' = job /\ d1' = d1 /\ UNCHANGED <<ref, event, torn>> /\ Filled' = Filled
  BY AsideRows DEF d1, Filled
<1>2. Fine' => Fine
  BY AsideChanges DEF Fine
<1>3. AnyPending /\ ReinvitesGuest => AnyPending' /\ ReinvitesGuest'
  BY AsideReinvites
<1>4. Reinviting'
  <2> SUFFICES ASSUME job.pc \in RedoPcs
               PROVE  /\ job.left = {Inviting(Filled)} /\ job.inviting = Inviting(Filled) /\ job.invite
                      /\ Filled # {} /\ ReinvitesGuest'
    BY <1>1 DEF Reinviting, RedoPcs, Inviting, First
  <2>1. job.pc # "idle"
    BY DEF RedoPcs
  <2> QED
    BY <1>3, <2>1, MineFacts DEF Guests, Reinviting
<1>5. GuestsOn'
  <2> SUFFICES ASSUME Whole, Fine, NEW d \in Destinations, ref[d] = "filled", ~ event[d].guest
               PROVE  AnyPending' /\ d = Inviting(Filled) /\ ReinvitesGuest' /\ job.pc # "reinvited"
    BY <1>1, <1>2 DEF GuestsOn, Whole, Inviting, First
  <2> QED
    BY <1>3 DEF Guests, GuestsOn
<1>6. FillsGuest'
  BY <1>1 DEF Guests, FillsGuest, Whole
<1> QED
  BY <1>4, <1>5, <1>6 DEF Guests

(* While a reinvite is at work the references stay, and so do the rows but  *)
(* for what it records at its end.                                         *)
LEMMA RedoKeepsRefs ==
  ASSUME CalendarBounds, Base, JobStep \/ JobDies, Mine.action = "reinvite"
  PROVE  ref' = ref
<1>1. job.pc \notin {"claim", "create", "fill", "remove"}
  BY DEF Base, PcFits, FitsJob
<1> QED
  BY <1>1 DEF JobStep, Begin, Decide, DecideRemoval, Mark, Claim, CreateEvent, Fill, UpdateEvent,
     DeleteEvent, EndJob, ReinviteLooks, TakeOff, TakenOff, PutBack, Reinvited, JobDies

LEMMA RedoKeepsOwing ==
  ASSUME CalendarBounds, Base, JobStep \/ JobDies, ~ Reinvited, Mine.action = "reinvite", Owing(Mine.mail),
         NEW m, m = Mine.mail
  PROVE  Owing(m)'
<1>1. JobKeeps /\ Rows' = Rows
  BY JobStepKeeps DEF JobKeeps, Steady, Rows
<1>2. SameMuted /\ \A i \in Rows : line'[i].reinvited = line[i].reinvited
  <2>1. job.pc \notin {"decide", "mark", "claim", "create", "fill", "move", "remove"}
    BY DEF Base, PcFits, FitsJob
  <2>2. AnyPending /\ UNCHANGED <<booking, change>>
    BY <1>1 DEF JobKeeps
  <2>3. CASE line' = line
    BY <2>3 DEF SameMuted
  <2>4. CASE job.pc # "idle" /\ FailRow(Mine)
    BY <2>2, <2>4, FailKeeps DEF SameRedo
  <2>5. CASE EndRow("done") \/ EndRow("skipped")
    BY <2>2, <2>5, EndKeeps DEF SameRedo
  <2>6. CASE TakenOff
    BY <2>6, TakenOffKeeps
  <2> QED
    BY <2>1, <2>3, <2>4, <2>5, <2>6 DEF JobStep, Begin, Decide, DecideRemoval, Mark, Claim, CreateEvent, Fill,
       UpdateEvent, DeleteEvent, EndJob, ReinviteLooks, TakeOff, PutBack, Reinvited, JobDies
<1>3. SUFFICES ASSUME NEW o \in Rows', line'[o].mail = m, line'[o].action # "reinvite"
               PROVE  line'[o].muted /\ ~ line'[o].reinvited
  BY Zenon DEF Owing
<1>4. o \in Rows /\ line[o].mail = m /\ line[o].action # "reinvite"
  BY <1>1, <1>3 DEF JobKeeps, SameMail, Steady
<1>5. line[o].muted /\ ~ line[o].reinvited
  BY <1>4 DEF Owing
<1>6. line'[o].muted = line[o].muted /\ line'[o].reinvited = line[o].reinvited
  BY <1>2, <1>4 DEF SameMuted
<1> QED
  BY <1>5, <1>6, Zenon

LEMMA ReinvitesOn ==
  ASSUME CalendarBounds, Base, Hearing, JobStep \/ JobDies, SameStatus, ReinvitesGuest
  PROVE  AnyPending' /\ ReinvitesGuest'
<1>1. JobKeeps /\ line \in Seq(Row) /\ Steady /\ AnyPending /\ SameMail
  BY JobStepKeeps DEF JobKeeps, Base, TypeOK
<1>2. h' = h /\ AnyPending' /\ Mine' = line'[h] /\ Mine'.action = Mine.action /\ h \in Rows /\ Mine = line[h]
      /\ Mine.status = "pending"
  BY <1>1, HeadStays, HeadFacts
<1>3. Mine'.mail = Mine.mail
  BY <1>1, <1>2 DEF SameMail
<1>4. ~ Reinvited
  <2>1. ASSUME Reinvited PROVE line'[h].status = "done"
    BY <2>1, ReinvitedSteps DEF HeadBecomes
  <2> QED
    BY <1>2, <2>1 DEF SameStatus
<1>5. MailKept
  BY MailKeptStep DEF Hearing, Next
<1>6. PICK m : m = Mine.mail
  OBVIOUS
<1>7. Owing(m)'
  BY <1>4, <1>6, RedoKeepsOwing DEF ReinvitesGuest
<1>8. GaveUp(m)'
  BY <1>5, <1>6 DEF ReinvitesGuest, GaveUp, MailKept
<1> QED
  BY <1>2, <1>3, <1>6, <1>7, <1>8 DEF ReinvitesGuest, Owing, GaveUp

(* A reinvite that is owed does not end before it has been made. *)
LEMMA OwedIsMade ==
  ASSUME CalendarBounds, Base, JobStep \/ JobDies, AnyPending, ReinvitesGuest, Filled # {},
         job.pc # "reinvited", Fine'
  PROVE  SameStatus
<1>1. JobKeeps /\ line \in Seq(Row) /\ h \in Rows /\ Mine = line[h] /\ Mine.status = "pending" /\ Rows' = Rows
  BY JobStepKeeps, HeadFacts DEF JobKeeps, Base, TypeOK, Steady, Rows
<1>2. Wanted
  BY OwedFacts DEF Wanted, ReinvitesGuest, Owing
<1>3. MailStatus \in {"ended", "gone"}
  BY DEF ReinvitesGuest, GaveUp, MailStatus, Changes
<1> SUFFICES ASSUME ~ SameStatus
             PROVE  FALSE
  OBVIOUS
<1>4. line'[h].status = "done"
  BY <1>1 DEF Fine, JobKeeps, SameStatus, HeadBecomes
<1>5. ReinviteLooks \/ Reinvited
  BY <1>1, <1>4, DoneSteps DEF ReinvitesGuest
<1>6. ReinviteLooks
  BY <1>5 DEF Reinvited
<1>7. line' = line
  BY <1>2, <1>3, <1>6 DEF ReinviteLooks
<1> QED
  BY <1>7 DEF SameStatus

LEMMA JobGuestsOn ==
  ASSUME CalendarBounds, Base, Written, Hearing, Guests, JobStep \/ JobDies, Whole, Whole'
  PROVE  GuestsOn'
<1> SUFFICES ASSUME Fine', NEW d \in Destinations, ref'[d] = "filled", ~ event'[d].guest
             PROVE  AnyPending' /\ d = Inviting(Filled') /\ ReinvitesGuest' /\ job'.pc # "reinvited"
  BY DEF GuestsOn, Inviting, First
<1>1. /\ JobKeeps /\ AnyPending /\ line \in Seq(Row) /\ Steady
      /\ h \in Rows /\ Mine = line[h] /\ Mine.status = "pending" /\ Rows' = Rows
      /\ \A i \in Rows : i # h => line'[i].status = line[i].status
  <2>1. /\ JobKeeps /\ AnyPending /\ line \in Seq(Row) /\ Steady
    BY JobStepKeeps DEF JobKeeps, Base, TypeOK
  <2> QED
    BY <2>1, HeadFacts DEF JobKeeps, SameStatus, HeadBecomes, Steady, Rows
<1>2. Fine
  BY <1>1 DEF Fine
<1>3. AttemptEnds \/ AttemptBegins \/ NoEventChanges \/ EventSet \/ GuestSet
  BY EventSteps
<1>4. CASE Mine.action # "reinvite"
  <2>1. \A e \in Destinations : ref[e] = "filled" => event[e].guest
    BY <1>2, <1>4 DEF Guests, GuestsOn, ReinvitesGuest
  <2>2. ~ GuestSet
    BY <1>4 DEF GuestSet, Base, PcFits, FitsJob, ReinvitePcs
  <2>3. event[d].guest => event'[d].guest
    BY <1>3, <2>2 DEF AttemptEnds, AttemptBegins, NoEventChanges, EventSet, EventTimed, SameEvents
  <2>4. ref[d] # "filled"
    BY <2>1, <2>3
  <2>5. RefFilled /\ d = d1
    BY <2>4, RefSteps, RemovalFrees
       DEF RefsStay, RefClaimed, EventWritten, RefReleased, RefFilled, OtherRefs
  <2>6. event[d1].guest
    BY <2>5 DEF RefFilled, Guests, FillsGuest
  <2> QED
    BY <2>3, <2>5, <2>6
<1>5. CASE Mine.action = "reinvite"
  <2>1. ref' = ref /\ Filled' = Filled
    BY <1>5, RedoKeepsRefs DEF Filled
  <2>2. ~ EventSet
    BY <1>5 DEF EventSet, Base, PcFits, FitsJob
  <2>3. GuestSet => job.left = {Inviting(Filled)} /\ d1 = Inviting(Filled) /\ ReinvitesGuest
    <3> SUFFICES ASSUME GuestSet
                 PROVE  job.left = {Inviting(Filled)} /\ d1 = Inviting(Filled) /\ ReinvitesGuest
      OBVIOUS
    <3>1. job.left = {Inviting(Filled)} /\ ReinvitesGuest
      BY DEF GuestSet, Guests, Reinviting, RedoPcs
    <3> QED
      BY <3>1, NextDest
  <2>4. d = Inviting(Filled) /\ ReinvitesGuest /\ Filled # {} /\ job.pc # "reinvited"
    <3>1. d \in Filled
      BY <2>1 DEF Filled
    <3>2. CASE event[d].guest
      <4>1. GuestSet /\ d = d1 /\ job.pc = "takeoff"
        BY <1>3, <2>2, <3>2 DEF AttemptEnds, AttemptBegins, NoEventChanges, SameEvents, GuestSet, EventTimed
      <4> QED
        BY <2>3, <3>1, <4>1
    <3>3. CASE ~ event[d].guest
      BY <1>2, <2>1, <3>1, <3>3 DEF Guests, GuestsOn
    <3> QED
      BY <3>2, <3>3
  <2>5. SameStatus
    BY <1>1, <2>4, OwedIsMade
  <2>6. AnyPending' /\ ReinvitesGuest'
    BY <2>4, <2>5, ReinvitesOn
  <2>7. job'.pc # "reinvited"
    <3> SUFFICES ASSUME job'.pc = "reinvited"
                 PROVE  FALSE
      OBVIOUS
    <3>1. GuestSet /\ event'[d1].guest
      BY <1>3, <2>2 DEF AttemptEnds, NoJob, AttemptBegins, NoEventChanges, GuestSet
    <3> QED
      BY <2>3, <2>4, <3>1
  <2> QED
    BY <2>1, <2>4, <2>6, <2>7
<1> QED
  BY <1>4, <1>5

(* How an attempt is, or stays, on the organizer's event.                   *)
LEMMA RedoSteps ==
  ASSUME CalendarBounds, Base, JobStep \/ JobDies, job'.pc \in RedoPcs
  PROVE  /\ ReinviteLooks \/ TakeOff \/ TakenOff \/ PutBack
         /\ Mine.action = "reinvite"
<1>1. job \in Job
  BY DEF Base, TypeOK
<1>2. job' # NoJob
  BY DEF NoJob, RedoPcs
<1>3. ASSUME NEW pc \in JobPcs, pc \notin RedoPcs, job' = [job EXCEPT !.pc = pc]
      PROVE  FALSE
  BY <1>1, <1>3, JobRecord
<1>4. ASSUME job.pc \in {"claim", "fill", "move", "remove"}, job' = Rest
      PROVE  FALSE
  BY <1>4, RestSteps DEF RedoPcs
<1>5. ~ Decide /\ ~ DecideRemoval /\ ~ Mark
  <2> SUFFICES ASSUME Decide \/ DecideRemoval \/ Mark
               PROVE  FALSE
    OBVIOUS
  <2>1. job.pc \in {"decide", "mark"} /\ Mine.action # "reinvite"
    BY DEF Decide, DecideRemoval, Mark, Base, PcFits, FitsJob
  <2>2. Mine \in Row /\ Act \in {"remove", "move", "claim"}
    BY <2>1, MineFacts, ActFits
  <2>3. ASSUME NEW invite \in BOOLEAN, NEW pc \in {Act, "mark"}, Decided(invite, pc)
        PROVE  FALSE
    <3>1. job'.pc = pc
      BY <1>1, <2>2, <2>3, DecidedRecord DEF JobPcs
    <3> QED
      BY <2>2, <3>1 DEF RedoPcs
  <2> QED
    BY <1>2, <1>3, <2>2, <2>3 DEF Decide, DecideRemoval, Mark, JobPcs, RedoPcs, FailRow
<1>6. ~ Begin
  BY <1>2 DEF Begin, EndRow, RedoPcs
<1>7. ReinviteLooks \/ TakeOff \/ TakenOff \/ PutBack
  BY <1>2, <1>3, <1>4, <1>5, <1>6 DEF JobStep, Claim, CreateEvent, Release, Fill, UpdateEvent, DeleteEvent,
     EndJob, EndRow, FailRow, Reinvited, JobDies, JobPcs, RedoPcs
<1> QED
  BY <1>7 DEF ReinviteLooks, TakeOff, TakenOff, PutBack, Base, PcFits, FitsJob, ReinvitePcs

LEMMA JobReinviting ==
  ASSUME CalendarBounds, Base, Marks, Hearing, Guests, JobStep \/ JobDies
  PROVE  Reinviting'
<1> SUFFICES ASSUME job'.pc \in RedoPcs
             PROVE  /\ job'.left = {Inviting(Filled')} /\ job'.inviting = Inviting(Filled') /\ job'.invite
                    /\ Filled' # {} /\ ReinvitesGuest'
  BY DEF Reinviting, RedoPcs, Inviting, First
<1>1. SameStatus /\ AnyPending /\ job \in Job /\ line \in Seq(Row) /\ h \in Rows /\ Mine = line[h]
  BY JobTime, HeadFacts DEF RedoPcs, Base, TypeOK
<1>2. job' # NoJob
  BY DEF NoJob, RedoPcs
<1>3. /\ ReinviteLooks \/ TakeOff \/ TakenOff \/ PutBack
      /\ Mine.action = "reinvite"
  BY RedoSteps
<1>4. Filled' = Filled
  BY <1>3, RedoKeepsRefs DEF Filled
<1>5. CASE ReinviteLooks
  <2>1. /\ Wanted /\ MailStatus \in {"ended", "gone"} /\ Filled # {} /\ line' = line
        /\ job'.left = {Inviting(Filled)} /\ job'.inviting = Inviting(Filled) /\ job'.invite
    BY <1>2, <1>5, ReinviteLooksSteps DEF ReinviteLooks, EndRow, FailRow
  <2>2. Owing(Mine.mail)
    <3> SUFFICES ASSUME NEW o \in Rows, line[o].mail = Mine.mail, line[o].action # "reinvite"
                 PROVE  line[o].muted /\ ~ line[o].reinvited
      BY Zenon DEF Owing
    <3>1. /\ Owed \in Rows /\ line[Owed].mail = Mine.mail /\ line[Owed].action # "reinvite"
          /\ Mine.mail \in Changes
      BY <1>1, <1>3, OwedFacts
    <3>2. o = Owed
      BY <3>1 DEF Marks, OneMark, Changes
    <3> QED
      BY <2>1, <3>2 DEF Wanted
  <2>3. GaveUp(Mine.mail)
    BY <1>1, <1>3, <2>1, OwedFacts DEF GaveUp, MailStatus, Changes
  <2>4. ReinvitesGuest
    BY <1>3, <2>2, <2>3 DEF ReinvitesGuest
  <2>5. ReinvitesGuest'
    BY <1>1, <2>4, ReinvitesOn
  <2> QED
    BY <1>4, <2>1, <2>5
<1>6. CASE TakeOff \/ TakenOff \/ PutBack
  <2>1. job.pc \in RedoPcs
    BY <1>6 DEF TakeOff, TakenOff, PutBack, RedoPcs
  <2>2. job'.left = job.left /\ job'.inviting = job.inviting /\ job'.invite = job.invite
    <3>1. \E pc \in JobPcs : job' = [job EXCEPT !.pc = pc]
      BY <1>2, <1>6 DEF TakeOff, TakenOff, PutBack, FailRow, JobPcs
    <3> QED
      BY <1>1, <3>1, JobRecord
  <2>3. /\ job.left = {Inviting(Filled)} /\ job.inviting = Inviting(Filled) /\ job.invite
        /\ Filled # {} /\ ReinvitesGuest
    BY <2>1 DEF Guests, Reinviting
  <2>4. ReinvitesGuest'
    BY <1>1, <2>3, ReinvitesOn
  <2>5. job'.invite
    BY <2>2, <2>3, Zenon
  <2> QED
    BY <1>4, <2>2, <2>3, <2>4, <2>5
<1> QED
  BY <1>3, <1>5, <1>6

LEMMA JobFillsGuest ==
  ASSUME CalendarBounds, Base, Guests, JobStep \/ JobDies, Whole'
  PROVE  FillsGuest'
<1> SUFFICES ASSUME job'.pc = "fill"
             PROVE  event'[d1'].guest
  BY DEF FillsGuest
<1>1. EventSet /\ job.pc = "create"
  BY EventSteps DEF AttemptEnds, NoJob, AttemptBegins, NoEventChanges, EventSet, GuestSet
<1>2. d1' = d1 /\ event'[d1].guest
  BY <1>1 DEF EventSet, d1
<1> QED
  BY <1>2, Zenon

LEMMA GuestsStep ==
  ASSUME CalendarBounds, Base, Hearing, Written, Marks, Guests, [Next]_vars
  PROVE  Guests'
<1>1. CASE Aside
  BY <1>1, AsideGuests
<1>2. CASE JobStep \/ JobDies
  <2>1. Whole' => Whole
    BY <1>2, RefSteps
  <2> QED
    BY <1>2, <2>1, JobReinviting, JobGuestsOn, JobFillsGuest DEF Guests, GuestsOn, FillsGuest
<1> QED
  BY <1>1, <1>2 DEF Next, Aside

AllOfIt == Base /\ Hearing /\ Written /\ Marks /\ Listed /\ Timed /\ Guests

LEMMA AllOfItKept == ASSUME CalendarBounds PROVE Spec => []AllOfIt
<1>1. Init => AllOfIt
  BY InitBase, InitHearing, InitWritten, InitMarks, InitListed, InitTimed, InitGuests DEF AllOfIt
<1>2. AllOfIt /\ [Next]_vars => AllOfIt'
  BY BaseStep, HearingStep, WrittenStep, MarksStep, ListedStep, TimedStep, GuestsStep DEF AllOfIt
<1> QED
  BY <1>1, <1>2, PTL DEF Spec

(* OnTheCalendar: once every row is done, each destination holds a booking  *)
(* that is on, once, at the booking's time and with the guest on it; and   *)
(* never twice, whatever overlapped and failed.                            *)
THEOREM CalendarTrue == ASSUME CalendarBounds PROVE Spec => []OnTheCalendar
<1>1. AllOfIt => OnTheCalendar
  <2> SUFFICES ASSUME AllOfIt
               PROVE  OnTheCalendar
    OBVIOUS
  <2>1. \A d \in Destinations : torn # "event" => event[d].n <= 1
    BY DEF AllOfIt, Written, Once
  <2>2. ASSUME AtRest, booking.status = "accepted", AllDone, torn = "nothing", NEW d \in Destinations
        PROVE  event[d] = [n |-> 1, time |-> booking.time, guest |-> TRUE]
    <3>1. Whole /\ MayStand /\ Being /\ FirstDone /\ Fine /\ NoneLeft /\ line # <<>>
      <4>1. line \in Seq(Row) /\ line # <<>> /\ ~ AnyPending
        BY <2>2 DEF AllOfIt, Base, TypeOK, AtRest
      <4>2. 1 \in Rows
        <5>1. Rows = 1 .. Len(line) /\ Len(line) \in Nat /\ Len(line) # 0
          BY <4>1, LineDomain
        <5> QED
          BY <5>1
      <4>3. \A i \in Rows : line[i].status = "done"
        BY <2>2 DEF AllDone, Rows
      <4> QED
        BY <2>2, <4>1, <4>2, <4>3 DEF Whole, MayStand, Being, FirstDone, Fine, NoneLeft
    <3>2. ref[d] = "filled"
      BY <3>1 DEF AllOfIt, Listed, FilledSince, AllFilled
    <3>3. event[d].n = 1
      BY <3>1, <3>2 DEF AllOfIt, Listed, There
    <3>4. event[d].time = booking.time
      BY <2>2, <3>1 DEF AllOfIt, Timed, TimesRight
    <3>5. event[d].guest
      BY <2>2, <3>1, <3>2 DEF AllOfIt, Guests, GuestsOn, AtRest
    <3>6. event[d] \in EventType
      BY DEF AllOfIt, Base, TypeOK, EventType
    <3>7. event[d].guest = TRUE
      BY <3>5, <3>6 DEF EventType
    <3> HIDE DEF EventType
    <3>8. event[d] = [n |-> event[d].n, time |-> event[d].time, guest |-> event[d].guest]
      BY <3>6 DEF EventType
    <3> QED
      BY <3>3, <3>4, <3>7, <3>8
  <2> QED
    BY <2>1, <2>2 DEF OnTheCalendar
<1> QED
  BY <1>1, AllOfItKept, PTL

-----------------------------------------------------------------------------
(* The guest is told by somebody. *)

HeardOn(c) == \E t \in told : t.on = c

LEMMA ToldGrows ==
  ASSUME CalendarBounds, Base, [Next]_vars
  PROVE  told \subseteq told' /\ \A c : HeardOn(c) => HeardOn(c)'
<1>1. told \subseteq told'
  BY ToldStep
<1> QED
  BY <1>1 DEF HeardOn

LEMMA HeardNow ==
  ASSUME NEW by, NEW c, NEW says, told' = told \cup {[by |-> by, on |-> c, says |-> says]}
  PROVE  HeardOn(c)'
<1>1. PICK t : t = [by |-> by, on |-> c, says |-> says]
  OBVIOUS
<1>2. t \in told' /\ t.on = c
  BY <1>1
<1> QED
  BY <1>2 DEF HeardOn

(* A mail that is done was sent; one is dropped only for a booking off.     *)
MailsHeard == \A c \in Changes : mail[c].status = "done" => HeardOn(c)
DroppedWhenOff == \A c \in Changes : mail[c].status = "gone" => booking.status = Cancelled
Sent == MailsHeard /\ DroppedWhenOff

LEMMA InitSent ==
  ASSUME Init
  PROVE  Sent
BY DEF Init, Sent, MailsHeard, DroppedWhenOff, NoMail

LEMMA SentStep ==
  ASSUME CalendarBounds, Base, Hearing, Sent, [Next]_vars
  PROVE  Sent'
<1>1. \A c : HeardOn(c) => HeardOn(c)'
  BY ToldGrows
<1>2. booking.status = Cancelled => booking'.status = Cancelled
  <2>1. CASE Accept \/ Move \/ Cancel
    BY <2>1 DEF Accept, Move, Cancel, Changed, Cancelled
  <2>2. CASE JobStep \/ JobDies
    BY <2>2, JobStepKeeps DEF JobKeeps
  <2>3. ASSUME NEW c \in DOMAIN change, RequestStep(c) \/ MailStep(c)
        PROVE  booking' = booking
    BY <2>3 DEF RequestStep, MailStep, QueueMail, Tag, SendMail, MailAnswer, MailEnds, AfterGaveUp
  <2> QED
    BY <2>1, <2>2, <2>3 DEF Next, vars
<1>3. ASSUME \A c \in Changes : /\ mail'[c].status = "done" => mail[c].status = "done" \/ HeardOn(c)'
                                /\ mail'[c].status = "gone" => mail[c].status = "gone" \/ booking.status = Cancelled
      PROVE  Sent'
  BY <1>1, <1>2, <1>3 DEF Sent, MailsHeard, DroppedWhenOff
<1>4. CASE mail' = mail
  BY <1>3, <1>4
<1>5. ASSUME NEW c \in DOMAIN change, QueueMail(c)
      PROVE  Sent'
  <2>1. mail[c].status = "none"
    BY <1>5, QueueMailEffect DEF Hearing, MailOnce, Unmailed
  <2> QED
    BY <1>3, <1>5, <2>1, QueueMailEffect
<1>6. ASSUME NEW c \in DOMAIN change, SendMail(c) \/ MailEnds(c) \/ AfterGaveUp(c)
      PROVE  Sent'
  BY <1>3, <1>6, SendMailEffect, MailEndsEffect, GaveUpEffect
<1>7. ASSUME NEW c \in DOMAIN change, MailAnswer(c)
      PROVE  Sent'
  <2>1. /\ \A b \in Changes : b # c => mail'[b] = mail[b]
        /\ \/ /\ mail'[c].status = (IF mail[c].status = "queued" THEN "done" ELSE mail[c].status)
              /\ told' = told \cup {[by |-> "mail", on |-> c, says |-> mail[c].says]}
           \/ mail'[c].status = mail[c].status
    BY <1>7, MailAnswerEffect
  <2>2. CASE mail'[c].status = mail[c].status
    BY <1>3, <2>1, <2>2
  <2>3. ASSUME told' = told \cup {[by |-> "mail", on |-> c, says |-> mail[c].says]}
        PROVE  HeardOn(c)'
    BY <2>3, HeardNow
  <2> QED
    BY <1>3, <2>1, <2>2, <2>3
<1>8. ASSUME NEW c \in DOMAIN change, Tag(c)
      PROVE  Sent'
  BY <1>4, <1>8, TagSteps
<1>9. CASE DecideRemoval
  BY <1>3, <1>4, <1>9, RemovalEffect
<1>10. CASE Accept \/ Move \/ Cancel
  BY <1>4, <1>10, ChangesKeep
<1>11. CASE (JobStep /\ ~ DecideRemoval) \/ JobDies
  BY <1>4, <1>11 DEF JobStep, Begin, Decide, Mark, Claim, CreateEvent, Fill, UpdateEvent, DeleteEvent,
     EndJob, ReinviteLooks, TakeOff, TakenOff, PutBack, Reinvited, JobDies
<1> QED
  BY <1>4, <1>5, <1>6, <1>7, <1>8, <1>9, <1>10, <1>11 DEF Next, RequestStep, MailStep, vars

(* Of the rows, what a step of the job records. *)
LEMMA JobRecords ==
  ASSUME CalendarBounds, Base, JobStep \/ JobDies
  PROVE  \A i \in Rows :
           /\ line[i].muted => line'[i].muted
           /\ line'[i].muted => line[i].muted \/ (Mark /\ i = h)
           /\ line[i].removed => line'[i].removed
           /\ line'[i].removed => line[i].removed \/ (TakenOff /\ i = Owed)
           /\ line[i].reinvited => line'[i].reinvited
           /\ line'[i].reinvited => line[i].reinvited \/ (Reinvited /\ i = Owed)
<1>1. AnyPending /\ line \in Seq(Row) /\ UNCHANGED <<booking, change>>
  BY JobStepKeeps DEF JobKeeps, Base, TypeOK
<1>2. ASSUME SameMuted, SameRedo
      PROVE  \A i \in Rows : /\ line'[i].muted = line[i].muted /\ line'[i].removed = line[i].removed
                             /\ line'[i].reinvited = line[i].reinvited
  BY <1>2 DEF SameMuted, SameRedo
<1>3. CASE line' = line
  BY <1>3
<1>4. ASSUME job.pc # "idle", FailRow(Mine) \/ (StillWaits /\ FailRow([Mine EXCEPT !.looks = @ + 1]))
      PROVE  SameMuted /\ SameRedo
  BY <1>1, <1>4, FailKeeps, LookKeeps
<1>5. ASSUME EndRow("done") \/ EndRow("skipped")
      PROVE  SameMuted /\ SameRedo
  BY <1>1, <1>5, EndKeeps
<1>6. CASE Mark
  <2>1. /\ \A i \in Rows : line'[i].removed = line[i].removed /\ line'[i].reinvited = line[i].reinvited
        /\ line'[h].muted /\ \A i \in Rows : i # h => line'[i].muted = line[i].muted
    BY <1>6, MarkKeeps DEF SameRedo
  <2> QED
    BY <1>6, <2>1
<1>7. CASE TakenOff
  <2>1. /\ line'[Owed].removed
        /\ \A j \in Rows : line'[j].muted = line[j].muted
        /\ \A j \in Rows : line'[j].reinvited = line[j].reinvited
        /\ \A j \in Rows : j # Owed => line'[j].removed = line[j].removed
    BY <1>7, TakenOffKeeps DEF SameMuted
  <2> QED
    BY <1>7, <2>1
<1>8. CASE Reinvited
  <2>1. /\ line'[Owed].reinvited
        /\ \A j \in Rows : line'[j].muted = line[j].muted
        /\ \A j \in Rows : line'[j].removed = line[j].removed
        /\ \A j \in Rows : j # Owed => line'[j].reinvited = line[j].reinvited
    BY <1>8, ReinvitedSteps DEF SameMuted
  <2> QED
    BY <1>8, <2>1
<1>9. \/ line' = line \/ Mark \/ TakenOff \/ Reinvited \/ EndRow("done") \/ EndRow("skipped")
      \/ (job.pc # "idle" /\ (FailRow(Mine) \/ (StillWaits /\ FailRow([Mine EXCEPT !.looks = @ + 1]))))
  BY DEF JobStep, Begin, Decide, DecideRemoval, Claim, CreateEvent, Release, Fill,
     UpdateEvent, DeleteEvent, EndJob, ReinviteLooks, TakeOff, PutBack, JobDies
<1>10. CASE SameMuted /\ SameRedo
  BY <1>2, <1>10
<1> QED
  BY <1>3, <1>4, <1>5, <1>6, <1>7, <1>8, <1>9, <1>10

(* How an attempt decides who tells the guest, and keeps to it. *)
WriteOrMove == {"claim", "create", "fill", "move"}
ChoosesMail == job'.pc = "mark" /\ ~ job'.invite /\ MailStatus \in {"queued", "done"} /\ line' = line
Chooses ==
    /\ job'.pc = Act /\ line' = line
    /\ Mine.action # "delete" => (job'.invite <=> ~ Mine.muted)
Marks1 == Mark /\ job'.pc = Act /\ job'.invite = job.invite /\ line'[h].muted
KeepsChoice ==
    /\ line' = line /\ job'.invite = job.invite /\ job'.pc # "mark"
    /\ job'.pc \in WriteOrMove => job.pc \in WriteOrMove

LEMMA ChoiceSteps ==
  ASSUME CalendarBounds, Base, JobStep \/ JobDies, job'.pc # "idle"
  PROVE  \/ Begin /\ job'.pc \in {"decide", "reinvite"} /\ job'.inviting = Inviting(Work) /\ line' = line
         \/ Mine.action = "reinvite" /\ job'.pc \in RedoPcs /\ job.pc # "idle"
         \/ /\ job.pc # "idle" /\ job'.inviting = job.inviting /\ job'.pc \notin RedoPcs
            /\ ChoosesMail \/ Chooses \/ Marks1 \/ KeepsChoice
<1>1. job \in Job
  BY DEF Base, TypeOK
<1>2. job' # NoJob
  BY DEF NoJob
<1>3. ~ FailRow(Mine) /\ ~ EndRow("done") /\ ~ EndRow("skipped") /\ ~ FailRow([Mine EXCEPT !.looks = @ + 1])
  BY <1>2 DEF FailRow, EndRow
<1>4. CASE Begin
  BY <1>3, <1>4 DEF Begin
<1>5. CASE Decide \/ DecideRemoval \/ Mark
  <2>1. job.pc \in {"decide", "mark"} /\ Mine.action # "reinvite"
    BY <1>5 DEF Decide, DecideRemoval, Mark, Base, PcFits, FitsJob
  <2>2. Mine \in Row /\ Act \in {"remove", "move", "claim"}
    BY <2>1, MineFacts, ActFits
  <2>3. ASSUME NEW invite \in BOOLEAN, NEW pc \in {Act, "mark"}, Decided(invite, pc)
        PROVE  job'.pc = pc /\ job'.invite = invite /\ job'.inviting = job.inviting /\ pc \notin RedoPcs
    <3>1. job'.pc = pc /\ job'.invite = invite /\ job'.inviting = job.inviting
      BY <1>1, <2>2, <2>3, DecidedRecord DEF JobPcs
    <3> QED
      BY <2>2, <3>1 DEF RedoPcs
  <2>4. CASE Decide
    <3>1. line' = line /\ Mine.action # "delete"
      BY <2>4 DEF Decide
    <3>2. CASE StaysQuiet
      <4>1. Decided(FALSE, Act) /\ Mine.muted
        BY <2>4, <3>2 DEF Decide, StaysQuiet
      <4>2. job'.pc = Act /\ job'.invite = FALSE /\ job'.inviting = job.inviting /\ Act \notin RedoPcs
        BY <2>3, <4>1
      <4> QED
        BY <2>1, <3>1, <4>1, <4>2 DEF Chooses
    <3>3. CASE ~ StaysQuiet /\ MailStatus \in {"queued", "done"}
      <4>1. Decided(FALSE, "mark")
        BY <2>4, <3>3 DEF Decide
      <4>2. job'.pc = "mark" /\ job'.invite = FALSE /\ job'.inviting = job.inviting /\ "mark" \notin RedoPcs
        BY <2>3, <4>1
      <4> QED
        BY <2>1, <3>1, <3>3, <4>2 DEF ChoosesMail
    <3>4. CASE ~ StaysQuiet /\ ~ (MailStatus \in {"queued", "done"})
      <4>1. Decided(TRUE, Act) /\ ~ Mine.muted
        BY <2>4, <3>1, <3>4 DEF Decide, StaysQuiet
      <4>2. job'.pc = Act /\ job'.invite = TRUE /\ job'.inviting = job.inviting /\ Act \notin RedoPcs
        BY <2>3, <4>1
      <4> QED
        BY <2>1, <3>1, <4>1, <4>2 DEF Chooses
    <3> QED
      BY <3>2, <3>3, <3>4
  <2>5. CASE DecideRemoval
    <3>1. line' = line /\ Mine.action = "delete"
      BY <1>3, <2>5 DEF DecideRemoval
    <3>2. CASE Decided(TRUE, Act)
      <4>1. job'.pc = Act /\ job'.inviting = job.inviting /\ Act \notin RedoPcs
        BY <2>3, <3>2
      <4> QED
        BY <2>1, <3>1, <4>1 DEF Chooses
    <3>3. CASE MailStatus = "done" /\ Decided(FALSE, "mark")
      <4>1. job'.pc = "mark" /\ job'.invite = FALSE /\ job'.inviting = job.inviting /\ "mark" \notin RedoPcs
        BY <2>3, <3>3
      <4> QED
        BY <2>1, <3>1, <3>3, <4>1 DEF ChoosesMail
    <3> QED
      BY <1>3, <2>5, <3>2, <3>3 DEF DecideRemoval
  <2>6. CASE Mark
    <3>1. job' = [job EXCEPT !.pc = Act] /\ Act \in JobPcs
      BY <2>2, <2>6 DEF Mark, JobPcs
    <3>2. job'.pc = Act /\ job'.invite = job.invite /\ job'.inviting = job.inviting
      BY <1>1, <3>1, JobRecord
    <3>3. line'[h].muted
      BY <2>6, MarkKeeps
    <3> QED
      BY <2>1, <2>2, <2>6, <3>2, <3>3 DEF Marks1, RedoPcs
  <2> QED
    BY <1>5, <2>4, <2>5, <2>6
<1>6. ASSUME NEW pc \in {"create", "fill"}, job' = [job EXCEPT !.pc = pc], job.pc \in WriteOrMove, line' = line
      PROVE  job'.inviting = job.inviting /\ job'.pc \notin RedoPcs /\ KeepsChoice
  <2>1. job'.pc = pc /\ job'.invite = job.invite /\ job'.inviting = job.inviting
    BY <1>1, <1>6, JobRecord DEF JobPcs
  <2> QED
    BY <1>6, <2>1 DEF KeepsChoice, RedoPcs
<1>7. ASSUME job' = Rest, job.pc \in {"claim", "fill", "move", "remove"}, line' = line
      PROVE  job'.inviting = job.inviting /\ job'.pc \notin RedoPcs /\ KeepsChoice
  <2>1. /\ job'.pc = (IF job.pc = "fill" THEN "claim" ELSE job.pc)
        /\ job'.invite = job.invite /\ job'.inviting = job.inviting
    BY <1>7, RestSteps
  <2> QED
    BY <1>7, <2>1 DEF KeepsChoice, RedoPcs, WriteOrMove
<1>8. CASE Claim \/ CreateEvent \/ Fill \/ UpdateEvent \/ DeleteEvent
  <2>1. job.pc # "idle"
    BY <1>8 DEF Claim, CreateEvent, Fill, UpdateEvent, DeleteEvent
  <2>2. job'.inviting = job.inviting /\ job'.pc \notin RedoPcs /\ KeepsChoice
    BY <1>3, <1>6, <1>7, <1>8 DEF Claim, CreateEvent, Release, Fill, UpdateEvent, DeleteEvent, WriteOrMove
  <2> QED
    BY <2>1, <2>2
<1>9. CASE ReinviteLooks \/ TakeOff \/ TakenOff \/ PutBack
  <2>1. job.pc # "idle" /\ Mine.action = "reinvite"
    BY <1>9 DEF ReinviteLooks, TakeOff, TakenOff, PutBack, Base, PcFits, FitsJob, ReinvitePcs
  <2>2. ASSUME NEW pc \in RedoPcs, job' = [job EXCEPT !.pc = pc]
        PROVE  job'.pc \in RedoPcs
    BY <1>1, <2>2, JobRecord DEF JobPcs, RedoPcs
  <2>3. CASE ReinviteLooks
    <3>1. job'.pc \in {"takeoff", "putback"}
      BY <1>3, <2>3, ReinviteLooksSteps DEF ReinviteLooks
    <3> QED
      BY <2>1, <3>1 DEF RedoPcs
  <2>4. CASE TakeOff \/ TakenOff \/ PutBack
    <3>1. \E pc \in RedoPcs : job' = [job EXCEPT !.pc = pc]
      BY <1>3, <2>4 DEF TakeOff, TakenOff, PutBack, RedoPcs
    <3> QED
      BY <2>1, <2>2, <3>1
  <2> QED
    BY <1>9, <2>3, <2>4
<1>10. ~ EndJob /\ ~ Reinvited /\ ~ JobDies
  BY <1>2, <1>3 DEF EndJob, Reinvited, JobDies
<1> QED
  BY <1>4, <1>5, <1>8, <1>9, <1>10 DEF JobStep

(* A quiet row has its mail; the attempt at a row lets the provider invite  *)
(* if and only if that row is not quiet; the first row's invites on the     *)
(* organizer's calendar.                                                   *)
QuietRows == \A i \in Rows : line[i].muted => line[i].mail > 0
QuietAttempt ==
    /\ job.pc = "mark" => Mine.mail > 0 /\ ~ job.invite
    /\ job.pc \in WriteOrMove => (job.invite <=> ~ Mine.muted)
    /\ job.pc # "idle" /\ h = 1 => job.inviting = Organizer
Quiet == QuietRows /\ QuietAttempt

LEMMA InitQuiet == ASSUME Init PROVE Quiet
BY DEF Init, Quiet, QuietRows, QuietAttempt, NoJob, Rows, WriteOrMove

(* A row stays marked; a row that is new is not quiet. *)
LEMMA AsideQuiet ==
  ASSUME CalendarBounds, Base, Quiet, Aside
  PROVE  Quiet'
<1>1. RowsKept
  BY RowsKeptStep, AsideNext
<1>2. /\ job' = job
      /\ \A i \in Rows : line'[i].muted = line[i].muted
      /\ \A i \in Rows' \ Rows : \E a, m : line'[i] = NewRow(a, m)
  BY AsideRows
<1>3. ASSUME NEW i \in Rows' \ Rows
      PROVE  ~ line'[i].muted
  <2>1. PICK a, m : line'[i] = NewRow(a, m)
    BY <1>2
  <2>2. NewRow(a, m).muted = FALSE
    BY DEF NewRow
  <2> QED
    BY <2>1, <2>2
<1>4. job.pc # "idle" => Mine' = Mine /\ h' = h
  BY MineStays DEF Aside
<1>5. QuietRows'
  BY <1>1, <1>2, <1>3 DEF Quiet, QuietRows, RowsKept
<1>6. QuietAttempt'
  BY <1>2, <1>4 DEF Quiet, QuietAttempt, WriteOrMove
<1> QED
  BY <1>5, <1>6 DEF Quiet

LEMMA JobQuiet ==
  ASSUME CalendarBounds, Base, Quiet, JobStep \/ JobDies
  PROVE  Quiet'
<1>1. JobKeeps /\ Rows' = Rows /\ h \in Rows /\ Mine = line[h] /\ line \in Seq(Row) /\ AnyPending
  BY JobStepKeeps, HeadFacts DEF JobKeeps, Base, TypeOK, Steady, Rows
<1>2. QuietRows'
  <2> SUFFICES ASSUME NEW i \in Rows, line'[i].muted
               PROVE  line'[i].mail > 0
    BY <1>1 DEF QuietRows
  <2>1. line[i].muted \/ (Mark /\ i = h)
    BY JobRecords
  <2>2. line[i].mail > 0
    <3>1. CASE line[i].muted
      BY <3>1 DEF Quiet, QuietRows
    <3>2. CASE Mark /\ i = h
      <4>1. job.pc = "mark"
        BY <3>2 DEF Mark
      <4>2. Mine.mail > 0
        BY <4>1 DEF Quiet, QuietAttempt
      <4> QED
        BY <1>1, <3>2, <4>2
    <3> QED
      BY <2>1, <3>1, <3>2
  <2> QED
    BY <1>1, <2>2 DEF JobKeeps, SameMail
<1>3. ASSUME job'.pc # "idle"
      PROVE  QuietAttempt'
  <2>1. h' = h /\ Mine' = line'[h] /\ Mine'.mail = Mine.mail
    BY <1>1, <1>3, JobTime, HeadIs DEF JobKeeps, SameMail
  <2>2. h = 1 => Mine.action = "create"
    BY <1>1 DEF Base, FirstCreates
  <2>3. CASE Begin /\ job'.pc \in {"decide", "reinvite"} /\ job'.inviting = Inviting(Work) /\ line' = line
    <3>1. h = 1 => job'.inviting = Organizer
      BY <2>2, <2>3, OrganizerIn DEF Work, Inviting
    <3> QED
      BY <2>1, <2>3, <3>1 DEF QuietAttempt, WriteOrMove
  <2>4. CASE Mine.action = "reinvite" /\ job'.pc \in RedoPcs
    BY <2>1, <2>2, <2>4 DEF QuietAttempt, WriteOrMove, RedoPcs
  <2>5. CASE job.pc # "idle" /\ job'.inviting = job.inviting
             /\ (ChoosesMail \/ Chooses \/ Marks1 \/ KeepsChoice)
    <3>1. h' = 1 => job'.inviting = Organizer
      BY <2>1, <2>5 DEF Quiet, QuietAttempt
    <3>2. CASE ChoosesMail
      <4>1. Mine.mail > 0
        <5>1. Mine.mail # 0
          BY <3>2 DEF ChoosesMail, MailStatus
        <5>2. Mine.mail \in 0 .. MaxChanges
          BY <2>5, MineFacts
        <5> QED
          BY <5>1, <5>2 DEF CalendarBounds
      <4> QED
        BY <2>1, <3>1, <3>2, <4>1 DEF ChoosesMail, QuietAttempt, WriteOrMove
    <3>3. CASE Chooses \/ Marks1
      <4>0. Mine.action # "reinvite"
        <5>0. Act \in {"remove", "move", "claim"}
          BY DEF Act
        <5>1. job'.pc = Act
          BY <3>3 DEF Chooses, Marks1
        <5>2. Base'
          BY BaseStep DEF Next
        <5>3. Mine'.action = Mine.action
          BY <1>3, JobTime
        <5> QED
          BY <5>0, <5>1, <5>2, <5>3 DEF Base, PcFits, FitsJob
      <4>1. Act \in {"remove", "move", "claim"} /\ (Mine.action = "delete" => Act = "remove")
        BY DEF Act
      <4>2. Mine.action = "delete" => job'.pc \notin WriteOrMove
        BY <3>3, <4>1 DEF Chooses, Marks1, WriteOrMove
      <4>3. job'.pc # "mark"
        BY <3>3, <4>1 DEF Chooses, Marks1
      <4>4. Mine.action # "delete" => (job'.invite <=> ~ Mine'.muted)
        <5>1. CASE Chooses
          BY <1>1, <2>1, <5>1 DEF Chooses
        <5>2. CASE Marks1
          <6>1. ~ job'.invite /\ line'[h].muted
            BY <5>2 DEF Marks1, Mark, Quiet, QuietAttempt
          <6> QED
            BY <2>1, <6>1, Zenon
        <5> QED
          BY <3>3, <5>1, <5>2
      <4> QED
        BY <3>1, <4>2, <4>3, <4>4 DEF QuietAttempt
    <3>4. CASE KeepsChoice
      BY <1>1, <2>1, <3>1, <3>4 DEF KeepsChoice, Quiet, QuietAttempt
    <3> QED
      BY <2>5, <3>2, <3>3, <3>4
  <2> QED
    BY <1>3, <2>3, <2>4, <2>5, ChoiceSteps
<1>4. job'.pc = "idle" => QuietAttempt'
  BY DEF QuietAttempt, WriteOrMove
<1> QED
  BY <1>2, <1>3, <1>4 DEF Quiet

LEMMA QuietStep ==
  ASSUME CalendarBounds, Base, Quiet, [Next]_vars
  PROVE  Quiet'
BY AsideQuiet, JobQuiet DEF Next, Aside

(* A booking that is on was on before; a reinvite that is queued stays.     *)
LEMMA OnBefore ==
  ASSUME CalendarBounds, Base, [Next]_vars, booking'.status = "accepted"
  PROVE  booking.status = "accepted"
<1>1. CASE Accept \/ Move \/ Cancel
  BY <1>1 DEF Accept, Move, Cancel, Changed
<1>2. CASE JobStep \/ JobDies
  BY <1>2, JobStepKeeps DEF JobKeeps
<1>3. ASSUME NEW c \in DOMAIN change, RequestStep(c) \/ MailStep(c)
      PROVE  booking' = booking
  BY <1>3 DEF RequestStep, MailStep, QueueMail, Tag, SendMail, MailAnswer, MailEnds, AfterGaveUp
<1> QED
  BY <1>1, <1>2, <1>3 DEF Next, vars

LEMMA ReinvitesStay ==
  ASSUME CalendarBounds, Base, [Next]_vars, NEW c \in Changes, ReinviteFor(c) # {}
  PROVE  ReinviteFor(c)' # {}
<1>1. PICK i \in ReinviteFor(c) : TRUE
  OBVIOUS
<1>2. i \in Rows /\ line[i].mail = c /\ line[i].action = "reinvite" /\ c > 0
  BY <1>1 DEF ReinviteFor, Rows, Changes
<1>3. i \in Rows' /\ line'[i].mail = c /\ line'[i].action = "reinvite"
  BY <1>2, RowsKeptStep DEF RowsKept, Rows
<1> QED
  BY <1>3 DEF ReinviteFor, Rows

(* Of a step that is not the job's: what it marks, and what ends a mail.    *)
LEMMA AsideTags ==
  ASSUME CalendarBounds, Base, Aside, NEW i \in Rows, line'[i].mail # line[i].mail
  PROVE  \E c \in DOMAIN change : Tag(c)
<1>1. CASE line' = line
  BY <1>1
<1>2. CASE Accept \/ Move \/ Cancel
  BY <1>2, ChangesKeep
<1>3. ASSUME NEW c \in DOMAIN change, AfterGaveUp(c)
      PROVE  line'[i] = line[i]
  <2>1. c \in 0 .. MaxChanges /\ (line' = line \/ line' = Append(line, NewRow("reinvite", c)))
    BY <1>3, GaveUpSteps
  <2> QED
    BY <2>1, AppendKeeps
<1> QED
  BY <1>1, <1>2, <1>3 DEF Aside, RequestStep, MailStep, QueueMail, SendMail, MailAnswer, MailEnds, vars

LEMMA AsideMails ==
  ASSUME CalendarBounds, Base, Hearing, Aside, NEW c \in Changes
  PROVE  /\ mail'[c].pc = "ended" => mail[c].pc = "ended" \/ (c \in DOMAIN change /\ AfterGaveUp(c))
         /\ mail'[c].status = "ended" => mail[c].status = "ended" \/ mail[c].pc = "ended"
<1>1. CASE mail' = mail
  BY <1>1
<1>2. ASSUME NEW b \in DOMAIN change, QueueMail(b)
      PROVE  /\ mail'[c].pc = "ended" => mail[c].pc = "ended"
             /\ mail'[c].status = "ended" => mail[c].status = "ended"
  <2>1. mail[b].status = "none" /\ b \in Changes
    BY <1>2, QueueMailEffect DEF Hearing, MailOnce, Unmailed
  <2>2. CASE c = b
    BY <1>2, <2>1, <2>2, QueueMailEffect
  <2>3. CASE c # b
    BY <1>2, <2>3, QueueMailEffect
  <2> QED
    BY <2>2, <2>3
<1>3. ASSUME NEW b \in DOMAIN change, SendMail(b)
      PROVE  mail'[c].pc = "ended" => mail[c].pc = "ended"
  BY <1>3, SendMailEffect
<1>4. ASSUME NEW b \in DOMAIN change, SendMail(b)
      PROVE  mail'[c].status = "ended" => mail[c].status = "ended"
  BY <1>4, SendMailEffect
<1>5. ASSUME NEW b \in DOMAIN change, MailAnswer(b)
      PROVE  /\ mail'[c].pc = "ended" => mail[c].pc = "ended"
             /\ mail'[c].status = "ended" => mail[c].status = "ended"
  BY <1>5, MailAnswerEffect
<1>6. ASSUME NEW b \in DOMAIN change, MailEnds(b)
      PROVE  /\ mail'[c].pc = "ended" => mail[c].pc = "ended"
             /\ mail'[c].status = "ended" => mail[c].status = "ended" \/ mail[c].pc = "ended"
  BY <1>6, MailEndsEffect
<1>7. ASSUME NEW b \in DOMAIN change, AfterGaveUp(b)
      PROVE  /\ mail'[c].pc = "ended" => mail[c].pc = "ended" \/ c = b
             /\ mail'[c].status = "ended" => mail[c].status = "ended"
  BY <1>7, GaveUpEffect
<1> QED
  BY <1>1, <1>2, <1>3, <1>4, <1>5, <1>6, <1>7 DEF Aside, RequestStep, MailStep, Tag, Accept, Move, Cancel, Changed, vars

(* Where a row was written quietly counting on its mail, the end of that    *)
(* mail is made up for: a reinvite is queued before the end is recorded.    *)
RelyOn(i) == line[i].muted \/ (job.pc = "mark" /\ i = h)
MadeUp ==
    booking.status = "accepted" =>
        \A c \in Changes : \A i \in MarkedBy(c) :
            /\ ~ line[i].late
            /\ mail[c].pc = "ended" \/ (mail[c].status = "ended" /\ RelyOn(i))
            => ReinviteFor(c) # {}

LEMMA InitMadeUp == ASSUME Init PROVE MadeUp
BY DEF Init, MadeUp, MarkedBy

LEMMA AsideMadeUp ==
  ASSUME CalendarBounds, Base, Hearing, Quiet, MadeUp, Aside
  PROVE  MadeUp'
<1> SUFFICES ASSUME booking'.status = "accepted", NEW c \in Changes, NEW i \in MarkedBy(c)', ~ line'[i].late,
                    mail'[c].pc = "ended" \/ (mail'[c].status = "ended" /\ RelyOn(i)')
             PROVE  ReinviteFor(c)' # {}
  BY DEF MadeUp
<1>1. booking.status = "accepted" /\ RowsKept
  BY OnBefore, RowsKeptStep, AsideNext
<1>2. i \in Rows' /\ line'[i].mail = c /\ line'[i].action # "reinvite" /\ c > 0
  BY DEF MarkedBy, Rows, Changes
<1>3. ReinviteFor(c) # {} => ReinviteFor(c)' # {}
  BY ReinvitesStay, AsideNext
<1>4. i \in Rows
  <2> SUFFICES ASSUME i \notin Rows
               PROVE  FALSE
    OBVIOUS
  <2>1. \E a, m : line'[i] = NewRow(a, m) /\ (a = "reinvite" \/ m = 0)
    <3>1. /\ i = Len(line) + 1
          /\ \/ \E b : line'[Len(line) + 1] = NewRow("reinvite", b)
             \/ \E a : line'[Len(line) + 1] = NewRow(a, 0)
      BY <1>2, AsideRows
    <3>2. CASE \E b : line'[i] = NewRow("reinvite", b)
      BY <3>2
    <3>3. CASE \E a : line'[i] = NewRow(a, 0)
      BY <3>3
    <3> QED
      BY <3>1, <3>2, <3>3
  <2>2. PICK a, m : line'[i] = NewRow(a, m) /\ (a = "reinvite" \/ m = 0)
    BY <2>1
  <2>3. NewRow(a, m).action = a /\ NewRow(a, m).mail = m
    BY DEF NewRow
  <2> QED
    BY <1>2, <2>2, <2>3
<1>5. /\ line'[i].action = line[i].action /\ line'[i].muted = line[i].muted /\ job' = job
      /\ job.pc = "mark" => h' = h
  BY <1>4, AsideRows, MineStays DEF Aside
<1>6. RelyOn(i)' => RelyOn(i)
  BY <1>5 DEF RelyOn
<1>7. CASE line[i].mail = c
  <2>1. i \in MarkedBy(c) /\ ~ line[i].late
    BY <1>1, <1>2, <1>4, <1>5, <1>7 DEF RowsKept, MarkedBy, Rows
  <2>2. CASE c \in DOMAIN change /\ AfterGaveUp(c)
    <3>1. change[c].action # "delete" /\ line[i].action # "delete"
      BY <1>1, <1>4, <2>2 DEF Base, Begun, DeleteLast, Cancelled
    <3>2. CASE line' = line /\ ~ (change[c].action # "delete" /\ OwesReinvite(c))
      BY <1>1, <1>3, <2>1, <3>1, <3>2 DEF OwesReinvite
    <3>3. CASE line' = Append(line, NewRow("reinvite", c))
      <4>1. Rows' = Rows \cup {Len(line) + 1} /\ line'[Len(line) + 1] = NewRow("reinvite", c)
        BY <2>2, <3>3, GaveUpSteps, AppendKeeps DEF Rows
      <4>2. NewRow("reinvite", c).action = "reinvite" /\ NewRow("reinvite", c).mail = c
        BY DEF NewRow
      <4> QED
        BY <4>1, <4>2 DEF ReinviteFor, Rows
    <3> QED
      BY <2>2, <3>2, <3>3, GaveUpSteps
  <2>3. CASE ~ (c \in DOMAIN change /\ AfterGaveUp(c))
    <3>1. mail[c].pc = "ended" \/ (mail[c].status = "ended" /\ RelyOn(i))
      BY <1>6, <2>3, AsideMails
    <3> QED
      BY <1>1, <1>3, <2>1, <3>1 DEF MadeUp
  <2> QED
    BY <2>2, <2>3
<1>8. CASE line[i].mail # c
  <2>1. PICK b \in DOMAIN change : Tag(b)
    BY <1>2, <1>4, <1>8, AsideTags
  <2>2. /\ mail' = mail /\ line[i].mail = 0 /\ line'[i].mail = b /\ (line'[i].late <=> mail[b].pc = "ended")
    <3>1. mail' = mail /\ line' # line
      BY <1>2, <1>8, <2>1, TagSteps
    <3>2. PICK k \in Rows :
            /\ line[k].mail = 0 /\ line'[k].mail = b /\ (line'[k].late <=> mail[b].pc = "ended")
            /\ \A j \in Rows : j # k => line'[j] = line[j]
      BY <2>1, <3>1, TagSteps
    <3>3. i = k
      BY <1>2, <1>4, <1>8, <3>2
    <3> QED
      BY <3>1, <3>2, <3>3
  <2>3. b = c
    BY <1>2, <2>2
  <2>4. mail[c].pc # "ended"
    BY <2>2, <2>3
  <2>5. RelyOn(i)
    BY <1>6, <2>2, <2>4
  <2>6. line[i].mail > 0
    <3>1. CASE line[i].muted
      BY <1>4, <3>1 DEF Quiet, QuietRows
    <3>2. CASE job.pc = "mark" /\ i = h
      <4>1. Mine.mail > 0 /\ Mine = line[i]
        BY <3>2, MineFacts DEF Quiet, QuietAttempt
      <4> QED
        BY <4>1
    <3> QED
      BY <2>5, <3>1, <3>2 DEF RelyOn
  <2> QED
    BY <2>2, <2>6
<1> QED
  BY <1>7, <1>8

LEMMA JobMadeUp ==
  ASSUME CalendarBounds, Base, MadeUp, JobStep \/ JobDies
  PROVE  MadeUp'
<1> SUFFICES ASSUME booking'.status = "accepted", NEW c \in Changes, NEW i \in MarkedBy(c)', ~ line'[i].late,
                    mail'[c].pc = "ended" \/ (mail'[c].status = "ended" /\ RelyOn(i)')
             PROVE  ReinviteFor(c)' # {}
  BY DEF MadeUp
<1>1. /\ booking.status = "accepted" /\ JobKeeps /\ Rows' = Rows /\ AnyPending /\ h \in Rows /\ Mine = line[h]
  BY JobStepKeeps, HeadFacts DEF JobKeeps, Base, TypeOK, Steady, Rows
<1>2. i \in MarkedBy(c) /\ ~ line[i].late /\ i \in Rows
  BY <1>1 DEF MarkedBy, JobKeeps, SameMail, Steady, Rows
<1>3. ReinviteFor(c) # {} => ReinviteFor(c)' # {}
  BY ReinvitesStay DEF Next
<1>4. mail' = mail
  <2>1. ~ DecideRemoval
    BY <1>1 DEF DecideRemoval, Base, DeleteLast, Cancelled
  <2> QED
    BY <2>1 DEF JobStep, Begin, Decide, Mark, Claim, CreateEvent, Fill, UpdateEvent,
       DeleteEvent, EndJob, ReinviteLooks, TakeOff, TakenOff, PutBack, Reinvited, JobDies
<1>5. CASE mail[c].pc = "ended" \/ RelyOn(i)
  BY <1>1, <1>2, <1>3, <1>4, <1>5 DEF MadeUp
<1>6. CASE mail[c].status = "ended" /\ ~ RelyOn(i) /\ RelyOn(i)'
  <2>1. ~ line'[i].muted
    BY <1>2, <1>6, JobRecords DEF RelyOn, Mark
  <2>2. job'.pc = "mark" /\ i = h'
    BY <1>6, <2>1 DEF RelyOn
  <2>3. h' = h
    BY <2>2, JobTime
  <2>4. ChoosesMail
    <3>1. Act # "mark"
      BY DEF Act
    <3> QED
      BY <2>2, <3>1, ChoiceSteps DEF RedoPcs, Chooses, Marks1, KeepsChoice
  <2>5. Mine.mail = c
    BY <1>1, <1>2, <2>2, <2>3 DEF MarkedBy
  <2> QED
    BY <1>6, <2>4, <2>5 DEF ChoosesMail, MailStatus, Changes
<1> QED
  BY <1>4, <1>5, <1>6

LEMMA MadeUpStep ==
  ASSUME CalendarBounds, Base, Hearing, Quiet, MadeUp, [Next]_vars
  PROVE  MadeUp'
BY AsideMadeUp, JobMadeUp DEF Next, Aside

(* The first write of a booking that is not quiet: the provider invites.    *)
Live == booking.status = "accepted" /\ Whole
NothingYet == line = <<>> => \A d \in Destinations : ref[d] # "filled"
OnOrganizers == ref[Organizer] = "filled" \/ (job.pc = "fill" /\ d1 = Organizer)
FirstTold ==
    /\ Live /\ line # <<>> /\ line[1].status \in {"pending", "done"} /\ ~ line[1].muted /\ OnOrganizers
    => HeardOn(0) \/ HeardOn(line[1].mail)
FirstOpened == NothingYet /\ FirstTold

LEMMA InitOpened == ASSUME Init PROVE FirstOpened
BY DEF Init, FirstOpened, NothingYet, FirstTold

LEMMA AsideOpened ==
  ASSUME CalendarBounds, Base, FirstOpened, Aside
  PROVE  FirstOpened'
<1>1. job' = job /\ d1' = d1 /\ UNCHANGED <<ref, torn>>
  BY AsideRows DEF d1
<1>2. RowsKept /\ \A c : HeardOn(c) => HeardOn(c)'
  BY RowsKeptStep, ToldGrows, AsideNext
<1>3. line' = <<>> => line = <<>>
  <2>1. line \in Seq(Row)
    BY DEF Base, TypeOK
  <2>2. ASSUME line' = <<>> PROVE Rows = {}
    BY <1>2, <2>2 DEF RowsKept
  <2> QED
    BY <2>1, <2>2, LineDomain
<1>4. NothingYet'
  BY <1>1, <1>3 DEF FirstOpened, NothingYet
<1>5. FirstTold'
  <2> SUFFICES ASSUME Live', line'[1].status \in {"pending", "done"}, ~ line'[1].muted, OnOrganizers'
               PROVE  HeardOn(0)' \/ HeardOn(line[1].mail)'
    BY DEF FirstTold, HeardOn
  <2>1. Live
    BY <1>1, OnBefore, AsideNext DEF Live, Whole
  <2>2. OnOrganizers /\ job.pc # "idle" => line # <<>>
    BY DEF Base, JobHasRow, AnyPending
  <2>3. line # <<>>
    <3>1. OnOrganizers
      BY <1>1 DEF OnOrganizers
    <3> QED
      BY <2>2, <3>1, OrganizerIn DEF OnOrganizers, FirstOpened, NothingYet
  <2>4. 1 \in Rows
    <3>1. Rows = 1 .. Len(line) /\ Len(line) \in Nat /\ Len(line) # 0
      BY <2>3, LineDomain DEF Base, TypeOK
    <3> QED
      BY <3>1
  <2>5. line'[1].status = line[1].status /\ line'[1].muted = line[1].muted
    BY <2>4, AsideRows
  <2>6. HeardOn(0) \/ HeardOn(line[1].mail)
    <3>1. OnOrganizers
      BY <1>1 DEF OnOrganizers
    <3> QED
      BY <2>1, <2>3, <2>5, <3>1 DEF FirstOpened, FirstTold
  <2>7. line[1].mail > 0 \/ line[1].mail = 0
    <3>1. line[1] \in Row
      BY <2>4, LineDomain DEF Base, TypeOK
    <3>2. line[1].mail \in 0 .. MaxChanges
      BY <3>1 DEF Row
    <3> QED
      BY <3>2 DEF CalendarBounds
  <2>8. line[1].mail > 0 => line'[1].mail = line[1].mail
    BY <1>2, <2>4 DEF RowsKept
  <2>9. PICK m : m = line[1].mail
    OBVIOUS
  <2>10. HeardOn(0)' \/ (HeardOn(m)' /\ m = line'[1].mail)
    BY <1>2, <2>6, <2>7, <2>8, <2>9
  <2> QED
    BY <2>10 DEF HeardOn
<1> QED
  BY <1>4, <1>5 DEF FirstOpened

(* The provider is asked to invite as the organizer's event is written.     *)
LEMMA FirstInvites ==
  ASSUME CalendarBounds, Base, Listed, Quiet, JobStep \/ JobDies, Whole', Whole, EventWritten, d1 = Organizer,
         line[1].status \in {"pending", "done"}, ~ line[1].muted
  PROVE  HeardOn(line[1].mail)'
<1>1. /\ job.pc = "create" /\ AnyPending /\ h \in Rows /\ Mine = line[h] /\ Rows = 1 .. Len(line) /\ Len(line) \in Nat
      /\ \A j \in Rows : j < h => line[j].status # "pending"
  BY MineFacts, HeadFacts, LineDomain DEF EventWritten
<1>2. h = 1
  <2> SUFFICES ASSUME h # 1
               PROVE  FALSE
    OBVIOUS
  <2>1. 1 \in Rows /\ 1 < h
    BY <1>1
  <2>2. Mine.action = "reschedule"
    BY <1>1 DEF Base, PcFits, FitsJob, FirstCreates
  <2>3. line[1].status = "done" /\ line # <<>>
    BY <1>1, <2>1
  <2> QED
    BY <1>1, <2>2, <2>3 DEF Listed, WritesFirst, FirstDone
<1>3. job.invite /\ job.inviting = Organizer
  <2>1. job.invite <=> ~ Mine.muted
    BY <1>1 DEF Quiet, QuietAttempt, WriteOrMove
  <2>2. job.inviting = Organizer
    BY <1>1, <1>2 DEF Quiet, QuietAttempt
  <2>3. ~ Mine.muted
    BY <1>1, <1>2
  <2> QED
    BY <2>1, <2>2, <2>3
<1>4. CreateEvent
  BY <1>1 DEF EventWritten, NoJob, JobStep, Begin, Decide, DecideRemoval, Mark, Claim, Fill, UpdateEvent,
     DeleteEvent, EndJob, ReinviteLooks, TakeOff, TakenOff, PutBack, Reinvited, JobDies
<1>5. Notify(TRUE)
  <2>1. job' # NoJob
    BY DEF EventWritten, NoJob
  <2> QED
    BY <1>4, <2>1 DEF CreateEvent, Created, Release, FailRow
<1>6. PICK says : told' = told \cup {[by |-> "provider", on |-> Mine.mail, says |-> says]}
  BY <1>3, <1>5 DEF Notify, Hear
<1>7. PICK c : c = Mine.mail
  OBVIOUS
<1>8. HeardOn(c)'
  BY <1>6, <1>7, HeardNow
<1>9. line'[1].mail = line[1].mail
  BY <1>1, <1>2, JobStepKeeps DEF JobKeeps, SameMail
<1> QED
  BY <1>1, <1>2, <1>7, <1>8, <1>9 DEF HeardOn

LEMMA JobOpened ==
  ASSUME CalendarBounds, Base, Written, Listed, Quiet, FirstOpened, JobStep \/ JobDies
  PROVE  FirstOpened'
<1>1. /\ JobKeeps /\ Rows' = Rows /\ line \in Seq(Row) /\ line' \in Seq(Row) /\ Len(line') = Len(line)
      /\ AnyPending /\ h \in Rows /\ Mine = line[h] /\ Mine.status = "pending"
  BY JobStepKeeps, HeadFacts DEF JobKeeps, Base, TypeOK, Steady, Rows
<1>2. line # <<>> /\ line' # <<>> /\ 1 \in Rows
  <2>1. Rows = 1 .. Len(line) /\ Len(line) \in Nat
    BY <1>1, LineDomain
  <2> QED
    BY <1>1, <2>1
<1>3. ASSUME Live', line'[1].status \in {"pending", "done"}, ~ line'[1].muted, OnOrganizers'
      PROVE  HeardOn(0)' \/ HeardOn(line[1].mail)'
  <2>1. Live /\ Mine.action # "delete"
    <3>1. Whole /\ booking.status = "accepted"
      BY <1>3, RefSteps, OnBefore DEF Live, Next
    <3> QED
      BY <1>1, <3>1 DEF Live, Base, DeleteLast, Cancelled
  <2>2. line[1].status \in {"pending", "done"} /\ ~ line[1].muted
    <3>1. line[1].status \in {"pending", "done"}
      BY <1>1, <1>2, <1>3 DEF JobKeeps, SameStatus, HeadBecomes
    <3> QED
      BY <1>2, <1>3, <3>1, JobRecords
  <2>3. CASE OnOrganizers
    <3>1. HeardOn(0) \/ HeardOn(line[1].mail)
      BY <1>2, <2>1, <2>2, <2>3 DEF FirstOpened, FirstTold
    <3>2. PICK m : m = line[1].mail
      OBVIOUS
    <3>3. HeardOn(0)' \/ HeardOn(m)'
      BY <3>1, <3>2, ToldGrows DEF Next
    <3> QED
      BY <1>1, <1>2, <3>2, <3>3 DEF HeardOn, JobKeeps, SameMail
  <2>4. CASE ~ OnOrganizers
    <3>1. RefsStay \/ RefClaimed \/ EventWritten \/ RefReleased \/ RefFilled
      BY <1>3, <2>1, RefSteps DEF Live, Removing
    <3>2. EventWritten /\ d1 = Organizer
      <4>1. Organizer \in Destinations
        BY OrganizerIn
      <4>2. CASE RefsStay \/ RefClaimed \/ RefReleased
        BY <1>3, <2>4, <4>1, <4>2 DEF RefsStay, RefClaimed, RefReleased, Writing, OnOrganizers, OtherRefs, NoJob
      <4>3. CASE RefFilled
        BY <1>3, <2>4, <4>1, <4>3 DEF RefFilled, OnOrganizers, OtherRefs
      <4>4. CASE EventWritten
        BY <1>3, <2>4, <4>4 DEF EventWritten, OnOrganizers
      <4> QED
        BY <3>1, <4>2, <4>3, <4>4
    <3>3. HeardOn(line[1].mail)'
      BY <1>3, <2>1, <2>2, <3>2, FirstInvites DEF Live
    <3> QED
      BY <1>1, <1>2, <3>3 DEF HeardOn, JobKeeps, SameMail
  <2> QED
    BY <2>3, <2>4
<1>4. FirstTold'
  BY <1>3 DEF FirstTold, HeardOn
<1>5. NothingYet'
  BY <1>2 DEF NothingYet
<1> QED
  BY <1>4, <1>5 DEF FirstOpened

LEMMA OpenedStep ==
  ASSUME CalendarBounds, Base, Written, Listed, Quiet, FirstOpened, [Next]_vars
  PROVE  FirstOpened'
BY AsideOpened, JobOpened DEF Next, Aside

(* A guest is taken off for the reinvite of a row's change: it is queued,   *)
(* and at the head until it ends.                                          *)
TakenOffFor == \A o \in Rows : line[o].removed => ReinviteFor(line[o].mail) # {}
TakenOffHead ==
    \A i \in Rows : line[i].action = "reinvite" /\ line[i].status = "pending" =>
        \A o \in MarkedBy(line[i].mail) : line[o].removed => i = h
TakenOffRows == TakenOffFor /\ TakenOffHead

LEMMA InitTakenOff == ASSUME Init PROVE TakenOffRows
BY DEF Init, TakenOffRows, TakenOffFor, TakenOffHead, Rows

(* What has been recorded of a row stood before a step that is not the job's. *)
LEMMA AsideRecords ==
  ASSUME CalendarBounds, Base, TakenOffFor, Aside, NEW o \in Rows', line'[o].removed
  PROVE  /\ o \in Rows /\ line[o].removed /\ line'[o].action = line[o].action
         /\ line[o].mail \in Changes /\ line'[o].mail = line[o].mail /\ ReinviteFor(line[o].mail) # {}
<1>1. o \in Rows
  <2> SUFFICES ASSUME o \notin Rows
               PROVE  FALSE
    OBVIOUS
  <2>1. PICK a, m : line'[o] = NewRow(a, m)
    <3>1. o = Len(line) + 1 /\ \E a, m : line'[Len(line) + 1] = NewRow(a, m)
      BY AsideRows
    <3> QED
      BY <3>1
  <2>2. NewRow(a, m).removed = FALSE
    BY DEF NewRow
  <2> QED
    BY <2>1, <2>2
<1>2. line[o].removed /\ line'[o].action = line[o].action
  BY <1>1, AsideRows
<1>3. ReinviteFor(line[o].mail) # {}
  BY <1>1, <1>2 DEF TakenOffFor
<1>4. line[o].mail \in Changes
  BY <1>3 DEF ReinviteFor, Base, ReinvitesOwe, Rows
<1>5. line'[o].mail = line[o].mail
  BY <1>1, <1>4, RowsKeptStep, AsideNext DEF RowsKept, Changes
<1> QED
  BY <1>1, <1>2, <1>3, <1>4, <1>5

LEMMA AsideRedo ==
  ASSUME CalendarBounds, Base, TakenOffRows, Aside, NEW o \in Rows', line'[o].removed, line'[o].action # "reinvite",
         NEW i \in Rows', line'[i].action = "reinvite", line'[i].status = "pending", line'[i].mail = line'[o].mail
  PROVE  /\ i = h /\ i = h' /\ AnyPending /\ Mine = line[i] /\ Mine' = line'[i]
         /\ Mine.action = "reinvite" /\ Mine.mail = line'[i].mail
         /\ o \in MarkedBy(Mine.mail) /\ line[o].removed
<1>1. /\ o \in Rows /\ line[o].removed /\ line'[o].action = line[o].action
      /\ line[o].mail \in Changes /\ line'[o].mail = line[o].mail /\ ReinviteFor(line[o].mail) # {}
  BY AsideRecords DEF TakenOffRows
<1>2. i \in Rows
  <2> SUFFICES ASSUME i \notin Rows
               PROVE  FALSE
    OBVIOUS
  <2>1. /\ i = Len(line) + 1
        /\ \/ \E b : line'[Len(line) + 1] = NewRow("reinvite", b) /\ ReinviteFor(b) = {}
           \/ \E a \in {"create", "reschedule", "delete"} : line'[Len(line) + 1] = NewRow(a, 0)
    BY AsideRows
  <2>2. CASE \E b : line'[i] = NewRow("reinvite", b) /\ ReinviteFor(b) = {}
    <3>1. PICK b : line'[i] = NewRow("reinvite", b) /\ ReinviteFor(b) = {}
      BY <2>2
    <3>2. line'[i].mail = b
      BY <3>1 DEF NewRow
    <3> QED
      BY <1>1, <3>1, <3>2
  <2>3. CASE \E a \in {"create", "reschedule", "delete"} : line'[i] = NewRow(a, 0)
    BY <2>3 DEF NewRow
  <2> QED
    BY <2>1, <2>2, <2>3
<1>3. line[i].action = "reinvite" /\ line[i].status = "pending"
  BY <1>2, AsideRows
<1>4. line[i].mail \in Changes
  BY <1>2, <1>3 DEF Base, ReinvitesOwe
<1>5. line'[i].mail = line[i].mail
  BY <1>2, <1>4, RowsKeptStep, AsideNext DEF RowsKept, Changes
<1>6. o \in MarkedBy(line[i].mail)
  BY <1>1, <1>5 DEF MarkedBy, Rows
<1>7. i = h /\ AnyPending
  BY <1>1, <1>2, <1>3, <1>6 DEF TakenOffRows, TakenOffHead, AnyPending, Pending, Rows
<1>8. h' = h /\ Mine = line[h] /\ Mine' = line'[h']
  BY <1>7, AsideHead, HeadIs
<1> QED
  BY <1>1, <1>3, <1>5, <1>6, <1>7, <1>8

LEMMA AsideTakenOff ==
  ASSUME CalendarBounds, Base, TakenOffRows, Aside
  PROVE  TakenOffRows'
<1>1. TakenOffFor'
  <2> SUFFICES ASSUME NEW o \in Rows', line'[o].removed
               PROVE  ReinviteFor(line[o].mail)' # {}
    BY DEF TakenOffFor
  <2>1. line[o].mail \in Changes /\ line'[o].mail = line[o].mail /\ ReinviteFor(line[o].mail) # {}
    BY AsideRecords DEF TakenOffRows
  <2>2. PICK m \in Changes : m = line[o].mail
    BY <2>1
  <2>3. ReinviteFor(m)' # {}
    BY <2>1, <2>2, ReinvitesStay, AsideNext
  <2> QED
    BY <2>1, <2>2, <2>3 DEF ReinviteFor
<1>2. TakenOffHead'
  <2> SUFFICES ASSUME NEW i \in Rows', line'[i].action = "reinvite", line'[i].status = "pending",
                      NEW o \in Rows', line'[o].mail = line'[i].mail, line'[o].action # "reinvite", line'[o].removed
               PROVE  i = h'
    BY DEF TakenOffHead, MarkedBy, Rows
  <2> QED
    BY AsideRedo
<1> QED
  BY <1>1, <1>2 DEF TakenOffRows

(* What it is for, at a step of the job: the row of the change is its own.  *)
LEMMA JobRedo ==
  ASSUME CalendarBounds, Base, Marks, TakenOffRows, JobStep \/ JobDies, NEW o \in Rows, line'[o].removed,
         line[o].action # "reinvite", NEW i \in Rows, line[i].action = "reinvite", line'[i].status = "pending",
         line[i].mail = line[o].mail
  PROVE  /\ i = h /\ h' = h /\ AnyPending /\ Mine = line[i] /\ Mine' = line'[i] /\ Mine'.mail = Mine.mail
         /\ Mine.action = "reinvite"
         /\ o \in MarkedBy(Mine.mail) /\ (line[o].removed \/ TakenOff)
<1>1. /\ JobKeeps /\ Steady /\ line \in Seq(Row) /\ AnyPending /\ h \in Rows /\ Mine = line[h]
      /\ Mine.status = "pending"
  BY JobStepKeeps, HeadFacts DEF JobKeeps, Base, TypeOK
<1>2. line[i].status = "pending"
  BY <1>1 DEF JobKeeps, SameStatus, HeadBecomes
<1>3. line[o].removed \/ (TakenOff /\ o = Owed)
  BY JobRecords
<1>4. i = h
  <2>1. CASE line[o].removed
    BY <1>2, <2>1 DEF TakenOffRows, TakenOffHead, MarkedBy, Rows
  <2>2. CASE TakenOff /\ o = Owed
    <3>1. Mine.action = "reinvite"
      BY <2>2 DEF TakenOff, Base, PcFits, FitsJob, ReinvitePcs
    <3>2. line[Owed].mail = Mine.mail /\ Mine.mail \in Changes
      BY <1>1, <3>1, OwedFacts
    <3> QED
      BY <1>1, <2>2, <3>1, <3>2 DEF Marks, OneMark, Changes
  <2> QED
    BY <1>3, <2>1, <2>2
<1>5. SameStatus
  BY <1>1, <1>2, <1>4 DEF JobKeeps, SameStatus, HeadBecomes
<1>6. h' = h /\ Mine' = line'[h]
  BY <1>1, <1>5, HeadStays
<1>7. Mine'.mail = Mine.mail
  BY <1>1, <1>6 DEF JobKeeps, SameMail
<1> QED
  BY <1>1, <1>3, <1>4, <1>6, <1>7 DEF MarkedBy, Rows

LEMMA JobTakenOff ==
  ASSUME CalendarBounds, Base, Marks, TakenOffRows, JobStep \/ JobDies
  PROVE  TakenOffRows'
<1>1. /\ Rows' = Rows /\ AnyPending /\ h \in Rows /\ Mine = line[h] /\ line \in Seq(Row)
      /\ \A i \in Rows : line'[i].mail = line[i].mail /\ line'[i].action = line[i].action
  BY JobStepKeeps, HeadFacts DEF JobKeeps, Base, TypeOK, Steady, SameMail, Rows
<1>2. TakenOffFor'
  <2> SUFFICES ASSUME NEW o \in Rows, line'[o].removed
               PROVE  ReinviteFor(line[o].mail)' # {}
    BY <1>1 DEF TakenOffFor
  <2>1. ReinviteFor(line[o].mail) # {}
    <3>1. CASE line[o].removed
      BY <3>1 DEF TakenOffRows, TakenOffFor
    <3>2. CASE TakenOff /\ o = Owed
      <4>1. Mine.action = "reinvite"
        BY <3>2 DEF TakenOff, Base, PcFits, FitsJob, ReinvitePcs
      <4>2. line[Owed].mail = Mine.mail
        BY <1>1, <4>1, OwedFacts
      <4> QED
        BY <1>1, <3>2, <4>1, <4>2 DEF ReinviteFor, Rows
    <3> QED
      BY <3>1, <3>2, JobRecords
  <2>2. PICK m : m = line[o].mail
    OBVIOUS
  <2>3. m \in Changes
    BY <2>1, <2>2 DEF ReinviteFor, Base, ReinvitesOwe, Rows
  <2>4. ReinviteFor(m)' # {}
    BY <2>1, <2>2, <2>3, ReinvitesStay DEF Next
  <2> QED
    BY <1>1, <2>2, <2>4 DEF ReinviteFor
<1>3. TakenOffHead'
  <2> SUFFICES ASSUME NEW i \in Rows, line'[i].action = "reinvite", line'[i].status = "pending",
                      NEW o \in Rows, line'[o].mail = line'[i].mail, line'[o].action # "reinvite", line'[o].removed
               PROVE  i = h'
    BY <1>1 DEF TakenOffHead, MarkedBy, Rows
  <2> QED
    BY <1>1, JobRedo
<1> QED
  BY <1>2, <1>3 DEF TakenOffRows

LEMMA TakenOffStep ==
  ASSUME CalendarBounds, Base, Marks, TakenOffRows, [Next]_vars
  PROVE  TakenOffRows'
BY AsideTakenOff, JobTakenOff DEF Next, Aside

(* From when the guest is taken off the organizer's event until the provider *)
(* has invited them, they are off it.                                      *)
OffOrHeard(c) == HeardOn(c) \/ ~ event[Inviting(Filled)].guest
TakenOffNow ==
    Live /\ AnyPending /\ Mine.action = "reinvite" =>
        \A o \in MarkedBy(Mine.mail) : line[o].removed => OffOrHeard(Mine.mail)
PutsBack == Live /\ job.pc \in {"takenoff", "putback"} => OffOrHeard(Mine.mail)
PutBackHeard == Live /\ job.pc = "reinvited" => HeardOn(Mine.mail)
ReinvitedHeard == \A o \in Rows : line[o].reinvited => line[o].mail > 0 /\ (Live => HeardOn(line[o].mail))
Redone == TakenOffNow /\ PutsBack /\ PutBackHeard /\ ReinvitedHeard

LEMMA InitRedone == ASSUME Init PROVE Redone
BY DEF Init, Redone, TakenOffNow, PutsBack, PutBackHeard, ReinvitedHeard, NoJob, Rows, AnyPending

LEMMA AsideRedone ==
  ASSUME CalendarBounds, Base, TakenOffRows, Redone, Aside
  PROVE  Redone'
<1>1. job' = job /\ UNCHANGED <<ref, event, torn>> /\ Filled' = Filled /\ Inviting(Filled)' = Inviting(Filled)
  BY AsideRows DEF Filled, Inviting, First
<1>2. \A c : HeardOn(c) => HeardOn(c)'
  BY ToldGrows, AsideNext
<1>3. \A c : OffOrHeard(c) => OffOrHeard(c)'
  BY <1>1, <1>2 DEF OffOrHeard
<1>4. Live' => Live
  BY <1>1, OnBefore, AsideNext DEF Live, Whole
<1>5. PICK m : m = Mine.mail
  OBVIOUS
<1>6. job.pc # "idle" => Mine' = Mine
  BY MineStays DEF Aside
<1>7. PutsBack'
  <2> SUFFICES ASSUME Live, job.pc \in {"takenoff", "putback"}
               PROVE  OffOrHeard(Mine.mail)'
    BY <1>1, <1>4 DEF PutsBack
  <2>1. OffOrHeard(m)' /\ Mine' = Mine
    BY <1>3, <1>5, <1>6 DEF Redone, PutsBack
  <2> QED
    BY <1>5, <2>1 DEF OffOrHeard, HeardOn
<1>8. PutBackHeard'
  <2> SUFFICES ASSUME Live, job.pc = "reinvited"
               PROVE  HeardOn(Mine.mail)'
    BY <1>1, <1>4 DEF PutBackHeard
  <2>1. HeardOn(m)' /\ Mine' = Mine
    BY <1>2, <1>5, <1>6 DEF Redone, PutBackHeard
  <2> QED
    BY <1>5, <2>1 DEF HeardOn
<1>9. TakenOffNow'
  <2> SUFFICES ASSUME Live, AnyPending', Mine'.action = "reinvite", NEW o \in Rows', line'[o].mail = Mine'.mail,
                      line'[o].action # "reinvite", line'[o].removed
               PROVE  OffOrHeard(Mine.mail)'
    BY <1>4 DEF TakenOffNow, MarkedBy, Rows
  <2>1. PICK i : i = h'
    OBVIOUS
  <2>2. i \in Rows' /\ Mine' = line'[i] /\ line'[i].status = "pending"
    <3>1. line' \in Seq(Row)
      BY BaseStep, AsideNext DEF Base, TypeOK
    <3>2. PICK k \in DOMAIN line' : line'[k].status = "pending"
      BY HeadIs
    <3> QED
      BY <2>1, <3>1, <3>2, HeadIs, HeadOfFirst DEF Rows
  <2>3. /\ AnyPending /\ Mine.action = "reinvite" /\ Mine.mail = Mine'.mail
        /\ o \in MarkedBy(Mine.mail) /\ line[o].removed
    BY <2>2, AsideRedo
  <2>4. OffOrHeard(m)'
    BY <1>3, <1>5, <2>3 DEF Redone, TakenOffNow
  <2> QED
    BY <1>5, <2>3, <2>4 DEF OffOrHeard, HeardOn
<1>10. ReinvitedHeard'
  <2> SUFFICES ASSUME NEW o \in Rows', line'[o].reinvited
               PROVE  line'[o].mail > 0 /\ (Live => HeardOn(line[o].mail)')
    BY <1>4 DEF ReinvitedHeard
  <2>1. o \in Rows
    <3> SUFFICES ASSUME o \notin Rows
                 PROVE  FALSE
      OBVIOUS
    <3>1. PICK a, b : line'[o] = NewRow(a, b)
      <4>1. o = Len(line) + 1 /\ \E a, b : line'[Len(line) + 1] = NewRow(a, b)
        BY AsideRows
      <4> QED
        BY <4>1
    <3>2. NewRow(a, b).reinvited = FALSE
      BY DEF NewRow
    <3> QED
      BY <3>1, <3>2
  <2>2. line[o].reinvited
    BY <2>1, AsideRows
  <2>3. line[o].mail > 0 /\ (Live => HeardOn(line[o].mail))
    BY <2>1, <2>2 DEF Redone, ReinvitedHeard
  <2>4. line'[o].mail = line[o].mail
    BY <2>1, <2>3, RowsKeptStep, AsideNext DEF RowsKept
  <2>5. PICK c : c = line[o].mail
    OBVIOUS
  <2>6. Live => HeardOn(c)'
    BY <1>2, <2>3, <2>5
  <2> QED
    BY <2>3, <2>4, <2>5, <2>6 DEF HeardOn
<1> QED
  BY <1>7, <1>8, <1>9, <1>10 DEF Redone

(* The guest who was off the organizer's event is invited as they are put   *)
(* back on it.                                                             *)
LEMMA PutBackTells ==
  ASSUME CalendarBounds, Base, Listed, Guests, Redone, Live, PutBack, job'.pc = "reinvited", NEW m, m = Mine.mail
  PROVE  HeardOn(m)'
<1>1. job.pc = "putback" /\ job' # NoJob
  BY DEF PutBack, NoJob
<1>2. Notify(event[d1].n > 0 /\ (event[d1].time # job.time \/ ~ event[d1].guest))
  BY <1>1 DEF PutBack, FailRow
<1>3. /\ job.left = {Inviting(Filled)} /\ job.inviting = Inviting(Filled) /\ job.invite /\ Filled # {}
  BY <1>1 DEF Guests, Reinviting, RedoPcs
<1>4. d1 = Inviting(Filled) /\ d1 \in Filled
  <2>1. d1 \in job.left
    BY <1>3, NextDest
  <2>2. Inviting(Filled) \in Filled
    BY <1>3, InvitingIn DEF Filled
  <2> QED
    BY <1>3, <2>1, <2>2
<1>5. event[d1].n > 0
  BY <1>4 DEF Live, Listed, There, Being, Filled
<1>6. CASE HeardOn(m)
  BY <1>6, ToldGrows DEF Next, JobStep
<1>7. CASE ~ HeardOn(m)
  <2>1. ~ event[d1].guest
    BY <1>1, <1>4, <1>7 DEF Redone, PutsBack, OffOrHeard
  <2>2. \E says : told' = told \cup {[by |-> "provider", on |-> m, says |-> says]}
    BY <1>2, <1>3, <1>4, <1>5, <2>1 DEF Notify, Hear
  <2> QED
    BY <2>2, HeardNow
<1> QED
  BY <1>6, <1>7

LEMMA SameInviting ==
  ASSUME ref' = ref
  PROVE  Filled' = Filled /\ Inviting(Filled)' = Inviting(Filled)
<1>1. Filled' = Filled
  BY DEF Filled
<1> QED
  BY <1>1 DEF Inviting, First

(* While a reinvite is at work, who is off stays off or hears of it.        *)
LEMMA RedoStays ==
  ASSUME CalendarBounds, Base, Listed, Guests, Redone, Live, JobStep \/ JobDies, Mine.action = "reinvite",
         NEW m, m = Mine.mail, OffOrHeard(m)
  PROVE  OffOrHeard(m)'
<1>1. Filled' = Filled /\ Inviting(Filled)' = Inviting(Filled)
  BY RedoKeepsRefs, SameInviting
<1>2. HeardOn(m) => HeardOn(m)'
  BY ToldGrows DEF Next
<1>3. CASE event' = event
  BY <1>1, <1>2, <1>3 DEF OffOrHeard
<1>4. CASE TakeOff /\ event' # event
  <2>1. job.pc = "takeoff" /\ ~ event'[d1].guest
    BY <1>4, TakeOffSteps DEF TakeOff
  <2>2. job.left = {Inviting(Filled)}
    BY <2>1 DEF Guests, Reinviting, RedoPcs
  <2>3. d1 = Inviting(Filled)
    BY <2>2, NextDest
  <2> QED
    BY <1>1, <2>1, <2>3 DEF OffOrHeard
<1>5. CASE PutBack /\ event' # event
  <2>1. job'.pc = "reinvited"
    <3>1. job' = [job EXCEPT !.pc = "reinvited"]
      BY <1>5 DEF PutBack
    <3> QED
      BY <3>1, JobRecord DEF JobPcs, Base, TypeOK
  <2> QED
    BY <1>5, <2>1, PutBackTells DEF OffOrHeard
<1>6. event' = event \/ TakeOff \/ PutBack
  BY DEF Base, PcFits, FitsJob, JobStep, Begin, Decide, DecideRemoval, Mark, Claim, CreateEvent, Fill, UpdateEvent,
     DeleteEvent, EndJob, ReinviteLooks, TakenOff, Reinvited, JobDies
<1> QED
  BY <1>3, <1>4, <1>5, <1>6

LEMMA JobRedone ==
  ASSUME CalendarBounds, Base, Written, Marks, Hearing, Listed, Guests, TakenOffRows, Redone, JobStep \/ JobDies
  PROVE  Redone'
<1>1. /\ JobKeeps /\ Rows' = Rows /\ AnyPending /\ h \in Rows /\ Mine = line[h] /\ line \in Seq(Row)
      /\ line' \in Seq(Row)
      /\ \A i \in Rows : line'[i].mail = line[i].mail /\ line'[i].action = line[i].action
  BY JobStepKeeps, HeadFacts DEF JobKeeps, Base, TypeOK, Steady, SameMail, Rows
<1>2. Live' => Live
  BY RefSteps, OnBefore DEF Live, Next
<1>3. PICK m : m = Mine.mail
  OBVIOUS
<1>4. job'.pc # "idle" => Mine'.mail = Mine.mail
  BY <1>1, JobTime, HeadIs
<1>5. PutsBack'
  <2> SUFFICES ASSUME Live, job'.pc \in {"takenoff", "putback"}
               PROVE  OffOrHeard(Mine.mail)'
    BY <1>2 DEF PutsBack
  <2>1. (ReinviteLooks \/ TakeOff \/ TakenOff \/ PutBack) /\ Mine.action = "reinvite" /\ job' # NoJob
    BY RedoSteps DEF RedoPcs, NoJob
  <2>2. Filled' = Filled /\ Inviting(Filled)' = Inviting(Filled)
    BY <2>1, RedoKeepsRefs, SameInviting
  <2>3. CASE ReinviteLooks
    <3>1. line[Owed].removed
      BY <2>1, <2>3, ReinviteLooksSteps DEF ReinviteLooks, EndRow, FailRow
    <3>2. Owed \in MarkedBy(Mine.mail)
      BY <1>1, <2>1, OwedFacts
    <3>3. OffOrHeard(m)
      BY <1>1, <1>3, <2>1, <3>1, <3>2 DEF Redone, TakenOffNow
    <3> QED
      BY <1>3, <1>4, <2>1, <3>3, RedoStays DEF OffOrHeard, HeardOn
  <2>4. CASE TakeOff
    <3>1. job.pc = "takeoff" /\ ~ event'[d1].guest
      BY <2>1, <2>4, TakeOffSteps DEF TakeOff, FailRow
    <3>2. job.left = {Inviting(Filled)}
      BY <3>1 DEF Guests, Reinviting, RedoPcs
    <3>3. d1 = Inviting(Filled)
      BY <3>2, NextDest
    <3> QED
      BY <2>2, <3>1, <3>3 DEF OffOrHeard
  <2>5. CASE TakenOff
    <3>1. OffOrHeard(m)
      BY <1>3, <2>5 DEF TakenOff, Redone, PutsBack
    <3> QED
      BY <1>3, <1>4, <2>1, <3>1, RedoStays DEF OffOrHeard, HeardOn
  <2>6. CASE PutBack
    <3>1. job' = [job EXCEPT !.pc = "reinvited"]
      BY <2>1, <2>6 DEF PutBack, FailRow
    <3> QED
      BY <3>1, JobRecord DEF JobPcs, Base, TypeOK
  <2> QED
    BY <2>1, <2>3, <2>4, <2>5, <2>6
<1>6. PutBackHeard'
  <2> SUFFICES ASSUME Live, job'.pc = "reinvited"
               PROVE  HeardOn(Mine.mail)'
    BY <1>2 DEF PutBackHeard
  <2>1. (ReinviteLooks \/ TakeOff \/ TakenOff \/ PutBack) /\ job' # NoJob /\ job \in Job
    BY RedoSteps DEF RedoPcs, NoJob, Base, TypeOK
  <2>2. ~ ReinviteLooks
    BY <2>1, ReinviteLooksSteps DEF ReinviteLooks, EndRow, FailRow
  <2>7. "takenoff" \in JobPcs /\ "putback" \in JobPcs
    BY DEF JobPcs
  <2>8. ~ TakeOff
    <3>1. [job EXCEPT !.pc = "takenoff"].pc = "takenoff"
      BY <2>1, <2>7, JobRecord
    <3> QED
      BY <2>1, <3>1 DEF TakeOff, FailRow
  <2>9. ~ TakenOff
    <3>1. [job EXCEPT !.pc = "putback"].pc = "putback"
      BY <2>1, <2>7, JobRecord
    <3> QED
      BY <3>1 DEF TakenOff
  <2>3. ~ TakeOff /\ ~ TakenOff
    BY <2>8, <2>9
  <2>4. HeardOn(m)'
    BY <1>3, <2>1, <2>2, <2>3, PutBackTells
  <2> QED
    BY <1>3, <1>4, <2>4 DEF HeardOn
<1>7. TakenOffNow'
  <2> SUFFICES ASSUME Live, AnyPending', Mine'.action = "reinvite", NEW o \in Rows', line'[o].mail = Mine'.mail,
                      line'[o].action # "reinvite", line'[o].removed
               PROVE  OffOrHeard(Mine.mail)'
    BY <1>2 DEF TakenOffNow, MarkedBy, Rows
  <2>1. PICK i : i = h'
    OBVIOUS
  <2>2. i \in Rows /\ Mine' = line'[i] /\ line'[i].status = "pending"
    <3>1. PICK k \in DOMAIN line' : line'[k].status = "pending"
      BY HeadIs
    <3> QED
      BY <1>1, <2>1, <3>1, HeadIs, HeadOfFirst DEF Rows
  <2>3. /\ AnyPending /\ Mine.action = "reinvite" /\ Mine'.mail = Mine.mail
        /\ o \in MarkedBy(Mine.mail) /\ (line[o].removed \/ TakenOff)
    BY <1>1, <2>2, JobRedo
  <2>4. OffOrHeard(m)
    <3>1. CASE line[o].removed
      BY <1>3, <2>3, <3>1 DEF Redone, TakenOffNow
    <3>2. CASE TakenOff
      BY <1>3, <3>2 DEF TakenOff, Redone, PutsBack
    <3> QED
      BY <2>3, <3>1, <3>2
  <2> QED
    BY <1>3, <2>3, <2>4, RedoStays DEF OffOrHeard, HeardOn
<1>8. ReinvitedHeard'
  <2> SUFFICES ASSUME NEW o \in Rows, line'[o].reinvited
               PROVE  line[o].mail > 0 /\ (Live => HeardOn(line[o].mail)')
    BY <1>1, <1>2 DEF ReinvitedHeard
  <2>1. line[o].mail > 0 /\ (Live => HeardOn(line[o].mail))
    <3>1. CASE line[o].reinvited
      BY <3>1 DEF Redone, ReinvitedHeard
    <3>2. CASE Reinvited /\ o = Owed
      <4>1. Mine.action = "reinvite" /\ line[Owed].mail = Mine.mail
        BY <3>2, ReinvitedSteps
      <4>2. Mine.mail > 0
        BY <1>1, <4>1 DEF Base, ReinvitesOwe, Changes
      <4> QED
        BY <3>2, <4>1, <4>2 DEF Reinvited, Redone, PutBackHeard
    <3> QED
      BY <3>1, <3>2, JobRecords
  <2>2. PICK c : c = line[o].mail
    OBVIOUS
  <2>3. Live => HeardOn(c)'
    BY <2>1, <2>2, ToldGrows DEF Next
  <2> QED
    BY <1>1, <2>1, <2>2, <2>3 DEF HeardOn
<1> QED
  BY <1>5, <1>6, <1>7, <1>8 DEF Redone

LEMMA RedoneStep ==
  ASSUME CalendarBounds, Base, Written, Marks, Hearing, Listed, Guests, TakenOffRows, Redone, [Next]_vars
  PROVE  Redone'
BY AsideRedone, JobRedone DEF Next, Aside

(* A reinvite that is done has had the guest told, wherever its change was  *)
(* written quietly.                                                        *)
RedoneHeard ==
    Live /\ FirstDone =>
        \A i \in Rows : line[i].action = "reinvite" /\ line[i].status = "done" =>
            \A o \in MarkedBy(line[i].mail) : line[o].muted => HeardOn(line[i].mail)

LEMMA InitRedoneHeard == ASSUME Init PROVE RedoneHeard
BY DEF Init, RedoneHeard, FirstDone

LEMMA AsideRedoneHeard ==
  ASSUME CalendarBounds, Base, Marks, RedoneHeard, Aside
  PROVE  RedoneHeard'
<1> SUFFICES ASSUME Live', FirstDone', NEW i \in Rows', line'[i].action = "reinvite", line'[i].status = "done",
                    NEW o \in Rows', line'[o].mail = line'[i].mail, line'[o].action # "reinvite", line'[o].muted
             PROVE  HeardOn(line[i].mail)'
  BY DEF RedoneHeard, MarkedBy, Rows
<1>1. Live /\ FirstDone
  BY OnBefore, AsideNext, AsideRows, AsideChanges DEF Live, Whole
<1>2. i \in Rows
  <2> SUFFICES ASSUME i \notin Rows
               PROVE  FALSE
    OBVIOUS
  <2>1. PICK a, b : line'[i] = NewRow(a, b)
    <3>1. i = Len(line) + 1 /\ \E a, b : line'[Len(line) + 1] = NewRow(a, b)
      BY AsideRows
    <3> QED
      BY <3>1
  <2>2. NewRow(a, b).status = "pending"
    BY DEF NewRow
  <2> QED
    BY <2>1, <2>2
<1>3. line[i].action = "reinvite" /\ line[i].status = "done"
  BY <1>2, AsideRows
<1>4. line[i].mail \in Changes /\ line[i].mail > 0 /\ Closed(line[i].mail)
  BY <1>2, <1>3 DEF Base, ReinvitesOwe, Changes, Marks, MarksClosed
<1>5. line'[i].mail = line[i].mail
  BY <1>2, <1>4, RowsKeptStep, AsideNext DEF RowsKept
<1>6. o \in Rows /\ line[o].mail = line[i].mail /\ line[o].action # "reinvite"
  BY <1>4, <1>5, AsideMarked
<1>7. line[o].muted
  BY <1>6, AsideRows
<1>8. PICK m : m = line[i].mail
  OBVIOUS
<1>9. HeardOn(m)
  BY <1>1, <1>2, <1>3, <1>6, <1>7, <1>8 DEF RedoneHeard, MarkedBy, Rows
<1>10. HeardOn(m)'
  BY <1>9, ToldGrows, AsideNext
<1> QED
  BY <1>5, <1>8, <1>10 DEF HeardOn

LEMMA JobRedoneHeard ==
  ASSUME CalendarBounds, Base, Written, Marks, Listed, Sent, Redone, RedoneHeard, JobStep \/ JobDies
  PROVE  RedoneHeard'
<1>1. /\ JobKeeps /\ Rows' = Rows /\ AnyPending /\ h \in Rows /\ Mine = line[h] /\ line \in Seq(Row)
      /\ Mine.status = "pending" /\ Rows = 1 .. Len(line) /\ Len(line) \in Nat
      /\ \A i \in Rows : line'[i].mail = line[i].mail /\ line'[i].action = line[i].action
  BY JobStepKeeps, HeadFacts, LineDomain DEF JobKeeps, Base, TypeOK, Steady, SameMail, Rows
<1> SUFFICES ASSUME Live', FirstDone', NEW i \in Rows, line[i].action = "reinvite", line'[i].status = "done",
                    NEW o \in Rows, line[o].mail = line[i].mail, line[o].action # "reinvite", line'[o].muted
             PROVE  HeardOn(line[i].mail)'
  BY <1>1 DEF RedoneHeard, MarkedBy, Rows
<1>2. Live
  BY RefSteps, OnBefore DEF Live, Next
<1>3. line[i].mail \in Changes /\ o < i
  <2>1. line[i].mail \in Changes /\ HasRow(i)
    BY DEF Base, ReinvitesOwe
  <2>2. PICK p \in Rows : p < i /\ line[p].mail = line[i].mail /\ line[p].action # "reinvite"
    BY <2>1 DEF HasRow
  <2>3. p = o
    BY <2>1, <2>2 DEF Marks, OneMark, Changes
  <2> QED
    BY <2>1, <2>2, <2>3
<1>4. 1 \in Rows /\ i # 1 /\ 1 < i
  BY <1>1, <1>3
<1>5. ASSUME line[1].status = "pending"
      PROVE  FALSE
  <2>1. h = 1
    BY <1>1, <1>4, <1>5, HeadFacts
  <2>2. line[i].status = "pending"
    BY <1>4, <1>5 DEF Base, InTurn
  <2> QED
    BY <1>1, <1>4, <2>1, <2>2 DEF JobKeeps, SameStatus, HeadBecomes
<1>6. FirstDone
  <2>1. line'[1].status = "done" /\ line # <<>>
    BY <1>1, <1>4 DEF FirstDone
  <2>2. line'[1].status = line[1].status
    BY <1>1, <1>4, <1>5 DEF JobKeeps, SameStatus, HeadBecomes
  <2> QED
    BY <2>1, <2>2 DEF FirstDone
<1>7. line[o].muted
  <2> SUFFICES ASSUME Mark, o = h
               PROVE  FALSE
    BY JobRecords
  <2>1. line'[i].status = line[i].status
    BY MarkKeeps DEF SameStatus
  <2> QED
    BY <1>1, <1>3, <2>1 DEF Base, InTurn
<1>8. PICK m : m = line[i].mail
  OBVIOUS
<1>9. HeardOn(m)
  <2>1. CASE line[i].status = "done"
    BY <1>2, <1>6, <1>7, <1>8, <2>1 DEF RedoneHeard, MarkedBy, Rows
  <2>2. CASE line[i].status # "done"
    <3>1. i = h /\ Mine = line[i] /\ HeadBecomes("done") /\ (ReinviteLooks \/ Reinvited)
      BY <2>2, DoneSteps
    <3>2. o = Owed
      <4>1. Owed \in Rows /\ line[Owed].mail = Mine.mail /\ line[Owed].action # "reinvite"
        BY <1>1, <3>1, OwedFacts
      <4> QED
        BY <1>3, <3>1, <4>1 DEF Marks, OneMark, Changes
    <3>3. CASE Reinvited
      BY <1>2, <1>8, <3>1, <3>3 DEF Reinvited, Redone, PutBackHeard
    <3>4. CASE ReinviteLooks
      <4>1. ~ Wanted \/ MailStatus = "done" \/ (MailStatus # "queued" /\ Filled = {})
        <5>1. line' # line /\ job.pc = "reinvite"
          BY <2>2, <3>4 DEF ReinviteLooks
        <5>2. ~ FailRow(Mine)
          BY <1>1, <3>1, <5>1, FailSteps DEF HeadBecomes
        <5> QED
          BY <3>4, <5>1, <5>2 DEF ReinviteLooks
      <4>2. CASE ~ Wanted
        <5>1. line[o].reinvited
          BY <1>7, <3>2, <4>2 DEF Wanted
        <5> QED
          BY <1>2, <1>8, <5>1 DEF Redone, ReinvitedHeard
      <4>3. CASE MailStatus = "done"
        BY <1>3, <1>8, <3>1, <4>3 DEF MailStatus, Sent, MailsHeard, Changes
      <4>4. Filled # {}
        <5>1. AllFilled
          BY <1>2, <1>6 DEF Listed, FilledSince, Live, MayStand
        <5> QED
          BY <5>1, OrganizerIn DEF AllFilled, Filled
      <4> QED
        BY <4>1, <4>2, <4>3, <4>4
    <3> QED
      BY <3>1, <3>3, <3>4
  <2> QED
    BY <2>1, <2>2
<1>10. HeardOn(m)'
  BY <1>9, ToldGrows DEF Next
<1> QED
  BY <1>1, <1>8, <1>10 DEF HeardOn

LEMMA RedoneHeardStep ==
  ASSUME CalendarBounds, Base, Written, Marks, Listed, Sent, Redone, RedoneHeard, [Next]_vars
  PROVE  RedoneHeard'
BY AsideRedoneHeard, JobRedoneHeard DEF Next, Aside

Everybody == Sent /\ Quiet /\ MadeUp /\ FirstOpened /\ TakenOffRows /\ Redone /\ RedoneHeard

LEMMA EverybodyStep ==
  ASSUME CalendarBounds, AllOfIt, Everybody, [Next]_vars
  PROVE  Everybody'
BY SentStep, QuietStep, MadeUpStep, OpenedStep, TakenOffStep, RedoneStep, RedoneHeardStep DEF AllOfIt, Everybody

LEMMA EverybodyKept == ASSUME CalendarBounds PROVE Spec => []Everybody
<1>1. Init => Everybody
  BY InitSent, InitQuiet, InitMadeUp, InitOpened, InitTakenOff, InitRedone, InitRedoneHeard DEF Everybody
<1>2. AllOfIt /\ Everybody /\ [Next]_vars => Everybody'
  BY EverybodyStep
<1> QED
  BY <1>1, <1>2, AllOfItKept, PTL DEF Spec

(* GuestInvited: once every row is done the guest has been told of the      *)
(* booking, and of each move that was written quietly, by its mail or, where *)
(* that ended unsent, by the provider in its place.                        *)
THEOREM GuestIsInvited == ASSUME CalendarBounds PROVE Spec => []GuestInvited
<1>1. AllOfIt /\ Everybody => GuestInvited
  <2> SUFFICES ASSUME AllOfIt, Everybody, AtRest, booking.status = "accepted", AllDone, torn = "nothing",
                      NEW i \in DOMAIN line, ~ line[i].late,
                      line[i].action = "create" \/ (line[i].action = "reschedule" /\ line[i].muted)
               PROVE  HeardOn(0) \/ HeardOn(line[i].mail)
    BY DEF GuestInvited, HeardOn
  <2>1. /\ line \in Seq(Row) /\ Live /\ line # <<>> /\ i \in Rows /\ line[i] \in Row
        /\ \A j \in Rows : line[j].status = "done"
    BY LineDomain DEF AllOfIt, Base, TypeOK, AtRest, AllDone, Live, Whole, Rows
  <2>2. 1 \in Rows /\ FirstDone
    <3>1. Rows = 1 .. Len(line) /\ Len(line) \in Nat /\ Len(line) # 0
      BY <2>1, LineDomain
    <3> QED
      BY <2>1, <3>1 DEF FirstDone
  <2>3. CASE ~ line[i].muted
    <3>1. i = 1
      BY <2>1, <2>3 DEF AllOfIt, Base, FirstCreates
    <3>2. ref[Organizer] = "filled"
      BY <2>1, <2>2, OrganizerIn DEF AllOfIt, Listed, FilledSince, AllFilled, Live, MayStand
    <3> QED
      BY <2>1, <2>2, <2>3, <3>1, <3>2 DEF Everybody, FirstOpened, FirstTold, OnOrganizers
  <2>4. CASE line[i].muted
    <3>1. line[i].mail > 0 /\ line[i].mail \in Changes
      <4>1. line[i].mail > 0
        BY <2>1, <2>4 DEF Everybody, Quiet, QuietRows
      <4>2. line[i].mail \in 0 .. MaxChanges
        BY <2>1 DEF Row
      <4> QED
        BY <4>1, <4>2 DEF Changes, CalendarBounds
    <3>2. PICK c \in Changes : c = line[i].mail
      BY <3>1
    <3>3. mail[c].status \in {"done", "ended"}
      <4>1. mail[c].status \in {"none", "queued", "done", "ended", "gone"}
        BY DEF AllOfIt, Base, TypeOK, Mail
      <4>2. mail[c].status # "none"
        BY <2>1, <3>1, <3>2 DEF AllOfIt, Hearing, MarksMailed
      <4>3. mail[c].status # "queued"
        BY DEF AtRest
      <4>4. mail[c].status # "gone"
        BY DEF Everybody, Sent, DroppedWhenOff, Cancelled
      <4> QED
        BY <4>1, <4>2, <4>3, <4>4
    <3>4. CASE mail[c].status = "done"
      BY <3>2, <3>4 DEF Everybody, Sent, MailsHeard
    <3>5. CASE mail[c].status = "ended"
      <4>1. i \in MarkedBy(c)
        BY <3>2 DEF MarkedBy
      <4>2. ReinviteFor(c) # {}
        BY <2>4, <3>5, <4>1 DEF Everybody, MadeUp, RelyOn
      <4>3. PICK j \in Rows : line[j].mail = c /\ line[j].action = "reinvite"
        BY <4>2 DEF ReinviteFor, Rows
      <4> QED
        BY <2>1, <2>2, <2>4, <3>2, <4>1, <4>3 DEF Everybody, RedoneHeard
    <3> QED
      BY <3>3, <3>4, <3>5
  <2> QED
    BY <2>3, <2>4
<1> QED
  BY <1>1, AllOfItKept, EverybodyKept, PTL
=============================================================================
