----------------------------- MODULE OutboxProofs ------------------------------
(***************************************************************************)
(* Proofs about Outbox, for any rows, lines, subscribers, processes, slots   *)
(* and times.  What a process reads before it leases is stale when it does: *)
(* the invariant says what of it still holds (Claims), and what a delivery *)
(* under way can rely on (Deliv).                                          *)
(***************************************************************************)
EXTENDS Outbox, FiniteSetTheorems, TLAPS

RowT == [status : {"unqueued", "pending", "gone"} \cup Ended, attempts : Nat, due : Int,
         age : Age, token : Slots \cup {None}, left : Nat]
ClaimT == [pc : {"idle", "heads", "lease"}, free : Nat,
           busy : SUBSET {Subscriber[r] : r \in Rows}, heads : SUBSET Rows]
SlotT == [row : Rows \cup {None}, pc : {"idle", "run", "follow", "record"}, out : Outcomes,
          wait : Int, attempts : Nat, age : Age]

Over(r) == row[r].status \in Ended \cup {"gone"}
Busy(s) == slot[s].pc # "idle"

Typed ==
    /\ row \in [Rows -> RowT] /\ claim \in [Processes -> ClaimT] /\ slot \in [Slots -> SlotT]
    /\ \A s \in Slots : IF Busy(s) THEN slot[s].row \in Rows ELSE slot[s].row = None

(* A delivery under way holds a live lease, unless it outlived it or its row *)
(* is over; and a row over it may still write to was taken back under it.   *)
Deliv(s) ==
    \A r \in Rows : Busy(s) /\ slot[s].row = r =>
        /\ row[r].status # "unqueued"
        /\ Over(r) \/ r \in lapsed \/ (row[r].token = s /\ row[r].left > 0)
        /\ Over(r) /\ Subscriber[r] # None => r \in lapsed
        /\ Over(r) /\ row[r].token = s => r \in Recallable \cap lapsed

(* A delivery whose outcome is due to be written has done what that asks.    *)
Mailed(s) ==
    /\ slot[s].pc = "follow" => slot[s].out \notin {"kept", "none"}
    /\ slot[s].pc = "record" =>
        /\ slot[s].out \in {"failed", "skipped"} /\ slot[s].row \in Mail => slot[s].row \in followed
        /\ slot[s].out = "kept" => slot[s].row \in kept
        /\ slot[s].out # "none"

(* Older rows of a row's line that were due at once are over.              *)
Behind(r) ==
    \A q \in Rows : q < r /\ Line[q] = Line[r] /\ After[q] = 0 /\ q \notin kept => Over(q)

(* A claim under way has the slots it counted, knows its process's           *)
(* subscribers in flight, and may only begin what is next in its line.      *)
Claims(p) ==
    claim[p].pc # "idle" =>
        /\ claim[p].free <= Cardinality(FreeSlots(p))
        /\ \A s \in Slots :
              Busy(s) /\ ProcessOf[s] = p /\ slot[s].row \notin lapsed
                  /\ Subscriber[slot[s].row] # None
                => Subscriber[slot[s].row] \in claim[p].busy
        /\ claim[p].pc = "lease" =>
              /\ Cardinality(claim[p].heads) <= claim[p].free
              /\ OnePerSubscriberIn(claim[p].heads)
              /\ \A r \in claim[p].heads : Subscriber[r] \notin claim[p].busy /\ Behind(r)

(* A row due at once, and not kept for its follow-up, holds its line.        *)
Soon(q) ==
    row[q].status = "pending" /\ After[q] = 0 /\ q \notin kept =>
        row[q].due <= MaxBackoff /\ (row[q].attempts > 0 \/ row[q].due = 0)

Queued == \A q, r \in Rows : q < r /\ row[r].status # "unqueued" => row[q].status # "unqueued"

IInv ==
    /\ Typed /\ Queued
    /\ InOrder /\ OneDelivery /\ OnePerSubscriber /\ FollowUpQueued
    /\ \A s \in Slots : Deliv(s) /\ Mailed(s)
    /\ \A p \in Processes : Claims(p)
    /\ \A q \in Rows : Soon(q)

-----------------------------------------------------------------------------
LEMMA Numbers == Rows \subseteq Nat /\ MaxBackoff \in Nat /\ LeaseTime \in Nat /\ LeaseTime > 0
                 /\ Horizon \in Nat /\ None \notin Slots /\ None \notin Rows /\ None \notin Nat
                 /\ KeepDelay \in Nat /\ Floors \subseteq Nat /\ After \in [Rows -> Nat]
                 /\ Recallable \subseteq Rows /\ Droppable \subseteq Rows /\ Mail \subseteq Rows
  BY RowsAssumption, SlotsAssumption, TimesAssumption

LEMMA NewRowType == NewRow \in RowT /\ NewRow.status = "unqueued" /\ NewRow.token = None
                    /\ NewRow.attempts = 0 /\ NewRow.due = 0
  BY DEF NewRow, RowT, Age

LEMMA NoSlotType == NoSlot \in SlotT /\ NoSlot.pc = "idle" /\ NoSlot.row = None
  BY DEF NoSlot, SlotT, Age, Outcomes

LEMMA NoClaimType == NoClaim \in ClaimT /\ NoClaim.pc = "idle"
  BY DEF NoClaim, ClaimT

(* The slots of a process are finitely many, and those free never fewer when *)
(* none is taken.                                                          *)
LEMMA FreeSlotsGrow ==
  ASSUME NEW p \in Processes, \A s \in Slots : Busy(s)' => Busy(s)
  PROVE  /\ Cardinality(FreeSlots(p)) \in Nat /\ Cardinality(FreeSlots(p))' \in Nat
         /\ Cardinality(FreeSlots(p)) <= Cardinality(FreeSlots(p))'
<1>1. IsFiniteSet(Slots)
  BY SlotsAssumption
<1>2. FreeSlots(p)' \subseteq Slots /\ FreeSlots(p) \subseteq FreeSlots(p)'
  BY DEF FreeSlots, Busy
<1>3. IsFiniteSet(FreeSlots(p)')
  BY <1>1, <1>2, FS_Subset
<1>4. IsFiniteSet(FreeSlots(p)) /\ Cardinality(FreeSlots(p)) <= Cardinality(FreeSlots(p)')
  BY <1>2, <1>3, FS_Subset
<1> QED BY <1>3, <1>4, FS_CardinalityType

LEMMA InitIInv == Init => IInv
<1> SUFFICES ASSUME Init PROVE IInv
  OBVIOUS
<1>1. /\ row = [r \in Rows |-> NewRow] /\ claim = [p \in Processes |-> NoClaim]
      /\ slot = [s \in Slots |-> NoSlot] /\ begun = {}
  BY DEF Init
<1>2. Typed
  BY <1>1, NewRowType, NoSlotType, NoClaimType DEF Typed, Busy
<1>3. \A s \in Slots : ~ Busy(s) /\ slot[s].pc = "idle"
  BY <1>1, NoSlotType DEF Busy
<1>4. \A p \in Processes : claim[p].pc = "idle"
  BY <1>1, NoClaimType
<1>5. \A r \in Rows : row[r].status = "unqueued"
  BY <1>1, NewRowType
<1>6. Queued /\ InOrder /\ FollowUpQueued /\ \A q \in Rows : Soon(q)
  <2>1. FollowUpQueued
    BY <1>5, RowsAssumption DEF FollowUpQueued
  <2> QED BY <1>1, <1>5, <2>1 DEF Queued, InOrder, Soon
<1>7. OneDelivery /\ OnePerSubscriber /\ \A s \in Slots : Deliv(s) /\ Mailed(s)
  BY <1>3 DEF OneDelivery, OnePerSubscriber, Deliv, Mailed
<1> QED BY <1>2, <1>4, <1>6, <1>7 DEF IInv, Claims

-----------------------------------------------------------------------------
(* What every step but a lease keeps: no slot takes a row, what is over      *)
(* stays over, and a delivery that outlived its lease stays known for it.    *)
NoNews ==
    /\ \A s \in Slots : Busy(s)' => Busy(s) /\ slot'[s].row = slot[s].row
    /\ \A q \in Rows : Over(q) => Over(q)'
    /\ lapsed \subseteq lapsed' /\ kept \subseteq kept'

LEMMA NoNewsOnce == ASSUME IInv, NoNews, Typed' PROVE OneDelivery'
<1> SUFFICES ASSUME NEW s \in Slots, NEW t \in Slots, s # t, Busy(s)',
                    slot'[s].row = slot'[t].row
             PROVE  slot'[s].row \in lapsed'
  BY DEF OneDelivery, Busy
<1>1. Busy(s) /\ slot'[s].row = slot[s].row /\ slot'[s].row \in Rows
  BY DEF NoNews, Typed
<1>2. Busy(t)'
  BY <1>1, Numbers DEF Typed
<1>3. slot'[t].row = slot[t].row
  BY <1>2 DEF NoNews
<1> QED BY <1>1, <1>3 DEF IInv, NoNews, OneDelivery, Busy

LEMMA NoNewsPerSubscriber == ASSUME IInv, NoNews PROVE OnePerSubscriber'
<1> SUFFICES ASSUME NEW s \in Slots, NEW t \in Slots, s # t, ProcessOf[s] = ProcessOf[t],
                    Busy(s)', Busy(t)', Subscriber[slot'[s].row] # None,
                    Subscriber[slot'[s].row] = Subscriber[slot'[t].row]
             PROVE  lapsed' \cap {slot'[s].row, slot'[t].row} # {}
  BY DEF OnePerSubscriber, Busy
<1>1. Busy(s) /\ Busy(t) /\ slot'[s].row = slot[s].row /\ slot'[t].row = slot[t].row
  BY DEF NoNews
<1>2. lapsed \cap {slot[s].row, slot[t].row} # {}
  BY <1>1 DEF IInv, OnePerSubscriber, Busy
<1> QED BY <1>1, <1>2 DEF NoNews

LEMMA NoNewsBehind == ASSUME NoNews, NEW r \in Rows, Behind(r) PROVE Behind(r)'
  BY DEF NoNews, Behind

LEMMA NoNewsClaims ==
  ASSUME IInv, NoNews, NEW p \in Processes, claim'[p] = claim[p]
  PROVE  Claims(p)'
<1> SUFFICES ASSUME claim'[p].pc # "idle" PROVE Claims(p)'
  BY DEF Claims
<1>1. Claims(p) /\ claim[p].pc # "idle" /\ claim[p] \in ClaimT
  BY DEF IInv, Typed
<1>2. claim'[p].free <= Cardinality(FreeSlots(p))'
  BY <1>1, FreeSlotsGrow DEF Claims, NoNews, ClaimT
<1>3. ASSUME NEW s \in Slots, Busy(s)', ProcessOf[s] = p, slot'[s].row \notin lapsed',
             Subscriber[slot'[s].row] # None
      PROVE  Subscriber[slot'[s].row] \in claim'[p].busy
  BY <1>1, <1>3 DEF NoNews, Claims
<1>4. claim[p].heads \subseteq Rows
  BY <1>1 DEF ClaimT
<1>5. ASSUME claim'[p].pc = "lease"
      PROVE  /\ Cardinality(claim'[p].heads) <= claim'[p].free
             /\ OnePerSubscriberIn(claim[p].heads)
             /\ \A r \in claim'[p].heads : Subscriber[r] \notin claim'[p].busy /\ Behind(r)'
  BY <1>1, <1>4, <1>5, NoNewsBehind DEF Claims
<1>6. OnePerSubscriberIn(claim[p].heads) => OnePerSubscriberIn(claim[p].heads)'
  BY DEF OnePerSubscriberIn
<1> QED BY <1>2, <1>3, <1>5, <1>6 DEF Claims

LEMMA NoNewsInOrder == ASSUME IInv, NoNews, begun' = begun PROVE InOrder'
  BY DEF IInv, NoNews, InOrder, Over

(* A delivery whose row and lease did not change.                          *)
LEMMA NoNewsDeliv ==
  ASSUME IInv, NoNews, NEW s \in Slots,
         \A r \in Rows : slot[s].row = r /\ Busy(s) => row'[r] = row[r] 
  PROVE  Deliv(s)'
<1> SUFFICES ASSUME NEW r \in Rows, Busy(s)', slot'[s].row = r
             PROVE  /\ row'[r].status # "unqueued"
                    /\ Over(r)' \/ r \in lapsed' \/ (row'[r].token = s /\ row'[r].left > 0)
                    /\ Over(r)' /\ Subscriber[r] # None => r \in lapsed'
                    /\ Over(r)' /\ row'[r].token = s => r \in Recallable \cap lapsed'
  BY DEF Deliv
<1>1. Busy(s) /\ slot[s].row = r /\ row'[r] = row[r] /\ Deliv(s)
  BY DEF NoNews, IInv
<1> QED BY <1>1 DEF Deliv, NoNews, Over

(* A step that changes no row, and takes no slot.                          *)
LEMMA SameRows ==
  ASSUME IInv, Typed', row' = row, begun' = begun, lapsed' = lapsed,
         kept \subseteq kept', followed \subseteq followed',
         \A s \in Slots : Busy(s)' => Busy(s) /\ slot'[s].row = slot[s].row,
         \A s \in Slots : Mailed(s)',
         \A p \in Processes : claim'[p] = claim[p] \/ claim'[p].pc = "idle"
  PROVE  IInv'
<1>1. NoNews
  BY DEF NoNews, Over
<1>2. OneDelivery' /\ OnePerSubscriber' /\ InOrder'
  BY <1>1, NoNewsOnce, NoNewsPerSubscriber, NoNewsInOrder
<1>3. \A s \in Slots : Deliv(s)'
  BY <1>1, NoNewsDeliv
<1>4. \A p \in Processes : Claims(p)'
  <2> SUFFICES ASSUME NEW p \in Processes PROVE Claims(p)'
    OBVIOUS
  <2>1. CASE claim'[p] = claim[p]
    BY <1>1, <2>1, NoNewsClaims
  <2>2. CASE claim'[p].pc = "idle"
    BY <2>2 DEF Claims
  <2> QED BY <2>1, <2>2
<1>5. Queued' /\ FollowUpQueued'
  BY DEF IInv, Queued, FollowUpQueued
<1>6. \A q \in Rows : Soon(q)'
  BY DEF IInv, Soon
<1> QED BY <1>2, <1>3, <1>4, <1>5, <1>6 DEF IInv

(* A row changes, none of them in the hands of a slot that keeps it.  What   *)
(* must be shown of it is what it is now.                                  *)
LEMMA OneRow ==
  ASSUME IInv, Typed', NEW r \in Rows, \A q \in Rows : q # r => row'[q] = row[q],
         claim' = claim, begun' = begun, lapsed' = lapsed, kept' = kept, followed' = followed,
         \A s \in Slots : slot'[s] = slot[s] \/ ~ Busy(s)',
         row'[r].status # "unqueued",
         \A q \in Rows : q < r => row[q].status # "unqueued",
         Over(r) => Over(r)',
         r \in Mail /\ row'[r].status \in {"failed", "skipped"} => r \in followed,
         Soon(r)',
         \A s \in Slots : Busy(s)' /\ slot'[s].row = r => Deliv(s)'
  PROVE  IInv'
<1>1. \A s \in Slots : Busy(s)' => Busy(s) /\ slot'[s] = slot[s]
  BY DEF Busy
<1>2. \A q \in Rows : Over(q) => Over(q)'
  BY DEF Over
<1>3. NoNews
  BY <1>1, <1>2 DEF NoNews
<1>4. OneDelivery' /\ OnePerSubscriber' /\ InOrder'
  BY <1>3, NoNewsOnce, NoNewsPerSubscriber, NoNewsInOrder
<1>5. ASSUME NEW s \in Slots PROVE Deliv(s)'
  <2>1. CASE Busy(s)' /\ slot'[s].row = r
    BY <2>1
  <2>2. CASE Busy(s)' /\ slot'[s].row # r
    BY <1>1, <1>3, <2>2, NoNewsDeliv
  <2>3. CASE ~ Busy(s)'
    BY <2>3 DEF Deliv
  <2> QED BY <2>1, <2>2, <2>3
<1>6. ASSUME NEW s \in Slots PROVE Mailed(s)'
  BY <1>1 DEF IInv, Mailed, Busy
<1>7. \A p \in Processes : Claims(p)'
  BY <1>3, NoNewsClaims
<1>8. Queued'
  BY DEF IInv, Queued
<1>9. FollowUpQueued'
  BY Numbers DEF IInv, FollowUpQueued
<1>10. \A q \in Rows : Soon(q)'
  BY DEF IInv, Soon
<1> QED BY <1>4, <1>5, <1>6, <1>7, <1>8, <1>9, <1>10 DEF IInv

-----------------------------------------------------------------------------
(* The steps of the rows by themselves.                                    *)
LEMMA EnqueueIInv == ASSUME IInv, NEW r \in Rows, Enqueue(r) PROVE IInv'
<1> DEFINE x == [NewRow EXCEPT !.status = "pending", !.due = After[r]]
<1>1. /\ row[r].status = "unqueued" /\ row' = [row EXCEPT ![r] = x]
      /\ claim' = claim /\ slot' = slot /\ begun' = begun /\ lapsed' = lapsed
      /\ kept' = kept /\ followed' = followed
      /\ \A q \in Rows : q < r => row[q].status # "unqueued"
  BY DEF Enqueue
<1>2. x \in RowT /\ x.status = "pending" /\ x.due = After[r]
  <2>1. After[r] \in Int
    BY Numbers
  <2> QED BY <2>1, NewRowType DEF RowT
<1> HIDE DEF x
<1>3. /\ \A q \in Rows : q # r => row'[q] = row[q]
      /\ row'[r] = x
  BY <1>1 DEF IInv, Typed
<1>4. Typed'
  BY <1>1, <1>2 DEF IInv, Typed, Busy
<1>5. ~ Over(r) /\ ~ Over(r)'
  BY <1>1, <1>2, <1>3 DEF Over, Ended
<1>6. Soon(r)'
  BY <1>2, <1>3, Numbers DEF Soon
<1>7. \A s \in Slots : ~ (Busy(s)' /\ slot'[s].row = r)
  BY <1>1 DEF IInv, Deliv, Busy
<1> QED BY <1>1, <1>2, <1>3, <1>4, <1>5, <1>6, <1>7, OneRow

(* Dropping takes the row away, whoever delivers it: no token is left.      *)
LEMMA DropIInv == ASSUME IInv, NEW r \in Rows, Drop(r) PROVE IInv'
<1> DEFINE x == [NewRow EXCEPT !.status = "gone"]
<1>1. /\ row[r].status = "pending" /\ row' = [row EXCEPT ![r] = x] /\ Subscriber[r] = None
      /\ claim' = claim /\ slot' = slot /\ begun' = begun /\ lapsed' = lapsed
      /\ kept' = kept /\ followed' = followed
  BY RowsAssumption DEF Drop
<1>2. x \in RowT /\ x.status = "gone" /\ x.token = None
  BY NewRowType DEF RowT
<1> HIDE DEF x
<1>3. (\A q \in Rows : q # r => row'[q] = row[q]) /\ row'[r] = x
  BY <1>1 DEF IInv, Typed
<1>4. Typed'
  BY <1>1, <1>2 DEF IInv, Typed, Busy
<1>5. Over(r)' /\ \A q \in Rows : q < r => row[q].status # "unqueued"
  BY <1>1, <1>2, <1>3 DEF Over, IInv, Queued
<1>6. Soon(r)'
  BY <1>2, <1>3 DEF Soon
<1>7. ASSUME NEW s \in Slots, Busy(s)', slot'[s].row = r PROVE Deliv(s)'
  BY <1>1, <1>2, <1>3, <1>5, <1>7, Numbers DEF Deliv
<1> QED BY <1>1, <1>2, <1>3, <1>4, <1>5, <1>6, <1>7, OneRow

(* A row taken back has no live lease: who delivers it has outlived one.     *)
LEMMA TakeBackIInv == ASSUME IInv, NEW r \in Rows, TakeBack(r) PROVE IInv'
<1> DEFINE x == [row[r] EXCEPT !.status = "skipped"]
<1>1. /\ row[r].status = "pending" /\ row[r].left = 0 /\ row' = [row EXCEPT ![r] = x]
      /\ Subscriber[r] = None /\ r \in Recallable /\ r \notin Mail
      /\ claim' = claim /\ slot' = slot /\ begun' = begun /\ lapsed' = lapsed
      /\ kept' = kept /\ followed' = followed
  BY RowsAssumption DEF TakeBack, NotInFlight
<1>2. x \in RowT /\ x.status = "skipped" /\ x.token = row[r].token
  BY DEF IInv, Typed, RowT, Ended
<1> HIDE DEF x
<1>3. (\A q \in Rows : q # r => row'[q] = row[q]) /\ row'[r] = x
  BY <1>1 DEF IInv, Typed
<1>4. Typed'
  BY <1>1, <1>2 DEF IInv, Typed, Busy
<1>5. Over(r)' /\ ~ Over(r) /\ \A q \in Rows : q < r => row[q].status # "unqueued"
  BY <1>1, <1>2, <1>3 DEF Over, Ended, IInv, Queued
<1>6. Soon(r)'
  BY <1>2, <1>3 DEF Soon
<1>7. ASSUME NEW s \in Slots, Busy(s)', slot'[s].row = r PROVE Deliv(s)'
  <2>1. Deliv(s) /\ Busy(s) /\ slot[s].row = r
    BY <1>1, <1>7 DEF IInv, Busy
  <2>2. r \in lapsed
    BY <1>1, <1>5, <2>1 DEF Deliv
  <2> QED BY <1>1, <1>2, <1>3, <1>5, <1>7, <2>2 DEF Deliv
<1> QED BY <1>1, <1>2, <1>3, <1>4, <1>5, <1>6, <1>7, OneRow

LEMMA RenewIInv == ASSUME IInv, NEW s \in Slots, Renew(s) PROVE IInv'
<1> DEFINE r == slot[s].row
<1>1. /\ Busy(s) /\ r \in Rows /\ row[r].status = "pending" /\ row[r].token = s
      /\ row' = [row EXCEPT ![r].left = LeaseTime]
      /\ claim' = claim /\ slot' = slot /\ begun' = begun /\ lapsed' = lapsed
      /\ kept' = kept /\ followed' = followed
  BY DEF Renew, Renewed, Busy, IInv, Typed
<1> DEFINE x == [row[r] EXCEPT !.left = LeaseTime]
<1>2. /\ x \in RowT /\ x.status = "pending" /\ x.token = s /\ x.left > 0
      /\ x.due = row[r].due /\ x.attempts = row[r].attempts
  BY <1>1, Numbers DEF IInv, Typed, RowT
<1>3. row' = [row EXCEPT ![r] = x]
  BY <1>1
<1> HIDE DEF x
<1>4. (\A q \in Rows : q # r => row'[q] = row[q]) /\ row'[r] = x
  BY <1>1, <1>3 DEF IInv, Typed
<1>5. Typed'
  BY <1>1, <1>2, <1>3 DEF IInv, Typed, Busy
<1>6. ~ Over(r) /\ ~ Over(r)' /\ \A q \in Rows : q < r => row[q].status # "unqueued"
  <2>1. ~ Over(r) /\ \A q \in Rows : q < r => row[q].status # "unqueued"
    BY <1>1 DEF Over, Ended, IInv, Queued
  <2>2. row'[slot[s].row].status = "pending" /\ slot' = slot
    BY <1>1, <1>2, <1>4
  <2> QED BY <2>1, <2>2 DEF Over, Ended
<1>7. Soon(r) /\ slot'[s].row = r
  BY <1>1 DEF IInv
<1>8. Soon(r)'
  BY <1>1, <1>2, <1>4, <1>7 DEF Soon
<1>9. ASSUME NEW t \in Slots, Busy(t)', slot'[t].row = r PROVE Deliv(t)'
  <2>1. Deliv(t) /\ Busy(t) /\ slot[t].row = r
    BY <1>1, <1>9 DEF IInv, Busy
  <2>2. t = s \/ r \in lapsed
    BY <1>1, <1>6, <2>1 DEF Deliv
  <2>3. row'[slot[s].row] = x /\ ~ Over(slot[s].row)'
    BY <1>1, <1>4, <1>6
  <2> QED BY <1>1, <1>2, <1>9, <2>2, <2>3 DEF Deliv
<1> QED BY <1>1, <1>2, <1>4, <1>5, <1>6, <1>8, <1>9, OneRow

-----------------------------------------------------------------------------
(* The steps of a claim, but for the lease.                                *)
LEMMA StartClaimIInv == ASSUME IInv, NEW p \in Processes, StartClaim(p) PROVE IInv'
<1> DEFINE k == [pc |-> "heads", free |-> Cardinality(FreeSlots(p)), busy |-> InFlight, heads |-> {}]
<1>1. /\ claim' = [claim EXCEPT ![p] = k]
      /\ row' = row /\ slot' = slot /\ begun' = begun /\ lapsed' = lapsed
      /\ kept' = kept /\ followed' = followed
  BY DEF StartClaim
<1>2. \A s \in Slots : (Busy(s) <=> Busy(s)') /\ slot'[s] = slot[s]
  BY <1>1 DEF Busy
<1>3. Cardinality(FreeSlots(p)) \in Nat /\ FreeSlots(p)' = FreeSlots(p)
  <2>1. FreeSlots(p)' = FreeSlots(p)
    BY <1>1 DEF FreeSlots
  <2> QED BY <1>2, <2>1, FreeSlotsGrow
<1>4. InFlight \in SUBSET {Subscriber[r] : r \in Rows}
  BY DEF InFlight
<1>5. k \in ClaimT /\ k.pc = "heads" /\ k.free = Cardinality(FreeSlots(p)) /\ k.busy = InFlight
  BY <1>3, <1>4 DEF ClaimT
<1>6. Typed'
  BY <1>1, <1>5 DEF IInv, Typed, Busy
<1>7. NoNews
  BY <1>1, <1>2 DEF NoNews, Over
<1>8. claim'[p] = k /\ \A q \in Processes : q # p => claim'[q] = claim[q]
  BY <1>1 DEF IInv, Typed
<1> HIDE DEF k
<1>9. ASSUME NEW s \in Slots, Busy(s), slot[s].row \notin lapsed, Subscriber[slot[s].row] # None
      PROVE  Subscriber[slot[s].row] \in InFlight
  <2>1. slot[s].row \in Rows /\ Deliv(s)
    BY <1>9 DEF IInv, Typed
  <2>2. /\ row[slot[s].row].status # "unqueued" /\ ~ Over(slot[s].row)
        /\ row[slot[s].row].left > 0 /\ row[slot[s].row] \in RowT
    BY <1>9, <2>1 DEF Deliv, IInv, Typed
  <2>3. row[slot[s].row].status = "pending"
    BY <2>2 DEF RowT, Over
  <2> QED BY <1>9, <2>1, <2>2, <2>3 DEF InFlight
<1>10. Claims(p)'
  <2>1. claim'[p].free <= Cardinality(FreeSlots(p))'
    BY <1>3, <1>5, <1>8
  <2>2. \A s \in Slots : Busy(s)' /\ slot'[s].row \notin lapsed' /\ Subscriber[slot'[s].row] # None
                           => Subscriber[slot'[s].row] \in claim'[p].busy
    BY <1>1, <1>2, <1>5, <1>8, <1>9
  <2>3. claim'[p].pc # "lease"
    BY <1>5, <1>8
  <2> QED BY <2>1, <2>2, <2>3 DEF Claims
<1>11. \A q \in Processes : Claims(q)'
  BY <1>7, <1>8, <1>10, NoNewsClaims
<1>12. OneDelivery' /\ OnePerSubscriber' /\ InOrder' /\ \A s \in Slots : Deliv(s)' /\ Mailed(s)'
  <2>1. \A s \in Slots : Deliv(s)'
    BY <1>1, <1>7, NoNewsDeliv
  <2>2. \A s \in Slots : Mailed(s)'
    BY <1>1 DEF IInv, Mailed
  <2> QED BY <1>1, <1>6, <1>7, <2>1, <2>2, NoNewsOnce, NoNewsPerSubscriber, NoNewsInOrder
<1>13. Queued' /\ FollowUpQueued' /\ \A q \in Rows : Soon(q)'
  <2>1. Queued' /\ FollowUpQueued'
    BY <1>1 DEF IInv, Queued, FollowUpQueued
  <2>2. \A q \in Rows : Soon(q)'
    BY <1>1 DEF IInv, Soon
  <2> QED BY <2>1, <2>2
<1> QED BY <1>6, <1>11, <1>12, <1>13 DEF IInv

(* The head of a line has nothing but ended rows before it, of those that    *)
(* were due at once.                                                       *)
LEMMA HeadIsBehind == ASSUME IInv, NEW r \in Rows, Head(r) PROVE Behind(r)
<1> SUFFICES ASSUME NEW q \in Rows, q < r, Line[q] = Line[r], After[q] = 0, q \notin kept
             PROVE  Over(q)
  BY DEF Behind
<1>1. ~ Active(q) /\ row[r].status = "pending"
  BY DEF Head, Active
<1>2. row[q].status # "unqueued" /\ Soon(q) /\ row[q] \in RowT
  BY <1>1 DEF IInv, Queued, Typed
<1>3. row[q].status # "pending"
  BY <1>1, <1>2 DEF Soon, Active
<1> QED BY <1>2, <1>3 DEF Over, RowT

LEMMA ReadHeadsIInv == ASSUME IInv, NEW p \in Processes, ReadHeads(p) PROVE IInv'
<1>1. PICK H \in Picks(claim[p].busy, claim[p].free) :
         claim' = [claim EXCEPT ![p] = IF H = {} THEN NoClaim
                                       ELSE [@ EXCEPT !.pc = "lease", !.heads = H]]
  BY DEF ReadHeads
<1>2. /\ claim[p].pc = "heads"
      /\ row' = row /\ slot' = slot /\ begun' = begun /\ lapsed' = lapsed
      /\ kept' = kept /\ followed' = followed
  BY DEF ReadHeads
<1>3. \A s \in Slots : (Busy(s) <=> Busy(s)') /\ slot'[s] = slot[s]
  BY <1>2 DEF Busy
<1>4. /\ H \subseteq Ready(claim[p].busy) /\ H \subseteq Rows
      /\ OnePerSubscriberIn(H) /\ Cardinality(H) <= claim[p].free
  BY DEF Picks, Ready
<1> DEFINE k == IF H = {} THEN NoClaim ELSE [claim[p] EXCEPT !.pc = "lease", !.heads = H]
<1>5. claim' = [claim EXCEPT ![p] = k]
  BY <1>1
<1>6. claim[p] \in ClaimT /\ Claims(p)
  BY DEF IInv, Typed
<1>7. /\ k \in ClaimT
      /\ k.pc = "idle" \/ (k.pc = "lease" /\ k.heads = H /\ k.free = claim[p].free /\ k.busy = claim[p].busy)
  BY <1>4, <1>6, NoClaimType DEF ClaimT
<1> HIDE DEF k
<1>8. claim'[p] = k /\ \A q \in Processes : q # p => claim'[q] = claim[q]
  BY <1>5 DEF IInv, Typed
<1>9. Typed'
  BY <1>2, <1>5, <1>7 DEF IInv, Typed, Busy
<1>10. NoNews
  BY <1>2, <1>3 DEF NoNews, Over
<1>11. Claims(p)'
  <2> SUFFICES ASSUME k.pc = "lease" PROVE Claims(p)'
    BY <1>7, <1>8 DEF Claims
  <2>1. FreeSlots(p)' = FreeSlots(p)
    BY <1>2 DEF FreeSlots
  <2>2. claim'[p].free <= Cardinality(FreeSlots(p))'
    BY <1>2, <1>6, <1>7, <1>8, <2>1 DEF Claims
  <2>3. \A s \in Slots : Busy(s)' /\ ProcessOf[s] = p /\ slot'[s].row \notin lapsed' /\ Subscriber[slot'[s].row] # None
                           => Subscriber[slot'[s].row] \in claim'[p].busy
    BY <1>2, <1>3, <1>6, <1>7, <1>8 DEF Claims
  <2>4. \A r \in H : Subscriber[r] \notin claim[p].busy /\ Behind(r)'
    BY <1>4, <1>10, HeadIsBehind, NoNewsBehind DEF Ready
  <2>5. claim'[p].heads = H /\ claim'[p].free = claim[p].free /\ claim'[p].busy = claim[p].busy
    BY <1>7, <1>8
  <2>6. OnePerSubscriberIn(claim'[p].heads)
    BY <1>4, <2>5
  <2>7. OnePerSubscriberIn(claim[p].heads)'
    BY <2>6 DEF OnePerSubscriberIn
  <2> QED BY <1>4, <2>2, <2>3, <2>4, <2>5, <2>7 DEF Claims
<1>12. \A q \in Processes : Claims(q)'
  BY <1>8, <1>10, <1>11, NoNewsClaims
<1>13. OneDelivery' /\ OnePerSubscriber' /\ InOrder' /\ \A s \in Slots : Deliv(s)' /\ Mailed(s)'
  <2>1. \A s \in Slots : Deliv(s)'
    BY <1>2, <1>10, NoNewsDeliv
  <2>2. \A s \in Slots : Mailed(s)'
    BY <1>2 DEF IInv, Mailed
  <2> QED BY <1>2, <1>9, <1>10, <2>1, <2>2, NoNewsOnce, NoNewsPerSubscriber, NoNewsInOrder
<1>14. Queued' /\ FollowUpQueued' /\ \A q \in Rows : Soon(q)'
  <2>1. Queued' /\ FollowUpQueued'
    BY <1>2 DEF IInv, Queued, FollowUpQueued
  <2>2. \A q \in Rows : Soon(q)'
    BY <1>2 DEF IInv, Soon
  <2> QED BY <2>1, <2>2
<1> QED BY <1>9, <1>12, <1>13, <1>14 DEF IInv

LEMMA CrashIInv == ASSUME IInv, NEW p \in Processes, Crash(p) PROVE IInv'
<1>1. /\ claim' = [claim EXCEPT ![p] = NoClaim]
      /\ slot' = [s \in Slots |-> IF ProcessOf[s] = p THEN NoSlot ELSE slot[s]]
      /\ row' = row /\ begun' = begun /\ lapsed' = lapsed /\ kept' = kept /\ followed' = followed
  BY DEF Crash
<1>2. \A s \in Slots : slot'[s] = slot[s] \/ slot'[s] = NoSlot
  BY <1>1
<1>3. Typed'
  BY <1>1, <1>2, NoSlotType, NoClaimType DEF IInv, Typed, Busy
<1>4. \A s \in Slots : Busy(s)' => Busy(s) /\ slot'[s].row = slot[s].row
  BY <1>2, NoSlotType DEF Busy
<1>5. \A s \in Slots : Mailed(s)'
  BY <1>1, <1>2, NoSlotType DEF IInv, Mailed
<1>6. \A q \in Processes : claim'[q] = claim[q] \/ claim'[q].pc = "idle"
  BY <1>1, NoClaimType DEF IInv, Typed
<1> QED BY <1>1, <1>3, <1>4, <1>5, <1>6, SameRows

-----------------------------------------------------------------------------
(* The steps of a delivery.                                                *)
LEMMA Waits ==
  /\ \A a, b \in Int : Lesser(a, b) \in Int /\ Lesser(a, b) <= b /\ Greater(a, b) \in Int
  /\ \A n \in Nat, floor \in Floors : RetryDelay(n, floor) \in Int
<1>1. \A a, b \in Int : Lesser(a, b) \in Int /\ Lesser(a, b) <= b /\ Greater(a, b) \in Int
  BY DEF Lesser, Greater
<1>2. ASSUME NEW n \in Nat, NEW floor \in Floors PROVE RetryDelay(n, floor) \in Int
  <2>1. 2 ^ (n - 1) \in Int
    OBVIOUS
  <2>2. Backoff(n) \in Int
    BY <1>1, <2>1, Numbers DEF Backoff
  <2>3. Lesser(floor, MaxBackoff) \in Int
    BY <1>1, Numbers
  <2> QED BY <1>1, <2>2, <2>3 DEF RetryDelay
<1> QED BY <1>1, <1>2

(* A delivery that ends: what it does next depends on how.                   *)
LEMMA EndsIs ==
  ASSUME IInv, NEW s \in Slots, Busy(s), NEW out \in Outcomes, NEW wait \in Int, Ends(s, out, wait)
  PROVE  \E q \in SlotT :
            /\ slot' = [slot EXCEPT ![s] = q]
            /\ q.row = slot[s].row /\ q.pc \in {"follow", "record"} /\ q.out = out
            /\ q.wait = wait /\ q.attempts = slot[s].attempts
            /\ q.pc = "record" /\ out \in {"failed", "skipped"} => q.row \notin Mail
<1> DEFINE pc == Point(slot[s].row, out)
<1> DEFINE q == [[[slot[s] EXCEPT !.pc = pc] EXCEPT !.out = out] EXCEPT !.wait = wait]
<1>1. slot[s] \in SlotT /\ DOMAIN slot = Slots
  BY DEF IInv, Typed
<1>2. pc \in {"follow", "record"}
  BY DEF Point
<1>3. /\ q \in SlotT /\ q.row = slot[s].row /\ q.pc = pc /\ q.out = out /\ q.wait = wait
      /\ q.attempts = slot[s].attempts
  BY <1>1, <1>2 DEF SlotT
<1>4. slot' = [[[slot EXCEPT ![s].pc = pc] EXCEPT ![s].out = out] EXCEPT ![s].wait = wait]
  BY DEF Ends
<1>5. slot' = [slot EXCEPT ![s] = q]
  <2>1. [slot EXCEPT ![s].pc = pc][s] = [slot[s] EXCEPT !.pc = pc]
    BY <1>1
  <2>2. [[slot EXCEPT ![s].pc = pc] EXCEPT ![s].out = out][s] = [[slot[s] EXCEPT !.pc = pc] EXCEPT !.out = out]
    BY <1>1, <2>1
  <2> QED BY <1>1, <1>4, <2>1, <2>2
<1>6. pc = "record" /\ out \in {"failed", "skipped"} => slot[s].row \notin Mail
  BY DEF Point
<1> HIDE DEF q, pc
<1> QED BY <1>2, <1>3, <1>5, <1>6

(* A slot goes on with the row it has, or lets go of it, and no row changes. *)
LEMMA SlotMoves ==
  ASSUME IInv, NEW s \in Slots, Busy(s), NEW q \in SlotT, slot' = [slot EXCEPT ![s] = q],
         q.pc = "idle" => q.row = None,
         q.pc # "idle" => q.row = slot[s].row,
         q.pc = "follow" => q.out \notin {"kept", "none"},
         q.pc = "record" => /\ q.out \in {"failed", "skipped"} /\ q.row \in Mail => q.row \in followed'
                            /\ q.out = "kept" => q.row \in kept'
                            /\ q.out # "none",
         row' = row, claim' = claim, begun' = begun, lapsed' = lapsed,
         kept \subseteq kept', followed \subseteq followed'
  PROVE  IInv'
<1>1. \A t \in Slots : slot'[t] = IF t = s THEN q ELSE slot[t]
  BY DEF IInv, Typed
<1>2. Typed'
  BY <1>1 DEF IInv, Typed, Busy
<1>3. \A t \in Slots : Busy(t)' => Busy(t) /\ slot'[t].row = slot[t].row
  BY <1>1 DEF Busy
<1>4. \A t \in Slots : Mailed(t)'
  BY <1>1 DEF IInv, Mailed
<1> QED BY <1>2, <1>3, <1>4, SameRows

LEMMA EndsIInv ==
  ASSUME IInv, NEW s \in Slots, Busy(s), NEW out \in Outcomes \ {"kept", "none"}, NEW wait \in Int, Ends(s, out, wait),
         row' = row, claim' = claim, begun' = begun, lapsed' = lapsed,
         kept' = kept, followed' = followed
  PROVE  IInv'
<1>1. PICK q \in SlotT :
         /\ slot' = [slot EXCEPT ![s] = q]
         /\ q.row = slot[s].row /\ q.pc \in {"follow", "record"} /\ q.out = out
         /\ q.pc = "record" /\ out \in {"failed", "skipped"} => q.row \notin Mail
  BY EndsIs
<1> QED BY <1>1, SlotMoves

LEMMA FailedIInv ==
  ASSUME IInv, NEW s \in Slots, Busy(s), Failed(s),
         row' = row, claim' = claim, begun' = begun, lapsed' = lapsed,
         kept' = kept, followed' = followed
  PROVE  IInv'
<1>1. slot[s].attempts + 1 \in Nat
  BY DEF IInv, Typed, SlotT
<1>2. CASE Ends(s, "failed", 0)
  BY <1>2, EndsIInv DEF Outcomes
<1>3. ASSUME NEW floor \in Floors, Ends(s, "retry", RetryDelay(slot[s].attempts + 1, floor))
      PROVE  IInv'
  <2>1. RetryDelay(slot[s].attempts + 1, floor) \in Int /\ "retry" \in Outcomes \ {"kept", "none"}
    BY <1>1, Waits DEF Outcomes
  <2> QED BY <1>3, <2>1, EndsIInv
<1> QED BY <1>2, <1>3 DEF Failed

LEMMA DeliverIInv == ASSUME IInv, NEW s \in Slots, Deliver(s) PROVE IInv'
<1>1. /\ Busy(s) /\ row' = row /\ claim' = claim /\ begun' = begun /\ lapsed' = lapsed
      /\ kept' = kept /\ followed' = followed
  BY DEF Deliver, Busy
<1>2. CASE Ends(s, "done", 0)
  BY <1>1, <1>2, EndsIInv DEF Outcomes
<1>3. CASE Failed(s)
  BY <1>1, <1>3, FailedIInv
<1>4. CASE Ends(s, "skipped", 0)
  BY <1>1, <1>4, EndsIInv DEF Outcomes
<1> QED BY <1>2, <1>3, <1>4 DEF Deliver

LEMMA FollowUpIInv == ASSUME IInv, NEW s \in Slots, FollowUp(s) PROVE IInv'
<1>1. /\ Busy(s) /\ slot[s] \in SlotT /\ DOMAIN slot = Slots
      /\ row' = row /\ claim' = claim /\ begun' = begun /\ lapsed' = lapsed
  BY DEF FollowUp, Busy, IInv, Typed
<1>2. CASE /\ followed' = followed \cup {slot[s].row} /\ slot' = [slot EXCEPT ![s].pc = "record"]
           /\ kept' = kept /\ slot[s].out \notin {"kept", "none"}
  <2> DEFINE q == [slot[s] EXCEPT !.pc = "record"]
  <2>1. /\ q \in SlotT /\ q.row = slot[s].row /\ q.pc = "record" /\ q.out = slot[s].out
    BY <1>1 DEF SlotT
  <2>2. slot' = [slot EXCEPT ![s] = q]
    BY <1>2
  <2> HIDE DEF q
  <2> QED BY <1>1, <1>2, <2>1, <2>2, SlotMoves
<1>3. CASE /\ slot' = [slot EXCEPT ![s].pc = "record", ![s].out = "kept", ![s].wait = KeepDelay]
           /\ kept' = kept \cup {slot[s].row} /\ followed' = followed
  <2> DEFINE q == [[[slot[s] EXCEPT !.pc = "record"] EXCEPT !.out = "kept"] EXCEPT !.wait = KeepDelay]
  <2>1. KeepDelay \in Int /\ "kept" \in Outcomes
    BY Numbers DEF Outcomes
  <2>2. /\ q \in SlotT /\ q.row = slot[s].row /\ q.pc = "record" /\ q.out = "kept"
    BY <1>1, <2>1 DEF SlotT
  <2>3. slot' = [slot EXCEPT ![s] = q]
    <3>1. slot' = [[[slot EXCEPT ![s].pc = "record"] EXCEPT ![s].out = "kept"] EXCEPT ![s].wait = KeepDelay]
      BY <1>3
    <3>2. [slot EXCEPT ![s].pc = "record"][s] = [slot[s] EXCEPT !.pc = "record"]
      BY <1>1
    <3>3. [[slot EXCEPT ![s].pc = "record"] EXCEPT ![s].out = "kept"][s]
            = [[slot[s] EXCEPT !.pc = "record"] EXCEPT !.out = "kept"]
      BY <1>1, <3>2
    <3> QED BY <1>1, <3>1, <3>2, <3>3
  <2> HIDE DEF q
  <2> QED BY <1>1, <1>3, <2>2, <2>3, SlotMoves
<1>4. slot[s].out \notin {"kept", "none"}
  BY DEF FollowUp, IInv, Mailed
<1> QED BY <1>2, <1>3, <1>4 DEF FollowUp

(* What is written over a row in hand: it ends, or is due again.            *)
LEMMA MarkedIs ==
  ASSUME NEW x \in RowT, NEW q \in SlotT
  PROVE  /\ Marked(x, q) \in RowT /\ Marked(x, q).token = None
         /\ IF q.out \in Ended THEN Marked(x, q).status = q.out
            ELSE /\ Marked(x, q).status = x.status /\ Marked(x, q).due <= MaxBackoff
                 /\ q.out = "retry" => Marked(x, q).attempts > 0
<1>1. CASE q.out \in Ended
  <2>1. Marked(x, q) = [NewRow EXCEPT !.status = q.out]
    BY <1>1 DEF Marked
  <2> QED BY <1>1, <2>1, NewRowType DEF RowT
<1>2. CASE q.out \notin Ended
  <2> DEFINE a == IF q.out = "retry" THEN q.attempts + 1 ELSE q.attempts
  <2> DEFINE g == IF x.age = None THEN 0 ELSE x.age
  <2> DEFINE w == Lesser(q.wait, MaxBackoff)
  <2>1. Marked(x, q) = [status |-> x.status, due |-> w, token |-> None, left |-> 0,
                        attempts |-> a, age |-> g]
    BY <1>2 DEF Marked
  <2>2. w \in Int /\ w <= MaxBackoff
    <3>1. q.wait \in Int /\ MaxBackoff \in Int
      BY Numbers DEF SlotT
    <3> QED BY <3>1, Waits
  <2>3. a \in Nat /\ (q.out = "retry" => a > 0)
    BY DEF SlotT
  <2>4. g \in Age
    BY Numbers DEF RowT, Age
  <2> HIDE DEF a, g, w
  <2> QED BY <1>2, <2>1, <2>2, <2>3, <2>4 DEF RowT
<1> QED BY <1>1, <1>2

(* The outcome is written over a row in hand, or dropped with the row lost.  *)
LEMMA RecordIInv == ASSUME IInv, NEW s \in Slots, Record(s) PROVE IInv'
<1>1. PICK r \in Rows : r = slot[s].row
  BY DEF Record, IInv, Typed, Busy
<1>2. /\ slot[s].pc = "record" /\ Busy(s) /\ slot' = [slot EXCEPT ![s] = NoSlot]
      /\ row' = IF HeldBy(r, s) THEN [row EXCEPT ![r] = Marked(row[r], slot[s])] ELSE row
      /\ claim' = claim /\ begun' = begun /\ lapsed' = lapsed /\ kept' = kept /\ followed' = followed
  BY <1>1 DEF Record, Busy
<1>3. CASE ~ HeldBy(r, s)
  <2>1. row' = row
    BY <1>2, <1>3
  <2> QED BY <1>2, <2>1, NoSlotType, SlotMoves
<1>4. CASE HeldBy(r, s)
  <2>1. row[r] \in RowT /\ slot[s] \in SlotT /\ row[r].token = s /\ s # None
    BY <1>4, Numbers DEF HeldBy, IInv, Typed
  <2>2. PICK x \in RowT : x = Marked(row[r], slot[s])
    BY <2>1, MarkedIs
  <2>3. row' = [row EXCEPT ![r] = x] /\ row'[r] = x /\ \A q \in Rows : q # r => row'[q] = row[q]
    BY <1>2, <1>4, <2>2 DEF IInv, Typed
  <2>4. /\ x.token = None
        /\ IF slot[s].out \in Ended THEN x.status = slot[s].out
           ELSE /\ x.status = row[r].status /\ x.due <= MaxBackoff
                /\ slot[s].out = "retry" => x.attempts > 0
    BY <2>1, <2>2, MarkedIs
  <2>5. Typed'
    BY <1>2, <2>3, NoSlotType DEF IInv, Typed, Busy
  <2>6. \A t \in Slots : slot'[t] = slot[t] \/ ~ Busy(t)'
    BY <1>2, NoSlotType DEF Busy, IInv, Typed
  <2>7. row[r].status # "unqueued" /\ Deliv(s)
    BY <1>1, <1>2 DEF IInv, Deliv
  <2>8. x.status # "unqueued" /\ \A q \in Rows : q < r => row[q].status # "unqueued"
    BY <2>4, <2>7 DEF Ended, IInv, Queued
  <2>9. Over(r) => Over(r)'
    BY <2>3, <2>4 DEF Over
  <2>10. r \in Mail /\ x.status \in {"failed", "skipped"} => r \in followed
    <3>1. CASE slot[s].out \in Ended
      BY <1>1, <1>2, <2>4, <3>1 DEF IInv, Mailed
    <3>2. CASE slot[s].out \notin Ended
      BY <2>4, <3>2 DEF IInv, FollowUpQueued
    <3> QED BY <3>1, <3>2
  <2>11. Soon(r)'
    <3> SUFFICES ASSUME x.status = "pending", r \notin kept
                 PROVE  x.due <= MaxBackoff /\ (x.attempts > 0 \/ x.due = 0)
      BY <1>2, <2>3 DEF Soon
    <3>1. slot[s].out \notin Ended
      BY <2>4 DEF Ended
    <3>2. slot[s].out # "kept"
      BY <1>1, <1>2 DEF IInv, Mailed
    <3>3. slot[s].out # "none" /\ slot[s].out \in Outcomes
      BY <1>2, <2>1 DEF SlotT, IInv, Mailed
    <3>4. slot[s].out = "retry"
      BY <3>1, <3>2, <3>3 DEF Outcomes, Ended
    <3> QED BY <2>4, <3>1, <3>4
  <2>12. ASSUME NEW t \in Slots, Busy(t)', slot'[t].row = r PROVE Deliv(t)'
    <3>1. t # s /\ Busy(t) /\ slot[t].row = r
      BY <1>2, <2>6, <2>12, NoSlotType DEF Busy, IInv, Typed
    <3>2. r \in lapsed
      BY <1>1, <1>2, <3>1 DEF IInv, OneDelivery, Busy
    <3>3. t # None /\ row'[r].token = None /\ row'[r].status # "unqueued" /\ r \in lapsed'
      BY <1>2, <2>3, <2>4, <2>8, <3>2, Numbers
    <3> QED BY <2>12, <3>3 DEF Deliv
  <2> QED BY <1>2, <2>3, <2>5, <2>6, <2>8, <2>9, <2>10, <2>11, <2>12, OneRow
<1> QED BY <1>3, <1>4

LEMMA RecordFailsIInv == ASSUME IInv, NEW s \in Slots, RecordFails(s) PROVE IInv'
<1>1. /\ Busy(s) /\ row' = row /\ claim' = claim /\ begun' = begun /\ lapsed' = lapsed
      /\ kept' = kept /\ followed' = followed
  BY DEF RecordFails, Busy
<1>2. CASE Failed(s)
  BY <1>1, <1>2, FailedIInv
<1>3. CASE slot' = [slot EXCEPT ![s] = NoSlot]
  BY <1>1, <1>3, NoSlotType, SlotMoves
<1> QED BY <1>2, <1>3 DEF RecordFails

-----------------------------------------------------------------------------
(* A tick: who outlives its lease now is known for it.                     *)
LEMMA TickIInv == ASSUME IInv, Tick PROVE IInv'
<1>1. /\ \A p \in Processes : claim[p].pc = "idle"
      /\ row' = [r \in Rows |-> [row[r] EXCEPT !.due = Greater(@ - 1, 0),
                                               !.left = Greater(@ - 1, 0),
                                               !.age = Older(@)]]
      /\ slot' = [s \in Slots |-> [slot[s] EXCEPT !.age = Older(@)]]
      /\ lapsed' = lapsed \cup Outliving
      /\ claim' = claim /\ begun' = begun /\ kept' = kept /\ followed' = followed
  BY DEF Tick
<1>2. \A a \in Age : Older(a) \in Age
  BY Numbers DEF Age, Older, Lesser
<1>3. ASSUME NEW r \in Rows
      PROVE  /\ row'[r] \in RowT /\ row'[r].status = row[r].status /\ row'[r].token = row[r].token
             /\ row'[r].attempts = row[r].attempts
             /\ row'[r].due = Greater(row[r].due - 1, 0)
             /\ row'[r].left = Greater(row[r].left - 1, 0)
  <2>1. row[r] \in RowT
    BY DEF IInv, Typed
  <2> DEFINE d == Greater(row[r].due - 1, 0)
  <2> DEFINE l == Greater(row[r].left - 1, 0)
  <2> DEFINE a == Older(row[r].age)
  <2>2. d \in Int /\ l \in Nat /\ a \in Age
    BY <1>2, <2>1 DEF RowT, Greater
  <2>3. row'[r] = [[[row[r] EXCEPT !.due = d] EXCEPT !.left = l] EXCEPT !.age = a]
    BY <1>1, <2>1 DEF RowT
  <2> HIDE DEF d, l, a
  <2>4. row'[r] \in RowT /\ row'[r].status = row[r].status /\ row'[r].token = row[r].token
        /\ row'[r].attempts = row[r].attempts /\ row'[r].due = d /\ row'[r].left = l
    BY <2>1, <2>2, <2>3 DEF RowT
  <2> QED BY <2>4 DEF d, l
<1>4. ASSUME NEW s \in Slots
      PROVE  /\ slot'[s] \in SlotT /\ slot'[s].row = slot[s].row /\ slot'[s].pc = slot[s].pc
             /\ slot'[s].out = slot[s].out
  <2>1. slot[s] \in SlotT /\ Older(slot[s].age) \in Age
    BY <1>2 DEF IInv, Typed, SlotT
  <2>2. slot'[s] = [slot[s] EXCEPT !.age = Older(slot[s].age)]
    BY <1>1
  <2> DEFINE aged(x, a) == [x EXCEPT !.age = a]
  <2>3. ASSUME NEW x \in SlotT, NEW a \in Age
        PROVE  /\ aged(x, a) \in SlotT /\ aged(x, a).row = x.row /\ aged(x, a).pc = x.pc
               /\ aged(x, a).out = x.out
    BY DEF SlotT
  <2>4. slot'[s] = aged(slot[s], Older(slot[s].age))
    BY <2>2
  <2> HIDE DEF aged
  <2> QED BY <2>1, <2>3, <2>4
<1>5. Typed'
  BY <1>1, <1>3, <1>4 DEF IInv, Typed, Busy
<1>6. (\A s \in Slots : Busy(s)' <=> Busy(s)) /\ (\A r \in Rows : Over(r)' <=> Over(r))
  BY <1>3, <1>4 DEF Busy, Over
<1>7. NoNews
  BY <1>1, <1>4, <1>6 DEF NoNews
<1>8. OneDelivery' /\ OnePerSubscriber' /\ InOrder'
  BY <1>1, <1>5, <1>7, NoNewsOnce, NoNewsPerSubscriber, NoNewsInOrder
<1>9. ASSUME NEW s \in Slots PROVE Deliv(s)'
  <2> SUFFICES ASSUME NEW r \in Rows, Busy(s)', slot'[s].row = r
               PROVE  /\ row'[r].status # "unqueued"
                      /\ Over(r)' \/ r \in lapsed' \/ (row'[r].token = s /\ row'[r].left > 0)
                      /\ Over(r)' /\ Subscriber[r] # None => r \in lapsed'
                      /\ Over(r)' /\ row'[r].token = s => r \in Recallable \cap lapsed'
    BY DEF Deliv
  <2>1. Deliv(s) /\ Busy(s) /\ slot[s].row = r /\ row[r] \in RowT
    BY <1>4, <1>6 DEF IInv, Typed
  <2>2. ASSUME ~ Over(r)', r \notin lapsed' PROVE row'[r].token = s /\ row'[r].left > 0
    <3>1. row[r].token = s /\ row[r].left > 0 /\ row[r].left \in Nat
      BY <1>1, <1>6, <2>1, <2>2 DEF Deliv, RowT
    <3>2. row[r].left # 1
      BY <1>1, <2>1, <2>2, <3>1 DEF Outliving
    <3> QED BY <1>3, <3>1, <3>2 DEF Greater
  <2>3. Over(r)' <=> Over(r)
    BY <1>6
  <2> QED BY <1>1, <1>3, <2>1, <2>2, <2>3 DEF Deliv
<1>a. kept' = kept /\ followed' = followed
  BY <1>1
<1>10. \A s \in Slots : Mailed(s)'
  BY <1>a, <1>4 DEF IInv, Mailed
<1>11. \A p \in Processes : Claims(p)'
  BY <1>1 DEF Claims
<1>b. Queued'
  BY <1>3 DEF IInv, Queued
<1>c. FollowUpQueued'
  BY <1>1, <1>3, Numbers DEF IInv, FollowUpQueued
<1>12. Queued' /\ FollowUpQueued'
  BY <1>b, <1>c
<1>13. ASSUME NEW q \in Rows PROVE Soon(q)'
  <2>1. row[q].due \in Int /\ Soon(q)
    BY DEF IInv, Typed, RowT
  <2>2. /\ row'[q].status = row[q].status /\ row'[q].attempts = row[q].attempts
        /\ row'[q].due = Greater(row[q].due - 1, 0)
    BY <1>3
  <2>3. (row[q].due <= MaxBackoff => row'[q].due <= MaxBackoff) /\ (row[q].due = 0 => row'[q].due = 0)
    BY <2>1, <2>2, Numbers DEF Greater
  <2> QED BY <1>a, <2>1, <2>2, <2>3 DEF Soon
<1> QED BY <1>5, <1>8, <1>9, <1>10, <1>11, <1>12, <1>13 DEF IInv

-----------------------------------------------------------------------------
(* Rows no more than slots can have a slot each.                            *)
LEMMA Room ==
  ASSUME NEW A, NEW B, IsFiniteSet(A), IsFiniteSet(B), Cardinality(A) <= Cardinality(B)
  PROVE  \E g \in [A -> B] : Injective(g)
<1>1. PICK a \in Bijection(1 .. Cardinality(A), A) : TRUE
  BY FS_CardinalityType DEF ExistsBijection
<1>2. PICK b \in Bijection(1 .. Cardinality(B), B) : TRUE
  BY FS_CardinalityType DEF ExistsBijection
<1>3. Cardinality(A) \in Nat /\ Cardinality(B) \in Nat
  BY FS_CardinalityType
<1> DEFINE at(x) == CHOOSE i \in 1 .. Cardinality(A) : a[i] = x
<1>4. \A x \in A : at(x) \in 1 .. Cardinality(A) /\ a[at(x)] = x
  BY <1>1 DEF Bijection, Surjection
<1>5. \A x \in A : at(x) \in 1 .. Cardinality(B)
  BY <1>3, <1>4
<1> HIDE DEF at
<1> DEFINE g == [x \in A |-> b[at(x)]]
<1>6. g \in [A -> B]
  BY <1>2, <1>5 DEF Bijection, Injection, Surjection
<1>7. ASSUME NEW x \in A, NEW y \in A, b[at(x)] = b[at(y)] PROVE x = y
  <2>1. at(x) = at(y)
    BY <1>2, <1>5, <1>7 DEF Bijection, Injection, IsInjective
  <2> QED BY <1>4, <2>1
<1>8. Injective(g)
  BY <1>7 DEF Injective
<1> QED BY <1>6, <1>8

(* What a lease does, its assignment of slots named.                        *)
LEMMA LeaseIs ==
  ASSUME IInv, NEW p \in Processes, Lease(p)
  PROVE  \E won \in SUBSET Rows : \E f \in [won -> FreeSlots(p)] :
            /\ won = {r \in claim[p].heads : Takeable(r)} /\ Injective(f)
            /\ row' = [r \in Rows |-> IF r \in won
                                      THEN [row[r] EXCEPT !.token = f[r], !.left = LeaseTime]
                                      ELSE row[r]]
            /\ slot' = [s \in Slots |->
                          IF \E r \in won : f[r] = s
                          THEN LET r == CHOOSE r \in won : f[r] = s
                               IN  [NoSlot EXCEPT !.row = r, !.pc = "run",
                                                  !.attempts = row[r].attempts, !.age = row[r].age]
                          ELSE slot[s]]
            /\ begun' = begun \cup won
<1> DEFINE won == {r \in claim[p].heads : Takeable(r)}
<1> DEFINE f == CHOOSE g \in [won -> FreeSlots(p)] : Injective(g)
<1>1. claim[p].pc = "lease" /\ claim[p] \in ClaimT /\ Claims(p)
  BY DEF Lease, IInv, Typed
<1>2. claim[p].heads \subseteq Rows /\ IsFiniteSet(claim[p].heads)
  BY <1>1, RowsAssumption, FS_Subset DEF ClaimT
<1>3. won \subseteq claim[p].heads
  OBVIOUS
<1>4. IsFiniteSet(won) /\ Cardinality(won) <= Cardinality(claim[p].heads)
  BY <1>2, <1>3, FS_Subset
<1>5. FreeSlots(p) \subseteq Slots /\ IsFiniteSet(Slots)
  BY SlotsAssumption DEF FreeSlots
<1>6. IsFiniteSet(FreeSlots(p))
  BY <1>5, FS_Subset
<1>7. Cardinality(won) \in Nat /\ Cardinality(claim[p].heads) \in Nat /\ Cardinality(FreeSlots(p)) \in Nat
  BY <1>2, <1>4, <1>6, FS_CardinalityType
<1>8. Cardinality(claim[p].heads) <= claim[p].free /\ claim[p].free <= Cardinality(FreeSlots(p))
      /\ claim[p].free \in Nat
  BY <1>1 DEF Claims, ClaimT
<1>9. Cardinality(won) <= Cardinality(FreeSlots(p))
  BY <1>4, <1>7, <1>8
<1>10. \E g \in [won -> FreeSlots(p)] : Injective(g)
  BY <1>4, <1>6, <1>9, Room
<1>11. f \in [won -> FreeSlots(p)] /\ Injective(f)
  BY <1>10
<1>12. /\ row' = [r \in Rows |-> IF r \in won
                                 THEN [row[r] EXCEPT !.token = f[r], !.left = LeaseTime]
                                 ELSE row[r]]
       /\ slot' = [s \in Slots |->
                     IF \E r \in won : f[r] = s
                     THEN LET r == CHOOSE r \in won : f[r] = s
                          IN  [NoSlot EXCEPT !.row = r, !.pc = "run",
                                             !.attempts = row[r].attempts, !.age = row[r].age]
                     ELSE slot[s]]
       /\ begun' = begun \cup won
  BY DEF Lease
<1>13. won \in SUBSET Rows
  BY <1>2, <1>3
<1> HIDE DEF f, won
<1>14. won = {r \in claim[p].heads : Takeable(r)}
  BY DEF won
<1> QED BY <1>11, <1>12, <1>13, <1>14

(* The rows won: due, their lease over, one of a subscriber none of whose    *)
(* deliveries this process has under way, next in their line.              *)
LEMMA LeaseIInv == ASSUME IInv, NEW p \in Processes, Lease(p) PROVE IInv'
<1>a. PICK won \in SUBSET Rows : \E f \in [won -> FreeSlots(p)] :
            /\ won = {r \in claim[p].heads : Takeable(r)} /\ Injective(f)
            /\ row' = [r \in Rows |-> IF r \in won
                                      THEN [row[r] EXCEPT !.token = f[r], !.left = LeaseTime]
                                      ELSE row[r]]
            /\ slot' = [s \in Slots |->
                          IF \E r \in won : f[r] = s
                          THEN LET r == CHOOSE r \in won : f[r] = s
                               IN  [NoSlot EXCEPT !.row = r, !.pc = "run",
                                                  !.attempts = row[r].attempts, !.age = row[r].age]
                          ELSE slot[s]]
            /\ begun' = begun \cup won
  BY LeaseIs
<1>1. PICK f \in [won -> FreeSlots(p)] :
            /\ won = {r \in claim[p].heads : Takeable(r)} /\ Injective(f)
            /\ row' = [r \in Rows |-> IF r \in won
                                      THEN [row[r] EXCEPT !.token = f[r], !.left = LeaseTime]
                                      ELSE row[r]]
            /\ slot' = [s \in Slots |->
                          IF \E r \in won : f[r] = s
                          THEN LET r == CHOOSE r \in won : f[r] = s
                               IN  [NoSlot EXCEPT !.row = r, !.pc = "run",
                                                  !.attempts = row[r].attempts, !.age = row[r].age]
                          ELSE slot[s]]
            /\ begun' = begun \cup won
  BY <1>a
<1>2. /\ claim' = [claim EXCEPT ![p] = NoClaim] /\ lapsed' = lapsed /\ kept' = kept
      /\ followed' = followed /\ begun' = begun \cup won /\ claim[p].pc = "lease"
  BY <1>1 DEF Lease
<1>3. Claims(p) /\ claim[p] \in ClaimT /\ won \subseteq claim[p].heads
  BY <1>1 DEF IInv, Typed
<1>4. ASSUME NEW r \in won
      PROVE  /\ r \in Rows /\ row[r].status = "pending" /\ row[r].left = 0
             /\ Subscriber[r] \notin claim[p].busy /\ Behind(r)
             /\ f[r] \in Slots /\ ProcessOf[f[r]] = p /\ ~ Busy(f[r])
  <2>1. r \in claim[p].heads /\ Takeable(r) /\ f[r] \in FreeSlots(p)
    BY <1>1
  <2> QED BY <1>2, <1>3, <2>1 DEF Takeable, Claims, FreeSlots, Busy
<1>5. ASSUME NEW r \in won, NEW q \in won, f[r] = f[q] PROVE r = q
  BY <1>1, <1>5 DEF Injective
<1>6. ASSUME NEW r \in won
      PROVE  /\ row'[r] \in RowT /\ row'[r].status = "pending" /\ row'[r].token = f[r]
             /\ row'[r].left > 0 /\ row'[r].attempts = row[r].attempts /\ row'[r].due = row[r].due
  <2> DEFINE leased(x, k) == [x EXCEPT !.token = k, !.left = LeaseTime]
  <2>1. row'[r] = leased(row[r], f[r]) /\ row[r] \in RowT
    BY <1>1, <1>4 DEF IInv, Typed
  <2>2. ASSUME NEW x \in RowT, NEW k \in Slots
        PROVE  /\ leased(x, k) \in RowT /\ leased(x, k).status = x.status
               /\ leased(x, k).token = k /\ leased(x, k).left = LeaseTime
               /\ leased(x, k).attempts = x.attempts /\ leased(x, k).due = x.due
    BY Numbers DEF RowT
  <2> HIDE DEF leased
  <2>3. /\ leased(row[r], f[r]) \in RowT /\ leased(row[r], f[r]).status = row[r].status
        /\ leased(row[r], f[r]).token = f[r] /\ leased(row[r], f[r]).left = LeaseTime
        /\ leased(row[r], f[r]).attempts = row[r].attempts
        /\ leased(row[r], f[r]).due = row[r].due
    BY <1>4, <2>1, <2>2
  <2>4. LeaseTime > 0 /\ row[r].status = "pending"
    BY <1>4, Numbers
  <2> QED BY <2>1, <2>3, <2>4
<1>7. \A r \in Rows : r \notin won => row'[r] = row[r]
  BY <1>1
<1>8. ASSUME NEW s \in Slots
      PROVE  \/ slot'[s] = slot[s] /\ \A r \in won : f[r] # s
             \/ \E r \in won : /\ f[r] = s /\ slot'[s] \in SlotT /\ slot'[s].row = r
                               /\ slot'[s].pc = "run"
  <2>1. CASE \A r \in won : f[r] # s
    BY <1>1, <2>1
  <2>2. CASE \E r \in won : f[r] = s
    <3>1. PICK r \in won : r = CHOOSE q \in won : f[q] = s
      BY <2>2
    <3>2. f[r] = s
      BY <2>2, <3>1
    <3>3. slot'[s] = [NoSlot EXCEPT !.row = r, !.pc = "run",
                                    !.attempts = row[r].attempts, !.age = row[r].age]
      BY <1>1, <2>2, <3>1
    <3>4. row[r].attempts \in Nat /\ row[r].age \in Age /\ r \in Rows
      BY <1>4 DEF IInv, Typed, RowT
    <3>5. slot'[s] \in SlotT /\ slot'[s].row = r /\ slot'[s].pc = "run"
      BY <3>3, <3>4, NoSlotType DEF SlotT
    <3> QED BY <3>2, <3>5
  <2> QED BY <2>1, <2>2
<1>9. Typed'
  <2>1. row' \in [Rows -> RowT]
    <3>1. \A r \in Rows : row'[r] \in RowT
      BY <1>6, <1>7 DEF IInv, Typed
    <3> QED BY <1>1, <3>1
  <2>2. claim' \in [Processes -> ClaimT]
    BY <1>2, NoClaimType DEF IInv, Typed
  <2>3. slot' \in [Slots -> SlotT]
    <3>1. \A s \in Slots : slot'[s] \in SlotT
      BY <1>8 DEF IInv, Typed
    <3> QED BY <1>1, <3>1
  <2>4. ASSUME NEW s \in Slots PROVE IF Busy(s)' THEN slot'[s].row \in Rows ELSE slot'[s].row = None
    BY <1>4, <1>8 DEF IInv, Typed, Busy
  <2> QED BY <2>1, <2>2, <2>3, <2>4 DEF Typed
<1>10. \A r \in Rows : /\ row'[r].status = row[r].status /\ row'[r].attempts = row[r].attempts
                       /\ row'[r].due = row[r].due /\ (Over(r)' <=> Over(r))
  BY <1>4, <1>6, <1>7 DEF Over
<1>11. \A r \in Rows : Behind(r) => Behind(r)'
  BY <1>2, <1>10 DEF Behind
<1>12. InOrder'
  <2> SUFFICES ASSUME NEW q \in Rows, NEW r \in Rows, q < r, Line[q] = Line[r], After[q] = 0,
                      q \notin kept, r \in begun \cup won
               PROVE  Over(q)
    BY <1>2, <1>10 DEF InOrder, Over
  <2>1. CASE r \in begun
    BY <2>1 DEF IInv, InOrder, Over
  <2>2. CASE r \in won
    BY <1>4, <2>2 DEF Behind
  <2> QED BY <2>1, <2>2
<1>13. ASSUME NEW s \in Slots, NEW r \in won, Busy(s), slot[s].row = r PROVE r \in lapsed
  BY <1>4, <1>13 DEF IInv, Deliv, Over, Ended
<1>14. ASSUME NEW s \in Slots PROVE Deliv(s)'
  <2> SUFFICES ASSUME NEW r \in Rows, Busy(s)', slot'[s].row = r
               PROVE  /\ row'[r].status # "unqueued"
                      /\ Over(r)' \/ r \in lapsed \/ (row'[r].token = s /\ row'[r].left > 0)
                      /\ Over(r)' /\ Subscriber[r] # None => r \in lapsed
                      /\ Over(r)' /\ row'[r].token = s => r \in Recallable \cap lapsed
    BY <1>2 DEF Deliv
  <2>1. CASE r \in won
    <3>1. ~ Over(r)'
      BY <1>6, <2>1 DEF Over, Ended
    <3>2. f[r] = s \/ r \in lapsed
      <4>1. CASE slot'[s] = slot[s]
        <5>1. Busy(s) /\ slot[s].row = r
          BY <4>1 DEF Busy
        <5> QED BY <1>13, <2>1, <5>1
      <4>2. CASE slot'[s] # slot[s]
        BY <1>8, <4>2
      <4> QED BY <4>1, <4>2
    <3> QED BY <1>6, <2>1, <3>1, <3>2
  <2>2. CASE r \notin won
    <3>1. slot'[s] = slot[s]
      BY <1>8, <2>2
    <3>2. Deliv(s) /\ Busy(s) /\ slot[s].row = r /\ row'[r] = row[r] /\ (Over(r)' <=> Over(r))
      BY <1>7, <1>10, <2>2, <3>1 DEF IInv, Busy
    <3> QED BY <3>2 DEF Deliv
  <2> QED BY <2>1, <2>2
<1>15. OneDelivery'
  <2> SUFFICES ASSUME NEW s \in Slots, NEW t \in Slots, s # t, Busy(s)', slot'[s].row = slot'[t].row
               PROVE  slot'[s].row \in lapsed
    BY <1>2 DEF OneDelivery, Busy
  <2>1. Busy(t)'
    BY <1>9, Numbers DEF Typed
  <2>2. CASE slot'[s] = slot[s] /\ slot'[t] = slot[t]
    BY <2>1, <2>2 DEF IInv, OneDelivery, Busy
  <2>3. CASE slot'[s] = slot[s] /\ slot'[t] # slot[t]
    <3>1. slot'[t].row \in won /\ Busy(s)
      BY <1>8, <2>3 DEF Busy
    <3> QED BY <1>13, <2>3, <3>1
  <2>4. CASE slot'[s] # slot[s] /\ slot'[t] = slot[t]
    <3>1. slot'[s].row \in won /\ Busy(t)
      BY <1>8, <2>1, <2>4 DEF Busy
    <3> QED BY <1>13, <2>4, <3>1
  <2>5. CASE slot'[s] # slot[s] /\ slot'[t] # slot[t]
    BY <1>8, <2>5
  <2> QED BY <2>2, <2>3, <2>4, <2>5
<1>16. ASSUME NEW s \in Slots, NEW r \in won, slot'[s] = slot[s], Busy(s), ProcessOf[s] = p,
              Subscriber[slot[s].row] # None, slot[s].row \notin lapsed
       PROVE  Subscriber[slot[s].row] # Subscriber[r]
  BY <1>2, <1>3, <1>4, <1>16 DEF Claims
<1>17. OnePerSubscriber'
  <2> SUFFICES ASSUME NEW s \in Slots, NEW t \in Slots, s # t, ProcessOf[s] = ProcessOf[t],
                      Busy(s)', Busy(t)', Subscriber[slot'[s].row] # None,
                      Subscriber[slot'[s].row] = Subscriber[slot'[t].row],
                      slot'[s].row \notin lapsed, slot'[t].row \notin lapsed
               PROVE  FALSE
    BY <1>2 DEF OnePerSubscriber, Busy
  <2>1. CASE slot'[s] = slot[s] /\ slot'[t] = slot[t]
    BY <2>1 DEF IInv, OnePerSubscriber, Busy
  <2>2. CASE slot'[s] = slot[s] /\ slot'[t] # slot[t]
    <3>1. PICK r \in won : f[r] = t /\ slot'[t].row = r
      BY <1>8, <2>2
    <3>2. Busy(s) /\ ProcessOf[s] = p
      BY <1>4, <2>2, <3>1 DEF Busy
    <3> QED BY <1>16, <2>2, <3>1, <3>2
  <2>3. CASE slot'[s] # slot[s] /\ slot'[t] = slot[t]
    <3>1. PICK r \in won : f[r] = s /\ slot'[s].row = r
      BY <1>8, <2>3
    <3>2. Busy(t) /\ ProcessOf[t] = p
      BY <1>4, <2>3, <3>1 DEF Busy
    <3> QED BY <1>16, <2>3, <3>1, <3>2
  <2>4. CASE slot'[s] # slot[s] /\ slot'[t] # slot[t]
    <3>1. PICK r \in won : f[r] = s /\ slot'[s].row = r
      BY <1>8, <2>4
    <3>2. PICK q \in won : f[q] = t /\ slot'[t].row = q
      BY <1>8, <2>4
    <3>3. OnePerSubscriberIn(claim[p].heads)
      BY <1>2, <1>3 DEF Claims
    <3> QED BY <1>3, <3>1, <3>2, <3>3 DEF OnePerSubscriberIn
  <2> QED BY <2>1, <2>2, <2>3, <2>4
<1>18. ASSUME NEW q \in Processes PROVE Claims(q)'
  <2>1. CASE q = p
    <3>1. claim'[q].pc = "idle"
      BY <1>2, <2>1, NoClaimType DEF IInv, Typed
    <3> QED BY <3>1 DEF Claims
  <2>2. CASE q # p
    <3>1. claim'[q] = claim[q] /\ Claims(q) /\ claim[q] \in ClaimT
      BY <1>2, <2>2 DEF IInv, Typed
    <3>2. \A s \in Slots : ProcessOf[s] = q => slot'[s] = slot[s]
      BY <1>4, <1>8, <2>2
    <3>3. FreeSlots(q)' = FreeSlots(q)
      BY <3>2 DEF FreeSlots
    <3>4. OnePerSubscriberIn(claim[q].heads)' <=> OnePerSubscriberIn(claim[q].heads)
      BY <3>1 DEF OnePerSubscriberIn
    <3>5. \A r \in claim[q].heads : Behind(r) => Behind(r)'
      BY <1>11, <3>1 DEF ClaimT
    <3>6. Cardinality(FreeSlots(q))' = Cardinality(FreeSlots(q))
      BY <3>3
    <3>7. \A s \in Slots : ProcessOf[s] = q => (Busy(s)' <=> Busy(s))
      BY <3>2 DEF Busy
    <3> QED BY <1>2, <3>1, <3>2, <3>4, <3>5, <3>6, <3>7 DEF Claims
  <2> QED BY <2>1, <2>2
<1>19. ASSUME NEW s \in Slots PROVE Mailed(s)'
  BY <1>2, <1>8 DEF IInv, Mailed
<1>20. Queued' /\ FollowUpQueued'
  BY <1>2, <1>10, Numbers DEF IInv, Queued, FollowUpQueued
<1>21. \A q \in Rows : Soon(q)'
  BY <1>2, <1>10 DEF IInv, Soon
<1> QED BY <1>9, <1>12, <1>14, <1>15, <1>17, <1>18, <1>19, <1>20, <1>21 DEF IInv

-----------------------------------------------------------------------------
LEMMA NextIInv == ASSUME IInv, [Next]_vars PROVE IInv'
<1>1. CASE UNCHANGED vars
  <2>1. /\ row' = row /\ claim' = claim /\ slot' = slot /\ begun' = begun /\ lapsed' = lapsed
        /\ kept' = kept /\ followed' = followed
    BY <1>1 DEF vars
  <2>2. Typed' /\ \A s \in Slots : Mailed(s)'
    BY <2>1 DEF IInv, Typed, Busy, Mailed
  <2>3. \A s \in Slots : Busy(s)' => Busy(s) /\ slot'[s].row = slot[s].row
    BY <2>1 DEF Busy
  <2> QED BY <2>1, <2>2, <2>3, SameRows
<1>2. ASSUME NEW r \in Rows, Enqueue(r) PROVE IInv'
  BY <1>2, EnqueueIInv
<1>3. ASSUME NEW r \in Rows, Drop(r) PROVE IInv'
  BY <1>3, DropIInv
<1>4. ASSUME NEW r \in Rows, TakeBack(r) PROVE IInv'
  BY <1>4, TakeBackIInv
<1>5. ASSUME NEW p \in Processes, StartClaim(p) PROVE IInv'
  BY <1>5, StartClaimIInv
<1>6. ASSUME NEW p \in Processes, ReadHeads(p) PROVE IInv'
  BY <1>6, ReadHeadsIInv
<1>7. ASSUME NEW p \in Processes, Lease(p) PROVE IInv'
  BY <1>7, LeaseIInv
<1>8. ASSUME NEW p \in Processes, Crash(p) PROVE IInv'
  BY <1>8, CrashIInv
<1>9. ASSUME NEW s \in Slots, Work(s) PROVE IInv'
  BY <1>9, RenewIInv, DeliverIInv, FollowUpIInv, RecordIInv DEF Work
<1>10. ASSUME NEW s \in Slots, RecordFails(s) PROVE IInv'
  BY <1>10, RecordFailsIInv
<1>11. CASE Tick
  BY <1>11, TickIInv
<1> QED BY <1>1, <1>2, <1>3, <1>4, <1>5, <1>6, <1>7, <1>8, <1>9, <1>10, <1>11 DEF Next

(* A step changes how a row ended only where a delivery writes over a row    *)
(* taken back under the lease it outlived.                                 *)
LEMMA StepKeepsEnds ==
  ASSUME IInv, Next, NEW r \in Rows, row[r].status \in Ended, r \notin Recallable \cap lapsed
  PROVE  row'[r].status = row[r].status
<1>1. row[r].status # "pending" /\ row[r].status # "unqueued" /\ Over(r)
  BY DEF Ended, Over
<1>2. DOMAIN row = Rows
  BY DEF IInv, Typed
<1>3. ASSUME NEW q \in Rows, Enqueue(q) \/ Drop(q) \/ TakeBack(q) PROVE row'[r].status = row[r].status
  <2>1. r # q
    BY <1>1, <1>3 DEF Enqueue, Drop, TakeBack
  <2> QED BY <1>2, <1>3, <2>1 DEF Enqueue, Drop, TakeBack
<1>4. ASSUME NEW p \in Processes, Lease(p) PROVE row'[r].status = row[r].status
  <2>1. r \notin {q \in claim[p].heads : Takeable(q)}
    BY <1>1 DEF Takeable
  <2>2. row'[r] = row[r]
    BY <1>4, <2>1 DEF Lease
  <2> QED BY <2>2
<1>5. ASSUME NEW s \in Slots, Renew(s) PROVE row'[r].status = row[r].status
  <2>1. slot[s].row # r
    BY <1>1, <1>5 DEF Renew
  <2> QED BY <1>2, <1>5, <2>1 DEF Renew, Renewed
<1>6. ASSUME NEW s \in Slots, Record(s) PROVE row'[r].status = row[r].status
  <2>1. row' = row \/ (slot[s].row # r /\ row' = [row EXCEPT ![slot[s].row] = Marked(row[slot[s].row], slot[s])])
    <3>1. CASE slot[s].row = r
      <4>1. row[r].token # s
        BY <1>1, <1>6, <3>1 DEF Record, IInv, Deliv, Busy
      <4> QED BY <1>6, <3>1, <4>1 DEF Record, HeldBy
    <3>2. CASE slot[s].row # r
      BY <1>6, <3>2 DEF Record
    <3> QED BY <3>1, <3>2
  <2> QED BY <1>2, <2>1
<1>7. CASE Tick
  <2>1. row'[r] = [row[r] EXCEPT !.due = Greater(@ - 1, 0), !.left = Greater(@ - 1, 0), !.age = Older(@)]
    BY <1>7 DEF Tick
  <2>2. row[r] \in RowT
    BY DEF IInv, Typed
  <2> QED BY <2>1, <2>2 DEF RowT
<1>8. ASSUME NEW p \in Processes, StartClaim(p) \/ ReadHeads(p) \/ Crash(p) PROVE row' = row
  BY <1>8 DEF StartClaim, ReadHeads, Crash
<1>9. ASSUME NEW s \in Slots, Deliver(s) \/ FollowUp(s) \/ RecordFails(s) PROVE row' = row
  BY <1>9 DEF Deliver, FollowUp, RecordFails
<1> QED BY <1>3, <1>4, <1>5, <1>6, <1>7, <1>8, <1>9 DEF Next, Work

-----------------------------------------------------------------------------
(* The strengthening holds of every behaviour.                             *)
THEOREM Inductive == Spec => []IInv
  BY InitIInv, NextIInv, PTL DEF Spec

(* Rows of one line go in the order queued (InOrder: the heads another      *)
(* process read are stale by the time it leases).                          *)
THEOREM LinesInOrder == Spec => []InOrder
<1>1. IInv => InOrder
  BY DEF IInv
<1> QED BY <1>1, Inductive, PTL

(* No row is delivered twice at once unless a delivery of it outlived its    *)
(* lease (OneDelivery: the claim's conditional update).                    *)
THEOREM DeliveredOnce == Spec => []OneDelivery
<1>1. IInv => OneDelivery
  BY DEF IInv
<1> QED BY <1>1, Inductive, PTL

(* A subscriber holds one slot per process (OnePerSubscriber: the subscribers *)
(* in flight are read before the lease).                                   *)
THEOREM SubscribersShare == Spec => []OnePerSubscriber
<1>1. IInv => OnePerSubscriber
  BY DEF IInv
<1> QED BY <1>1, Inductive, PTL

(* No invitee mail ends unsent without its follow-up queued (FollowUpQueued: *)
(* compensate before markOutboxFailed).                                    *)
THEOREM MailFollowedUp == Spec => []FollowUpQueued
<1>1. IInv => FollowUpQueued
  BY DEF IInv
<1> QED BY <1>1, Inductive, PTL

(* What ended stays as it ended (EndedStays: the lease check of every       *)
(* outcome write).                                                         *)
THEOREM EndsStay == Spec => EndedStays
<1>1. IInv /\ Next => \A r \in Rows :
         row[r].status \in Ended /\ r \notin Recallable \cap lapsed
            => row'[r].status = row[r].status
  BY StepKeepsEnds
<1>2. IInv /\ [Next]_vars
        => [\A r \in Rows :
               row[r].status \in Ended /\ r \notin Recallable \cap lapsed
                  => row'[r].status = row[r].status]_vars
  BY <1>1
<1> QED BY <1>2, Inductive, PTL DEF Spec, EndedStays

-----------------------------------------------------------------------------
(* TypeOK.  What Typed leaves open: no wait is negative, though the back-off *)
(* is a power, and no lease longer than LeaseTime.                         *)
RowTimes == \A r \in Rows : row[r].due >= 0 /\ row[r].left <= LeaseTime
SlotTimes == \A s \in Slots : slot[s].wait >= 0
Sets ==
    /\ faults \in 0 .. MaxFaults
    /\ begun \subseteq Rows /\ lapsed \subseteq Rows /\ kept \subseteq Rows /\ followed \subseteq Rows

Timed == RowTimes /\ SlotTimes /\ Sets

(* A failure's wait is the greater of its back-off and of what it names,     *)
(* which is no less than 0.                                                *)
LEMMA WaitsForward ==
  /\ \A floor \in Floors, n \in Nat : RetryDelay(n, floor) >= 0
  /\ \A w \in Nat : Lesser(w, MaxBackoff) \in Nat
<1>1. ASSUME NEW floor \in Floors, NEW n \in Nat PROVE RetryDelay(n, floor) >= 0
  <2>1. 2 ^ (n - 1) \in Int
    OBVIOUS
  <2>2. Backoff(n) \in Int
    BY <2>1, Waits, Numbers DEF Backoff
  <2>3. Lesser(floor, MaxBackoff) \in Nat
    BY Numbers DEF Lesser
  <2> QED BY <2>2, <2>3 DEF RetryDelay, Greater
<1>2. \A w \in Nat : Lesser(w, MaxBackoff) \in Nat
  BY Numbers DEF Lesser
<1> QED BY <1>1, <1>2

LEMMA EnqueueTimes ==
  ASSUME IInv, RowTimes, NEW r \in Rows, Enqueue(r) \/ Drop(r) \/ TakeBack(r)
  PROVE  RowTimes'
<1>1. DOMAIN row = Rows /\ row[r] \in RowT
  BY DEF IInv, Typed
<1>2. \E x : row' = [row EXCEPT ![r] = x] /\ x.due >= 0 /\ x.left <= LeaseTime
  <2>1. CASE Enqueue(r)
    <3> DEFINE x == [NewRow EXCEPT !.status = "pending", !.due = After[r]]
    <3>1. x.due = After[r] /\ x.left = 0 /\ row' = [row EXCEPT ![r] = x]
      BY <2>1 DEF Enqueue, NewRow
    <3>2. After[r] >= 0 /\ 0 <= LeaseTime
      BY Numbers
    <3> HIDE DEF x
    <3> QED BY <3>1, <3>2
  <2>2. CASE Drop(r)
    <3> DEFINE x == [NewRow EXCEPT !.status = "gone"]
    <3>1. x.due = 0 /\ x.left = 0 /\ row' = [row EXCEPT ![r] = x]
      BY <2>2 DEF Drop, NewRow
    <3>2. 0 >= 0 /\ 0 <= LeaseTime
      BY Numbers
    <3> HIDE DEF x
    <3> QED BY <3>1, <3>2
  <2>3. CASE TakeBack(r)
    <3> DEFINE x == [row[r] EXCEPT !.status = "skipped"]
    <3>1. x.due = row[r].due /\ x.left = row[r].left /\ row' = [row EXCEPT ![r] = x]
      BY <1>1, <2>3 DEF TakeBack, RowT
    <3> HIDE DEF x
    <3> QED BY <3>1 DEF RowTimes
  <2> QED BY <2>1, <2>2, <2>3
<1> QED BY <1>1, <1>2 DEF RowTimes

LEMMA RenewTimes == ASSUME IInv, RowTimes, NEW s \in Slots, Renew(s) PROVE RowTimes'
<1>1. PICK r \in Rows : r = slot[s].row
  BY DEF Renew, IInv, Typed, Busy
<1>2. row' = [row EXCEPT ![r].left = LeaseTime] /\ row \in [Rows -> RowT]
  BY <1>1 DEF Renew, Renewed, IInv, Typed
<1>3. \A q \in Rows : row'[q].due = row[q].due /\ row'[q].left \in {row[q].left, LeaseTime}
  BY <1>2 DEF RowT
<1> QED BY <1>3, Numbers DEF RowTimes

LEMMA RecordTimes ==
  ASSUME IInv, RowTimes, SlotTimes, NEW s \in Slots, Record(s)
  PROVE  RowTimes'
<1>1. PICK r \in Rows : r = slot[s].row
  BY DEF Record, IInv, Typed, Busy
<1>2. row \in [Rows -> RowT] /\ slot[s] \in SlotT /\ slot[s].wait \in Nat
  BY DEF IInv, Typed, SlotT, SlotTimes
<1>3. Marked(row[r], slot[s]).due \in Nat /\ Marked(row[r], slot[s]).left = 0
  <2>1. CASE slot[s].out \in Ended
    BY <2>1 DEF Marked, NewRow
  <2>2. CASE slot[s].out \notin Ended
    BY <1>2, <2>2, WaitsForward DEF Marked
  <2> QED BY <2>1, <2>2
<1>4. \A q \in Rows : row'[q] = row[q] \/ row'[q] = Marked(row[r], slot[s])
  BY <1>1, <1>2 DEF Record
<1> DEFINE x == Marked(row[r], slot[s])
<1>5. x.due >= 0 /\ x.left <= LeaseTime
  BY <1>3, Numbers
<1> HIDE DEF x
<1>6. \A q \in Rows : row'[q] = row[q] \/ row'[q] = x
  BY <1>4 DEF x
<1> QED BY <1>5, <1>6 DEF RowTimes

(* The lease's UPDATE, and the deliveries it starts.                        *)
LeasedRows(won, f) ==
    /\ row' = [r \in Rows |-> IF r \in won
                              THEN [row[r] EXCEPT !.token = f[r], !.left = LeaseTime]
                              ELSE row[r]]
    /\ slot' = [s \in Slots |->
                  IF \E r \in won : f[r] = s
                  THEN LET r == CHOOSE r \in won : f[r] = s
                       IN  [NoSlot EXCEPT !.row = r, !.pc = "run",
                                          !.attempts = row[r].attempts, !.age = row[r].age]
                  ELSE slot[s]]

LEMMA LeaseTimes == ASSUME IInv, RowTimes, SlotTimes, NEW p \in Processes, Lease(p)
                    PROVE  RowTimes' /\ SlotTimes'
<1> DEFINE won == {r \in claim[p].heads : Takeable(r)}
<1> DEFINE f == CHOOSE g \in [won -> FreeSlots(p)] : Injective(g)
<1>1. LeasedRows(won, f)
  BY DEF Lease, LeasedRows
<1> HIDE DEF f, won
<1>2. ASSUME NEW r \in Rows PROVE row'[r].due >= 0 /\ row'[r].left <= LeaseTime
  <2>1. row[r] \in RowT
    BY DEF IInv, Typed
  <2>2. [row[r] EXCEPT !.token = f[r], !.left = LeaseTime].due = row[r].due
        /\ [row[r] EXCEPT !.token = f[r], !.left = LeaseTime].left = LeaseTime
    BY <2>1 DEF RowT
  <2>3. row'[r] = row[r] \/ row'[r] = [row[r] EXCEPT !.token = f[r], !.left = LeaseTime]
    BY <1>1 DEF LeasedRows
  <2>4. LeaseTime <= LeaseTime
    BY Numbers
  <2> QED BY <2>2, <2>3, <2>4 DEF RowTimes
<1>3. ASSUME NEW s \in Slots PROVE slot'[s].wait >= 0
  <2>1. \A r : [NoSlot EXCEPT !.row = r, !.pc = "run",
                              !.attempts = row[r].attempts, !.age = row[r].age].wait = 0
    BY DEF NoSlot
  <2>2. slot'[s] = slot[s] \/ slot'[s].wait = 0
    BY <1>1, <2>1 DEF LeasedRows
  <2> QED BY <2>2 DEF SlotTimes
<1> QED BY <1>1, <1>2, <1>3 DEF RowTimes, SlotTimes

LEMMA TickTimes == ASSUME IInv, RowTimes, SlotTimes, Tick PROVE RowTimes' /\ SlotTimes'
<1>1. ASSUME NEW r \in Rows PROVE row'[r].due >= 0 /\ row'[r].left <= LeaseTime
  <2>1. row[r] \in RowT
    BY DEF IInv, Typed
  <2>2. row'[r] = [row[r] EXCEPT !.due = Greater(@ - 1, 0), !.left = Greater(@ - 1, 0), !.age = Older(@)]
    BY DEF Tick
  <2>3. row'[r].due = Greater(row[r].due - 1, 0) /\ row'[r].left = Greater(row[r].left - 1, 0)
    BY <2>1, <2>2 DEF RowT
  <2>4. row[r].due \in Int /\ row[r].left \in Nat /\ row[r].left <= LeaseTime
    BY <2>1 DEF RowT, RowTimes
  <2> QED BY <2>3, <2>4, Numbers DEF Greater
<1>2. ASSUME NEW s \in Slots PROVE slot'[s].wait >= 0
  <2>1. slot[s] \in SlotT /\ slot'[s] = [slot[s] EXCEPT !.age = Older(@)]
    BY DEF IInv, Typed, Tick
  <2>2. slot'[s].wait = slot[s].wait
    BY <2>1 DEF SlotT
  <2> QED BY <2>2 DEF SlotTimes
<1> QED BY <1>1, <1>2 DEF RowTimes, SlotTimes

(* A delivery ends with a wait of its own, or none.                        *)
LEMMA EndsTimes ==
  ASSUME IInv, SlotTimes, NEW s \in Slots, Busy(s), NEW out \in Outcomes, NEW wait \in Nat, Ends(s, out, wait)
  PROVE  SlotTimes'
<1>1. PICK q \in SlotT : slot' = [slot EXCEPT ![s] = q] /\ q.wait = wait
  BY EndsIs
<1> QED BY <1>1 DEF SlotTimes, IInv, Typed

LEMMA FailedTimes ==
  ASSUME IInv, SlotTimes, NEW s \in Slots, Busy(s), Failed(s)
  PROVE  SlotTimes'
<1>1. slot[s].attempts + 1 \in Nat
  BY DEF IInv, Typed, SlotT
<1>2. CASE Ends(s, "failed", 0)
  BY <1>2, EndsTimes DEF Outcomes
<1>3. ASSUME NEW floor \in Floors, Ends(s, "retry", RetryDelay(slot[s].attempts + 1, floor))
      PROVE  SlotTimes'
  <2>1. RetryDelay(slot[s].attempts + 1, floor) \in Int /\ RetryDelay(slot[s].attempts + 1, floor) >= 0
    BY <1>1, Waits, WaitsForward
  <2>2. RetryDelay(slot[s].attempts + 1, floor) \in Nat /\ "retry" \in Outcomes
    BY <2>1 DEF Outcomes
  <2> QED BY <1>3, <2>2, EndsTimes
<1> QED BY <1>2, <1>3 DEF Failed

LEMMA DeliveryTimes ==
  ASSUME IInv, SlotTimes, NEW s \in Slots, Deliver(s) \/ FollowUp(s) \/ Record(s) \/ RecordFails(s)
  PROVE  SlotTimes'
<1>1. Busy(s) /\ slot \in [Slots -> SlotT] /\ slot[s] \in SlotT
  BY DEF Deliver, FollowUp, Record, RecordFails, Busy, IInv, Typed
<1>2. CASE Deliver(s)
  BY <1>1, <1>2, EndsTimes, FailedTimes DEF Deliver, Outcomes
<1>3. CASE slot' = [slot EXCEPT ![s].pc = "record"]
  BY <1>1, <1>3 DEF SlotTimes, SlotT
<1>4. CASE slot' = [slot EXCEPT ![s].pc = "record", ![s].out = "kept", ![s].wait = KeepDelay]
  <2>1. \A t \in Slots : t # s => slot'[t] = slot[t]
    BY <1>1, <1>4
  <2>2. slot'[s].wait = KeepDelay
    <3>1. slot' = [[[slot EXCEPT ![s].pc = "record"] EXCEPT ![s].out = "kept"] EXCEPT ![s].wait = KeepDelay]
      BY <1>4
    <3> DEFINE z == [[slot EXCEPT ![s].pc = "record"] EXCEPT ![s].out = "kept"]
    <3>2. z[s] = [[slot[s] EXCEPT !.pc = "record"] EXCEPT !.out = "kept"] /\ DOMAIN z = Slots
      BY <1>1
    <3>3. slot'[s] = [z[s] EXCEPT !.wait = KeepDelay]
      BY <3>1, <3>2
    <3> QED BY <1>1, <3>2, <3>3 DEF SlotT
  <2> QED BY <2>1, <2>2, Numbers DEF SlotTimes
<1>5. CASE slot' = [slot EXCEPT ![s] = NoSlot]
  BY <1>1, <1>5 DEF SlotTimes, NoSlot
<1>6. CASE RecordFails(s)
  BY <1>1, <1>5, <1>6, FailedTimes DEF RecordFails
<1> QED BY <1>2, <1>3, <1>4, <1>5, <1>6 DEF FollowUp, Record

LEMMA SetsNext == ASSUME IInv, Sets, [Next]_vars PROVE Sets'
<1>1. \A s \in Slots : slot[s].row \in Rows \/ slot[s].pc = "idle"
  BY DEF IInv, Typed, Busy
<1>2. faults' \in {faults, faults + 1} /\ (faults' # faults => faults < MaxFaults)
  BY DEF Next, vars, Enqueue, Drop, TakeBack, StartClaim, ReadHeads, Lease, Crash, Work, Renew, Deliver,
         FollowUp, Record, RecordFails, Tick, Fault
<1>3. MaxFaults \in Nat
  BY TimesAssumption
<1>4. lapsed' \subseteq lapsed \cup Rows
  BY DEF Next, vars, Enqueue, Drop, TakeBack, StartClaim, ReadHeads, Lease, Crash, Work, Renew, Deliver,
         FollowUp, Record, RecordFails, Tick, Outliving
<1>5. kept' \subseteq kept \cup Rows /\ followed' \subseteq followed \cup Rows
  BY <1>1 DEF Next, vars, Enqueue, Drop, TakeBack, StartClaim, ReadHeads, Lease, Crash, Work, Renew, Deliver,
         FollowUp, Record, RecordFails, Tick
<1>6. begun' \subseteq begun \cup Rows
  <2>1. ASSUME NEW p \in Processes, Lease(p) PROVE begun' \subseteq begun \cup Rows
    <3>1. claim[p].heads \subseteq Rows
      BY DEF IInv, Typed, ClaimT
    <3> QED BY <2>1, <3>1 DEF Lease
  <2> QED BY <2>1 DEF Next, vars, Enqueue, Drop, TakeBack, StartClaim, ReadHeads, Crash, Work, Renew,
             Deliver, FollowUp, Record, RecordFails, Tick
<1> QED BY <1>2, <1>3, <1>4, <1>5, <1>6 DEF Sets

LEMMA TimedNext == ASSUME IInv, Timed, [Next]_vars PROVE Timed'
<1>1. Sets'
  BY SetsNext DEF Timed
<1>2. CASE UNCHANGED vars
  BY <1>1, <1>2 DEF vars, Timed, RowTimes, SlotTimes
<1>3. ASSUME NEW r \in Rows, Enqueue(r) \/ Drop(r) \/ TakeBack(r) PROVE RowTimes' /\ SlotTimes'
  BY <1>3, EnqueueTimes DEF Timed, SlotTimes, Enqueue, Drop, TakeBack
<1>4. ASSUME NEW p \in Processes, StartClaim(p) \/ ReadHeads(p) PROVE RowTimes' /\ SlotTimes'
  BY <1>4 DEF Timed, RowTimes, SlotTimes, StartClaim, ReadHeads
<1>5. ASSUME NEW p \in Processes, Lease(p) PROVE RowTimes' /\ SlotTimes'
  BY <1>5, LeaseTimes DEF Timed
<1>6. ASSUME NEW p \in Processes, Crash(p) PROVE RowTimes' /\ SlotTimes'
  BY <1>6 DEF Timed, RowTimes, SlotTimes, Crash, NoSlot
<1>7. ASSUME NEW s \in Slots, Renew(s) PROVE RowTimes' /\ SlotTimes'
  BY <1>7, RenewTimes DEF Timed, SlotTimes, Renew
<1>8. ASSUME NEW s \in Slots, Deliver(s) \/ FollowUp(s) \/ RecordFails(s) PROVE RowTimes' /\ SlotTimes'
  BY <1>8, DeliveryTimes DEF Timed, RowTimes, Deliver, FollowUp, RecordFails
<1>9. ASSUME NEW s \in Slots, Record(s) PROVE RowTimes' /\ SlotTimes'
  BY <1>9, RecordTimes, DeliveryTimes DEF Timed
<1>10. ASSUME Tick PROVE RowTimes' /\ SlotTimes'
  BY <1>10, TickTimes DEF Timed
<1>11. RowTimes' /\ SlotTimes'
  BY <1>2, <1>3, <1>4, <1>5, <1>6, <1>7, <1>8, <1>9, <1>10 DEF Next, Work, Timed
<1> QED BY <1>1, <1>11 DEF Timed

(* The queue's rows, claims and slots keep their types: no retry is due in   *)
(* the past and no lease outlasts OUTBOX_LEASE_MS (TypeOK).                 *)
THEOREM TypesKept == Spec => []TypeOK
<1>1. Init => Timed
  <2> SUFFICES ASSUME Init PROVE Timed
    OBVIOUS
  <2>1. RowTimes /\ SlotTimes
    BY Numbers DEF Init, RowTimes, SlotTimes, NewRow, NoSlot
  <2>2. Sets
    BY TimesAssumption DEF Init, Sets
  <2> QED BY <2>1, <2>2 DEF Timed
<1>2. IInv /\ Timed /\ [Next]_vars => Timed'
  BY TimedNext
<1>3. IInv /\ Timed => TypeOK
  <2> SUFFICES ASSUME IInv, Timed PROVE TypeOK
    OBVIOUS
  <2>1. ASSUME NEW r \in Rows PROVE row[r] \in Row
    BY DEF IInv, Typed, Timed, RowTimes, RowT, Row
  <2>2. ASSUME NEW s \in Slots PROVE slot[s] \in Slot
    BY DEF IInv, Typed, Timed, SlotTimes, SlotT, Slot
  <2>3. row \in [Rows -> Row] /\ slot \in [Slots -> Slot] /\ claim \in [Processes -> Claim]
    BY <2>1, <2>2 DEF IInv, Typed, ClaimT, Claim
  <2> QED BY <2>3 DEF Timed, Sets, TypeOK
<1> QED BY <1>1, <1>2, <1>3, Inductive, PTL DEF Spec
=============================================================================
