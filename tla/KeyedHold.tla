------------------------------- MODULE KeyedHold -------------------------------
(***************************************************************************)
(* hold_slot, the MCP tool, through keyedWrite: attempts with one          *)
(* idempotency key, at once or one after the other, each place a hold and  *)
(* then store it as the key's answer; who could not, gives its hold back.  *)
(* Only a success is stored.  A hold lapses in minutes, the record in a    *)
(* day: the record's expiry is left out.                                   *)
(***************************************************************************)
EXTENDS Naturals, FiniteSets

CONSTANTS
    HoldCalls,  \* the attempts that may run at once
    HoldTimes,  \* the arguments a call is made with: the times it wants held
    MaxHoldCalls, MaxHoldFaults  \* bounds

VARIABLES
    holdRecord,    \* the api_idempotency row under the key
    hold,          \* slot_reservation: the hold each call placed
    holdCall,      \* each attempt
    holdAnswered,  \* the holds handed out
    holdCut,       \* whether an attempt was cut off, or could not tell what it did
    holdUsed

holdVars == <<holdRecord, hold, holdCall, holdAnswered, holdCut, holdUsed>>

-----------------------------------------------------------------------------
HoldNone == "none"
NoHold == 0
Numbers == 1 .. MaxHoldCalls
(* A call opens at most two records: the one it claims, and one again. *)
AgainId(n) == MaxHoldCalls + n

NoHoldRecord == [id |-> 0, for |-> HoldNone, hold |-> NoHold]
HoldRecord == [id : 0 .. AgainId(MaxHoldCalls), for : HoldTimes \cup {HoldNone},
               hold : NoHold .. MaxHoldCalls]
Opened(id, for) == [id |-> id, for |-> for, hold |-> NoHold]

HoldIdle == [pc |-> "idle", n |-> 0, for |-> HoldNone, id |-> 0, inserted |-> FALSE,
             mine |-> {}, gets |-> NoHold]

HoldInit ==
    /\ holdRecord = NoHoldRecord
    /\ hold = [n \in Numbers |-> [for |-> HoldNone, status |-> HoldNone]]
    /\ holdCall = [c \in HoldCalls |-> HoldIdle]
    /\ holdAnswered = {} /\ holdCut = FALSE
    /\ holdUsed = [calls |-> 0, faults |-> 0]

HoldTo(c, pc) == holdCall' = [holdCall EXCEPT ![c].pc = pc]

(* Answers with a hold, or (NoHold) an error. *)
HoldAnswers(c, h) ==
    /\ holdAnswered' = holdAnswered \cup ({h} \ {NoHold})
    /\ holdCall' = [holdCall EXCEPT ![c] = HoldIdle]

HoldFault == holdUsed.faults < MaxHoldFaults /\ holdUsed' = [holdUsed EXCEPT !.faults = @ + 1]

HoldStored(c) == holdRecord.for = holdCall[c].for /\ holdRecord.hold # NoHold
OpenRecord(id) == holdRecord.id = id /\ holdRecord.hold = NoHold

GivenBack(n) == [hold EXCEPT ![n].status = IF @ = "live" THEN "back" ELSE @]

-----------------------------------------------------------------------------
(* claimApiIdempotency: opens the record, or reads the one there is, whose   *)
(* answer is the answer.                                                   *)
HoldClaim(c, r) ==
    LET n == holdUsed.calls + 1
        row == IF holdRecord = NoHoldRecord THEN Opened(n, r) ELSE holdRecord
    IN /\ holdCall[c].pc = "idle" /\ holdUsed.calls < MaxHoldCalls
       /\ holdUsed' = [holdUsed EXCEPT !.calls = @ + 1]
       /\ holdRecord' = row
       /\ IF row.for # r \/ row.hold # NoHold
          THEN HoldAnswers(c, IF row.for = r THEN row.hold ELSE NoHold)
          ELSE /\ holdCall' = [holdCall EXCEPT ![c] =
                     [pc |-> "place", n |-> n, for |-> r, id |-> row.id, gets |-> NoHold,
                      inserted |-> row.id = n, mine |-> {row.id}]]
               /\ UNCHANGED holdAnswered
       /\ UNCHANGED <<hold, holdCut>>

Held(r) == \E n \in Numbers : hold[n].for = r /\ hold[n].status = "live"

(* reserve: refused over another hold, or for any other reason. *)
Place(c) ==
    /\ holdCall[c].pc = "place"
    /\ \/ /\ ~ Held(holdCall[c].for)
          /\ hold' = [hold EXCEPT ![holdCall[c].n] = [for |-> holdCall[c].for, status |-> "live"]]
          /\ HoldTo(c, "bind")
       \/ HoldTo(c, "refused") /\ UNCHANGED hold
    /\ UNCHANGED <<holdRecord, holdAnswered, holdCut, holdUsed>>

(* bindHold *)
Bind(c) ==
    /\ holdCall[c].pc = "bind"
    /\ \/ HoldTo(c, "store") /\ UNCHANGED <<hold, holdUsed>>
       \/ HoldFault /\ hold' = GivenBack(holdCall[c].n) /\ HoldTo(c, "refused")
    /\ UNCHANGED <<holdRecord, holdAnswered, holdCut>>

(* Refused: what another attempt stored answers. *)
HoldRefused(c) ==
    /\ holdCall[c].pc = "refused"
    /\ \/ HoldStored(c) /\ HoldAnswers(c, holdRecord.hold)
       \/ ~ HoldStored(c) /\ holdCall[c].inserted /\ HoldTo(c, "drop") /\ UNCHANGED holdAnswered
       \/ ~ HoldStored(c) /\ ~ holdCall[c].inserted /\ HoldAnswers(c, NoHold)
    /\ UNCHANGED <<holdRecord, hold, holdCut, holdUsed>>

(* Mutant of Droppable: the attempt drops its record, stored or not. *)
DroppableStored(c) == holdRecord.id = holdCall[c].id

Droppable(c) == OpenRecord(holdCall[c].id)

(* The attempt drops the record it opened, while it is still open. *)
Drop(c) ==
    /\ holdCall[c].pc = "drop"
    /\ holdRecord' = IF Droppable(c) THEN NoHoldRecord ELSE holdRecord
    /\ HoldAnswers(c, NoHold)
    /\ UNCHANGED <<hold, holdCut, holdUsed>>

-----------------------------------------------------------------------------
(* completeApiIdempotency, onlyOpen: stored; or stored, and the reply lost;  *)
(* or failed; or there was nothing to store on.                            *)
StoreOn(c, id, otherwise) ==
    LET n == holdCall[c].n IN
    /\ \/ /\ OpenRecord(id) /\ holdRecord' = [holdRecord EXCEPT !.hold = n]
          /\ \/ HoldAnswers(c, n) /\ UNCHANGED holdUsed
             \/ HoldFault /\ HoldTo(c, "readBack") /\ UNCHANGED holdAnswered
       \/ /\ HoldFault /\ HoldTo(c, "readBack") /\ UNCHANGED <<holdRecord, holdAnswered>>
       \/ /\ ~ OpenRecord(id) /\ HoldTo(c, otherwise)
          /\ UNCHANGED <<holdRecord, holdAnswered, holdUsed>>
    /\ UNCHANGED <<hold, holdCut>>

Store(c) == holdCall[c].pc = "store" /\ StoreOn(c, holdCall[c].id, "reopen")

Undoes(c, h) == holdCall' = [holdCall EXCEPT ![c].pc = "undo", ![c].gets = h]

(* The record was gone, or stored: open it again, for this request only. *)
Reopen(c) ==
    LET again == AgainId(holdCall[c].n)
        row == IF holdRecord = NoHoldRecord THEN Opened(again, holdCall[c].for) ELSE holdRecord
    IN /\ holdCall[c].pc = "reopen"
       /\ \/ /\ holdRecord' = row /\ UNCHANGED holdUsed
             /\ \/ /\ row.id = again
                   /\ holdCall' = [holdCall EXCEPT ![c].pc = "storeAgain", ![c].mine = @ \cup {again}]
                \/ row.for # holdCall[c].for /\ Undoes(c, NoHold)
                \/ row.id # again /\ row.for = holdCall[c].for /\ HoldTo(c, "readBack")
          \/ HoldFault /\ HoldTo(c, "readBack") /\ UNCHANGED holdRecord
       /\ UNCHANGED <<hold, holdAnswered, holdCut>>

StoreAgain(c) == holdCall[c].pc = "storeAgain" /\ StoreOn(c, AgainId(holdCall[c].n), "readBack")

(* Mutant of OnlyReplyLost: a result that is stored is another's. *)
OnlyReplyLostNever(c) == FALSE

(* A write of this attempt that committed and only lost its reply. *)
OnlyReplyLost(c) == holdRecord.id \in holdCall[c].mine /\ holdRecord.hold = holdCall[c].n

(* Whatever is stored now is the answer; a record that cannot be read leaves *)
(* the hold.                                                               *)
ReadBack(c) ==
    /\ holdCall[c].pc = "readBack"
    /\ \/ /\ HoldStored(c) /\ OnlyReplyLost(c)
          /\ HoldAnswers(c, holdCall[c].n) /\ UNCHANGED <<holdCut, holdUsed>>
       \/ /\ HoldStored(c) /\ ~ OnlyReplyLost(c)
          /\ Undoes(c, holdRecord.hold) /\ UNCHANGED <<holdAnswered, holdCut, holdUsed>>
       \/ /\ ~ HoldStored(c)
          /\ Undoes(c, NoHold) /\ UNCHANGED <<holdAnswered, holdCut, holdUsed>>
       \/ /\ HoldFault /\ holdCut' = TRUE
          /\ HoldAnswers(c, NoHold)
    /\ UNCHANGED <<holdRecord, hold>>

(* giveBack *)
Undo(c) ==
    /\ holdCall[c].pc = "undo"
    /\ \/ hold' = GivenBack(holdCall[c].n) /\ UNCHANGED <<holdCut, holdUsed>>
       \/ HoldFault /\ holdCut' = TRUE /\ UNCHANGED hold
    /\ HoldAnswers(c, holdCall[c].gets)
    /\ UNCHANGED holdRecord

-----------------------------------------------------------------------------
(* The process dies. *)
HoldDies(c) ==
    /\ holdCall[c].pc # "idle" /\ HoldFault
    /\ holdCut' = TRUE
    /\ holdCall' = [holdCall EXCEPT ![c] = HoldIdle]
    /\ UNCHANGED <<holdRecord, hold, holdAnswered>>

Lapse(n) ==
    /\ hold[n].status = "live"
    /\ hold' = [hold EXCEPT ![n].status = "lapsed"]
    /\ UNCHANGED <<holdRecord, holdCall, holdAnswered, holdCut, holdUsed>>

HoldNext ==
    \/ \E c \in HoldCalls :
        \/ \E r \in HoldTimes : HoldClaim(c, r)
        \/ Place(c) \/ Bind(c) \/ HoldRefused(c) \/ Drop(c)
        \/ Store(c) \/ Reopen(c) \/ StoreAgain(c) \/ ReadBack(c) \/ Undo(c)
        \/ HoldDies(c)
    \/ \E n \in Numbers : Lapse(n)

HoldSpec == HoldInit /\ [][HoldNext]_holdVars

-----------------------------------------------------------------------------
(* Properties. *)

HoldTypeOK ==
    /\ holdRecord \in HoldRecord
    /\ hold \in [Numbers -> [for : HoldTimes \cup {HoldNone},
                             status : {HoldNone, "live", "lapsed", "back"}]]
    /\ holdAnswered \subseteq Numbers /\ holdCut \in BOOLEAN

(* A hold handed out is never given back by the attempt that placed it, not  *)
(* when storing it only lost its reply, and not by a twin's clean-up.      *)
AnsweredHoldStands == \A n \in holdAnswered : hold[n].status # "back"

(* Once no attempt is running, and none was cut off, a hold that keeps a time *)
(* is the one the key's record answers with: nobody's time is held by an   *)
(* attempt that could not hand it out, nor by one whose record was dropped. *)
NoStrayHold ==
    holdCut \/ (\E c \in HoldCalls : holdCall[c].pc # "idle")
        \/ \A n \in Numbers : hold[n].status = "live" => holdRecord.hold = n
=============================================================================
