------------------------------ MODULE KeyedBooking ------------------------------
(***************************************************************************)
(* book_meeting, the MCP tool: calls made with one idempotency key, at once *)
(* (a retry after a timeout, a client that sends twice) or one after the   *)
(* other.  Each claims the key's record, looks for a booking already made  *)
(* under the key, books, and stores what it answers.  The booking core is  *)
(* the module Bookings; here it books the time, refuses it, or cannot tell. *)
(***************************************************************************)
EXTENDS Naturals, FiniteSets

CONSTANTS
    BookCalls,  \* the attempts that may run at once
    BookTimes,  \* the arguments a call is made with: the times it wants to book
    MaxBookCalls, MaxSweeps, MaxBookOthers  \* bounds

VARIABLES
    bookRecord,    \* the api_idempotency row under the key
    underKey,      \* the booking made under the key: its time, or none
    taken,         \* the times other bookings take
    bookCall,      \* each attempt
    bookAnswered,  \* what was answered, and whether a booking was there when the call began
    bookCut,       \* whether an attempt was cut off, or its record swept, midway
    bookUsed

bookVars == <<bookRecord, underKey, taken, bookCall, bookAnswered, bookCut, bookUsed>>

-----------------------------------------------------------------------------
None == "none"
NoRecord == [id |-> 0, for |-> None, status |-> None]

Record == [id : 0 .. MaxBookCalls, for : BookTimes \cup {None},
           status : {None, "open", "booked", "refused"}]

BookIdle == [pc |-> "idle", for |-> None, id |-> 0, seen |-> None, late |-> FALSE]

BookInit ==
    /\ bookRecord = NoRecord /\ underKey = None /\ taken = {}
    /\ bookCall = [c \in BookCalls |-> BookIdle]
    /\ bookAnswered = {} /\ bookCut = FALSE
    /\ bookUsed = [calls |-> 0, sweeps |-> 0, others |-> 0]

BookTo(c, pc) == bookCall' = [bookCall EXCEPT ![c].pc = pc]

Answers(c, what) ==
    /\ bookAnswered' = bookAnswered \cup
           {[for |-> bookCall[c].for, what |-> what, late |-> bookCall[c].late]}
    /\ bookCall' = [bookCall EXCEPT ![c] = BookIdle]

-----------------------------------------------------------------------------
(* claimApiIdempotency: opens the record, or reads the one there is. *)
BookClaim(c, r) ==
    LET opened == [id |-> bookUsed.calls + 1, for |-> r, status |-> "open"]
        row == IF bookRecord = NoRecord THEN opened ELSE bookRecord
    IN /\ bookCall[c].pc = "idle" /\ bookUsed.calls < MaxBookCalls
       /\ bookUsed' = [bookUsed EXCEPT !.calls = @ + 1]
       /\ bookRecord' = row
       /\ bookCall' = [bookCall EXCEPT ![c] = [pc |-> "claimed", for |-> r, id |-> row.id,
                                       seen |-> IF row.for = r THEN row.status ELSE "reused",
                                       late |-> underKey = r]]
       /\ UNCHANGED <<underKey, taken, bookAnswered, bookCut>>

(* Mutant of FromRecord: a stored refusal is answered as soon as it is read. *)
FromRecordAtOnce(c) == bookCall[c].seen \in {"reused", "booked", "refused"}

(* What the record answers by itself. *)
FromRecord(c) == bookCall[c].seen \in {"reused", "booked"}

Replay(c) ==
    /\ bookCall[c].pc = "claimed"
    /\ IF FromRecord(c) THEN Answers(c, bookCall[c].seen)
       ELSE BookTo(c, "look") /\ UNCHANGED bookAnswered
    /\ UNCHANGED <<bookRecord, underKey, taken, bookUsed, bookCut>>

(* bookedUnderKey: answers ahead of a refusal stored. *)
BookLook(c) ==
    /\ bookCall[c].pc = "look"
    /\ IF underKey = bookCall[c].for
       THEN BookTo(c, "finish") /\ UNCHANGED bookAnswered
       ELSE IF underKey # None THEN Answers(c, "reused")
       ELSE IF bookCall[c].seen = "refused" THEN Answers(c, "refused")
       ELSE BookTo(c, "book") /\ UNCHANGED bookAnswered
    /\ UNCHANGED <<bookRecord, underKey, taken, bookUsed, bookCut>>

(* The core: the booking this key made already, or the time, or a refusal. A *)
(* booking under the key for another time stops it on the unique index; a  *)
(* calendar that cannot be read, or a time held, is not remembered.        *)
Book(c) ==
    LET time == bookCall[c].for IN
    /\ bookCall[c].pc = "book"
    /\ \/ /\ underKey = time
          /\ BookTo(c, "finish")
          /\ UNCHANGED <<underKey, bookAnswered>>
       \/ /\ underKey = None /\ time \notin taken
          /\ underKey' = time /\ BookTo(c, "finish") /\ UNCHANGED bookAnswered
       \/ /\ time \in taken \cup {underKey}
          /\ BookTo(c, "refused") /\ UNCHANGED <<underKey, bookAnswered>>
       \/ /\ underKey \notin {None, time}
          /\ BookTo(c, "failed") /\ UNCHANGED <<underKey, bookAnswered>>
       \/ BookTo(c, "failed") /\ UNCHANGED <<underKey, bookAnswered>>
       \/ Answers(c, "error") /\ UNCHANGED underKey
    /\ UNCHANGED <<bookRecord, taken, bookUsed, bookCut>>

(* Refused, or failed: a twin's booking under the key answers instead. *)
LookAgain(c) ==
    /\ bookCall[c].pc \in {"refused", "failed"}
    /\ IF underKey = bookCall[c].for
       THEN BookTo(c, "finish") /\ UNCHANGED bookAnswered
       ELSE IF underKey # None THEN Answers(c, "reused")
       ELSE IF bookCall[c].pc = "failed" THEN Answers(c, "error")
       ELSE BookTo(c, "store") /\ UNCHANGED bookAnswered
    /\ UNCHANGED <<bookRecord, underKey, taken, bookUsed, bookCut>>

(* completeApiIdempotency, onlyOpen *)
OnlyOpen(c) == bookRecord.id = bookCall[c].id /\ bookRecord.status = "open"

StoreRefusal(c) ==
    /\ bookCall[c].pc = "store"
    /\ bookRecord' = IF OnlyOpen(c) THEN [bookRecord EXCEPT !.status = "refused"] ELSE bookRecord
    /\ Answers(c, "refused")
    /\ UNCHANGED <<underKey, taken, bookUsed, bookCut>>

(* Mutant of Replaceable: a success too is stored on an open record only. *)
ReplaceableOpen(c) == bookRecord.id = bookCall[c].id /\ bookRecord.status = "open"

(* completeApiIdempotency, replaceRefusal *)
Replaceable(c) == bookRecord.id = bookCall[c].id /\ bookRecord.status # "booked"

(* finish *)
Finish(c) ==
    /\ bookCall[c].pc = "finish"
    /\ bookRecord' = IF Replaceable(c)
                 THEN [bookRecord EXCEPT !.status = "booked"] ELSE bookRecord
    /\ Answers(c, "booked")
    /\ UNCHANGED <<underKey, taken, bookUsed, bookCut>>

(* The process dies, or the store fails. *)
BookDies(c) ==
    /\ bookCall[c].pc # "idle"
    /\ bookCut' = TRUE
    /\ bookCall' = [bookCall EXCEPT ![c] = BookIdle]
    /\ UNCHANGED <<bookRecord, underKey, taken, bookAnswered, bookUsed>>

(* A day later a record is swept; other bookings come and go. *)
Sweep ==
    /\ bookRecord # NoRecord /\ bookUsed.sweeps < MaxSweeps
    /\ bookRecord' = NoRecord
    /\ bookUsed' = [bookUsed EXCEPT !.sweeps = @ + 1]
    /\ bookCut' = (bookCut \/ \E c \in BookCalls : bookCall[c].pc # "idle")
    /\ UNCHANGED <<underKey, taken, bookCall, bookAnswered>>

OtherBooking(r) ==
    /\ bookUsed.others < MaxBookOthers
    /\ bookUsed' = [bookUsed EXCEPT !.others = @ + 1]
    /\ \/ r \in taken /\ taken' = taken \ {r}
       \/ r \notin taken /\ underKey # r /\ taken' = taken \cup {r}
    /\ UNCHANGED <<bookRecord, underKey, bookCall, bookAnswered, bookCut>>

BookNext ==
    \/ \E c \in BookCalls :
        \/ \E r \in BookTimes : BookClaim(c, r)
        \/ Replay(c) \/ BookLook(c) \/ Book(c) \/ LookAgain(c) \/ StoreRefusal(c) \/ Finish(c)
        \/ BookDies(c)
    \/ Sweep
    \/ \E r \in BookTimes : OtherBooking(r)

BookSpec == BookInit /\ [][BookNext]_bookVars

-----------------------------------------------------------------------------
(* Properties. *)

BookTypeOK ==
    /\ bookRecord \in Record /\ underKey \in BookTimes \cup {None} /\ taken \subseteq BookTimes
    /\ bookCut \in BOOLEAN
    /\ bookAnswered \subseteq [for : BookTimes, late : BOOLEAN,
                           what : {"booked", "refused", "reused", "error"}]

(* Once a booking is made under a key, a call with that key and those        *)
(* arguments is never again told that the time is refused: the agent would *)
(* book a second time.  Whatever refusals calls running at once stored, and *)
(* wherever one of them died.                                             *)
NoFalseRefusal == \A a \in bookAnswered : a.late => a.what # "refused"

(* Once no call is running, and none was cut off, the record says what     *)
(* happened: a refusal stored does not stand against a booking made, nor a success     *)
(* without one, in whatever order the calls at once stored theirs.         *)
RecordTellsTheTruth ==
    bookCut \/ (\E c \in BookCalls : bookCall[c].pc # "idle")
        \/ /\ bookRecord.status = "refused" => underKey # bookRecord.for
           /\ bookRecord.status = "booked" => underKey = bookRecord.for
=============================================================================
