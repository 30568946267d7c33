------------------------------ MODULE EqualShare ------------------------------
(***************************************************************************)
(* A round robin team event set to equal distribution: each booking goes   *)
(* to the host with the fewest bookings of the event, and a host too far   *)
(* ahead of the least booked one is held back.  Requests look at loads and *)
(* calendars at once; the pick is made again where it is written, under    *)
(* the event's lock.  What a host's hours offer does not change.           *)
(***************************************************************************)
EXTENDS Naturals, FiniteSets

CONSTANTS
    ShareRequests,  \* bookings being made at once
    Hours,          \* for each host, by member id, the times its own hours offer
    Lead,           \* EQUAL_DISTRIBUTION_LEAD
    MaxShareOthers  \* bound on the hosts' other engagements

ASSUME LeadAssumption == Lead \in Nat \ {0}

(* Member ids are ordered, and so are times; 0 is no time. *)
ASSUME HoursAssumption ==
    /\ DOMAIN Hours \subseteq Nat
    /\ \A h \in DOMAIN Hours : Hours[h] \subseteq Nat \ {0}

VARIABLES
    given,    \* accepted bookings of the event: pairs of host and time
    other,    \* the hosts' other bookings, and holds on them
    shareReq  \* each request: its time, the hosts it found free

shareVars == <<given, other, shareReq>>

-----------------------------------------------------------------------------
Hosts == DOMAIN Hours
Times == UNION {Hours[h] : h \in Hosts}

NoTime == 0
ShareIdle == [pc |-> "idle", at |-> NoTime, free |-> {}]

ShareInit ==
    /\ given = {} /\ other = {}
    /\ shareReq = [p \in ShareRequests |-> ShareIdle]

-----------------------------------------------------------------------------
(* eventHostLoads: how many, and when the latest starts. *)
TimesOf(h) == {t \in Times : <<h, t>> \in given}
Load(h) == Cardinality(TimesOf(h))
Latest(h) == IF TimesOf(h) = {} THEN NoTime ELSE CHOOSE t \in TimesOf(h) : \A u \in TimesOf(h) : u <= t

(* Hosts whose configuration offers times at all: they alone set the floor. *)
Offering == {h \in Hosts : Hours[h] # {}}
Behind(h) == CHOOSE g \in Offering : \A f \in Offering : Load(g) <= Load(f)

(* equalShareHeldBack, hostsAheadOfEqualShare *)
HeldBack == {h \in Offering : Load(h) - Load(Behind(h)) >= Lead}

(* isFairerShare *)
Fairer(g, h) ==
    \/ Load(g) < Load(h)
    \/ Load(g) = Load(h) /\ Latest(g) < Latest(h)
    \/ Load(g) = Load(h) /\ Latest(g) = Latest(h) /\ g < h

(* selectEqualHost *)
EqualHost(candidates) == CHOOSE h \in candidates : \A g \in candidates : g = h \/ Fairer(h, g)

Busy(h, t) == <<h, t>> \in given \cup other
Covers(t) == {h \in Hosts : t \in Hours[h]}

-----------------------------------------------------------------------------
(* createTeamBooking: the time is one that a host not held back offers. *)
Probe(p, t) ==
    /\ shareReq[p].pc = "idle" /\ Covers(t) \ HeldBack # {}
    /\ shareReq' = [shareReq EXCEPT ![p] = [ShareIdle EXCEPT !.pc = "probed", !.at = t]]
    /\ UNCHANGED <<given, other>>

(* Hosts free at that time, held back or not; a host's own calendar may be   *)
(* busy, or unreadable, besides.                                           *)
ShareLook(p) ==
    LET t == shareReq[p].at IN
    /\ shareReq[p].pc = "probed"
    /\ \E free \in SUBSET {h \in Covers(t) : ~ Busy(h, t)} :
          shareReq' = [shareReq EXCEPT ![p] = IF free = {} THEN ShareIdle
                                    ELSE [@ EXCEPT !.pc = "write", !.free = free]]
    /\ UNCHANGED <<given, other>>

(* Mutant of Candidates: the hold-back before the lock is relied on. *)
CandidatesAsProbed(p) == shareReq[p].free

(* Held back again, from the loads as they are now. *)
Candidates(p) == shareReq[p].free \ HeldBack

(* insertEqualShareGuarded: under the event's lock, and the member's; a pick *)
(* that lost the time is not made again.                                   *)
WritePick(p) ==
    LET t == shareReq[p].at
        pick == EqualHost(Candidates(p))
    IN /\ shareReq[p].pc = "write"
       /\ given' = IF Candidates(p) = {} \/ Busy(pick, t) THEN given
                     ELSE given \cup {<<pick, t>>}
       /\ shareReq' = [shareReq EXCEPT ![p] = ShareIdle]
       /\ UNCHANGED other

-----------------------------------------------------------------------------
ShareCancel ==
    \E b \in given :
        /\ given' = given \ {b}
        /\ UNCHANGED <<other, shareReq>>

OtherEngagement ==
    \E h \in Hosts : \E t \in Hours[h] :
        /\ \/ ~ Busy(h, t) /\ Cardinality(other) < MaxShareOthers /\ other' = other \cup {<<h, t>>}
           \/ <<h, t>> \in other /\ other' = other \ {<<h, t>>}
        /\ UNCHANGED <<given, shareReq>>

ShareNext ==
    \/ \E p \in ShareRequests :
        \/ \E t \in Times : Probe(p, t)
        \/ ShareLook(p) \/ WritePick(p)
    \/ ShareCancel \/ OtherEngagement

ShareSpec == ShareInit /\ [][ShareNext]_shareVars

-----------------------------------------------------------------------------
(* Properties. *)

ShareTypeOK ==
    /\ given \subseteq Hosts \X Times /\ other \subseteq Hosts \X Times
    /\ given \cap other = {}
    /\ shareReq \in [ShareRequests -> [pc : {"idle", "probed", "write"}, at : Times \cup {NoTime},
                             free : SUBSET Hosts]]

(* No booking takes its host more than Lead ahead of the least booked one,   *)
(* though requests look at once and others book, or cancel, before they    *)
(* write; a cancellation may leave a host further ahead, and then it is    *)
(* given nothing.                                                          *)
NobodyTakenTooFarAhead ==
    [][\A b \in given' \ given : \A g \in Offering : Load(b[1])' <= Load(g)' + Lead]_shareVars
=============================================================================
