---------------------------- MODULE HostCalendar ----------------------------
(***************************************************************************)
(* What the booking store promises a host, with no requests, locks or      *)
(* transactions in it: a diary of meetings in which every entry is placed, *)
(* agreed, moved, replaced or dropped in one step, and a step that gives a *)
(* member a time finds that member free.  Bookings implements it.          *)
(***************************************************************************)
EXTENDS Integers

CONSTANTS Meetings, Members, Starts, Len

VARIABLE diary

State == {"blank", "requested", "agreed", "off"}

Entry == [state : State, hosts : SUBSET Members, start : Nat]

(* A request that waits for the host occupies its time as a meeting does. *)
Occupies(d, m) == d[m].state \in {"requested", "agreed"}

(* Half-open intervals [s, s + Len) and [t, t + Len). *)
Overlap(s, t) == s < t + Len /\ t < s + Len

Clash(d, a, b) ==
    /\ Occupies(d, a) /\ Occupies(d, b)
    /\ d[a].hosts \cap d[b].hosts # {}
    /\ Overlap(d[a].start, d[b].start)

(* The members of hosts are free at start, entries of except aside. *)
Free(hosts, start, except) ==
    \A m \in Meetings \ except :
        Occupies(diary, m) /\ diary[m].hosts \cap hosts # {}
            => ~ Overlap(diary[m].start, start)

Place(m) ==
    \E hosts \in SUBSET Members, start \in Starts, st \in {"requested", "agreed"} :
        /\ diary[m].state = "blank"
        /\ Free(hosts, start, {})
        /\ diary' = [diary EXCEPT ![m] = [state |-> st, hosts |-> hosts, start |-> start]]

Agree(m) ==
    /\ diary[m].state = "requested"
    /\ diary' = [diary EXCEPT ![m].state = "agreed"]

Move(m) ==
    \E start \in Starts :
        /\ diary[m].state = "agreed"
        /\ Free(diary[m].hosts, start, {m})
        /\ diary' = [diary EXCEPT ![m].start = start]

(* The meeting goes on as another entry, with the same people. *)
Replace(m, n) ==
    \E start \in Starts, st \in {"requested", "agreed"} :
        /\ m # n
        /\ Occupies(diary, m)
        /\ diary[n].state = "blank"
        /\ Free(diary[m].hosts, start, {m})
        /\ diary' = [diary EXCEPT ![m].state = "off",
                                  ![n] = [state |-> st, hosts |-> diary[m].hosts,
                                          start |-> start]]

Drop(m) ==
    /\ Occupies(diary, m)
    /\ diary' = [diary EXCEPT ![m].state = "off"]

(* No member is in two meetings at once. *)
Sound(d) == \A a, b \in Meetings : a # b => ~ Clash(d, a, b)

Init == diary \in [Meetings -> Entry] /\ Sound(diary)

Next ==
    \E m \in Meetings :
        \/ Place(m)
        \/ Agree(m)
        \/ Move(m)
        \/ Drop(m)
        \/ \E n \in Meetings : Replace(m, n)

Spec == Init /\ [][Next]_diary

NoDoubleBooking == Sound(diary)
=============================================================================
