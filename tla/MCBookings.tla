----------------------------- MODULE MCBookings -----------------------------
(* Small instances of Bookings: the events, the bookings there at the start, *)
(* and the symmetry of the requests and the people.                          *)
EXTENDS Bookings, TLC

Personal(m) == [kind |-> "personal", hosts |-> {m}, fixed |-> {}, seats |-> 1, gated |-> FALSE]
Gated(m) == [Personal(m) EXCEPT !.gated = TRUE]
Group(m, n) == [Personal(m) EXCEPT !.seats = n]
Collective(hosts) == [Personal(1) EXCEPT !.kind = "collective", !.hosts = hosts]
RoundRobin(hosts) == [Personal(1) EXCEPT !.kind = "round_robin", !.hosts = hosts]
Fixed(hosts, fixed) == [kind |-> "fixed_round_robin", hosts |-> hosts, fixed |-> fixed,
                        seats |-> 1, gated |-> FALSE]

(* A booking of event e at s. *)
Seed(e, s, status) ==
    [NoRow EXCEPT !.status = status, !.event = e, !.hosts = e.hosts, !.start = s,
                  !.org = CHOOSE m \in e.hosts : \A n \in e.hosts : m <= n]

OneHost == {1}
TwoHosts == {1, 2}

CohostEvents == {Personal(2), Collective({1, 2})}
LifecycleEvents == {Gated(1), Collective({1, 2})}
HoldEvents == {Personal(1), RoundRobin({1})}
GroupEvents == {Group(1, 2)}
KeyEvents == {Personal(1), RoundRobin({1})}
SqliteEvents == {Fixed({1, 2}, {1}), Gated(2)}
PendingEvents == {Gated(1)}

NoRows == {}
LifecycleRows == {Seed(Gated(1), 0, "pending"), Seed(Collective({1, 2}), 0, "accepted")}
OneCollective == {Seed(Collective({1, 2}), 0, "accepted")}
OnePersonal == {Seed(Personal(1), 0, "accepted")}
LockRows == {Seed(Fixed({1, 2}, {1}), 0, "accepted"), Seed(Gated(2), 0, "pending")}
OnePending == {Seed(Gated(1), 0, "pending")}

NoLinks == <<>>
GroupLinks == [l \in Links |-> Group(1, 2)]

RequestSymmetry == Permutations(Requests)
RequestPeopleSymmetry == Permutations(Requests) \cup Permutations(People)
=============================================================================
