----------------------------- MODULE ServiceProofs -----------------------------
(***************************************************************************)
(* Proofs about the services beside the bookings: EqualShare, for any       *)
(* requests, hosts, hours and lead; WebSession, for any tabs, token lives  *)
(* and number of sign-ins; BusyCache, for any connections, times and sizes; *)
(* OAuth, for any requests, tokens, grants and deaths; and the two writes  *)
(* an MCP call makes under an idempotency key, KeyedBooking and KeyedHold,  *)
(* for any calls, attempts, times and bounds.                              *)
(***************************************************************************)
EXTENDS EqualShare, WebSession, BusyCache, OAuth, KeyedBooking, KeyedHold,
    FiniteSetTheorems, SequenceTheorems, WellFoundedInduction, TLAPS

(* A set of numbers has a least one. *)
LEMMA NatMin ==
  ASSUME NEW T, T \subseteq Nat, T # {}
  PROVE  \E x \in T : \A y \in T : x <= y
<1>1. PICK x \in T : \A y \in T : ~ (<<y, x>> \in OpToRel(<, Nat))
  BY NatLessThanWellFounded, WFMin
<1>2. \A y \in T : ~ (y < x)
  BY <1>1 DEF OpToRel
<1> QED
  BY <1>2

(* A finite set of numbers has a greatest: a smallest set without one would *)
(* have one still after it lost an element.                                *)
LEMMA HasGreatest ==
  ASSUME NEW S, S \subseteq Nat, S # {}, IsFiniteSet(S)
  PROVE  \E x \in S : \A y \in S : y <= x
<1> DEFINE Greatest(U) == \E x \in U : \A y \in U : y <= x
<1> DEFINE Bad == {U \in SUBSET S : U # {} /\ ~ Greatest(U)}
<1> DEFINE Sizes == {Cardinality(U) : U \in Bad}
<1>1. \A U \in SUBSET S : IsFiniteSet(U) /\ Cardinality(U) \in Nat
  BY FS_Subset, FS_CardinalityType
<1>2. SUFFICES ASSUME Bad # {} PROVE FALSE
  OBVIOUS
<1>3. Sizes \subseteq Nat /\ Sizes # {}
  BY <1>1, <1>2
<1>4. PICK n \in Sizes : \A m \in Sizes : n <= m
  BY <1>3, NatMin
<1>5. PICK U \in Bad : n = Cardinality(U)
  BY <1>4
<1>6. PICK u \in U : TRUE
  BY <1>5
<1> DEFINE V == U \ {u}
<1>7. IsFiniteSet(V) /\ Cardinality(V) = n - 1 /\ n \in Nat /\ V \in SUBSET S
  BY <1>1, <1>3, <1>5, <1>6, FS_RemoveElement
<1>8. V \notin Bad
  <2>1. V \in Bad => n - 1 \in Sizes
    BY <1>7
  <2> QED BY <2>1, <1>4, <1>7
<1>9. Greatest(U)
  <2>1. CASE V = {}
    <3>1. \A y \in U : y = u
      BY <2>1
    <3> QED
      BY <3>1, <1>5, <1>6
  <2>2. CASE Greatest(V)
    <3>1. PICK x \in V : \A y \in V : y <= x
      BY <2>2
    <3>2. x \in Nat /\ u \in Nat /\ x \in U /\ \A y \in U : y = u \/ y \in V
      BY <1>5, <1>6, <3>1
    <3>3. CASE u <= x
      <4>1. \A y \in U : y <= x
        BY <3>1, <3>2, <3>3
      <4> QED BY <4>1, <3>2
    <3>4. CASE x < u
      <4>1. \A y \in U : y \in Nat
        BY <1>5
      <4>2. \A y \in U : y <= u
        BY <3>1, <3>2, <3>4, <4>1
      <4> QED BY <4>2, <1>6
    <3> QED BY <3>2, <3>3, <3>4
  <2> QED BY <1>7, <1>8, <2>1, <2>2
<1> QED BY <1>5, <1>9

-----------------------------------------------------------------------------
(* What holds between the steps: who is free was found among the hosts whose *)
(* hours cover the time, and a host's bookings can be counted.             *)
Found(q) ==
    /\ q.pc \in {"probed", "write"} => q.at \in Times
    /\ q.pc = "write" => q.free \subseteq Covers(q.at)

Counted == \A h \in Hosts : IsFiniteSet(TimesOf(h))

ShareInv == ShareTypeOK /\ Counted /\ \A p \in ShareRequests : Found(shareReq[p])

LEMMA TimesAreNumbers == Times \subseteq Nat \ {0}
  BY HoursAssumption DEF Times, Hosts

(* Loads and latest times are numbers. *)
LEMMA LoadsAreNumbers ==
  ASSUME Counted, NEW h \in Hosts
  PROVE  Load(h) \in Nat /\ Latest(h) \in Nat
<1>1. IsFiniteSet(TimesOf(h)) /\ TimesOf(h) \subseteq Nat
  BY TimesAreNumbers DEF Counted, TimesOf
<1>2. Load(h) \in Nat
  BY <1>1, FS_CardinalityType DEF Load
<1>3. CASE TimesOf(h) = {}
  BY <1>2, <1>3 DEF Latest, NoTime
<1>4. CASE TimesOf(h) # {}
  <2>1. \E t \in TimesOf(h) : \A u \in TimesOf(h) : u <= t
    BY <1>1, <1>4, HasGreatest
  <2>2. Latest(h) \in TimesOf(h)
    BY <2>1, <1>4 DEF Latest
  <2> QED BY <1>1, <1>2, <2>2
<1> QED BY <1>3, <1>4

(* The least booked host is one, and nobody has fewer. *)
LEMMA BehindIsLeast ==
  ASSUME Counted, NEW g \in Offering
  PROVE  Behind(g) \in Offering /\ Load(Behind(g)) <= Load(g)
<1> DEFINE Loads == {Load(f) : f \in Offering}
<1>1. Offering \subseteq Hosts
  BY DEF Offering
<1>2. Loads \subseteq Nat /\ Loads # {}
  BY <1>1, LoadsAreNumbers
<1>3. PICK n \in Loads : \A m \in Loads : n <= m
  BY <1>2, NatMin
<1>4. \E f \in Offering : \A k \in Offering : Load(f) <= Load(k)
  BY <1>3
<1> QED BY <1>4 DEF Behind

(* The pick is one of the candidates: least load, then least recent, then id. *)
LEMMA PickIsCandidate ==
  ASSUME Counted, NEW C, C \subseteq Hosts, C # {}
  PROVE  EqualHost(C) \in C
<1>1. \A h \in C : Load(h) \in Nat /\ Latest(h) \in Nat /\ h \in Nat
  BY LoadsAreNumbers, HoursAssumption DEF Hosts
<1> DEFINE Loads == {Load(h) : h \in C}
<1>2. PICK n \in Loads : \A m \in Loads : n <= m
  <2>1. Loads \subseteq Nat /\ Loads # {}
    BY <1>1
  <2> QED BY <2>1, NatMin
<1> DEFINE D == {h \in C : Load(h) = n}
<1> DEFINE Lasts == {Latest(h) : h \in D}
<1>3. PICK l \in Lasts : \A m \in Lasts : l <= m
  <2>1. Lasts \subseteq Nat /\ Lasts # {}
    BY <1>1, <1>2
  <2> QED BY <2>1, NatMin
<1> DEFINE E == {h \in D : Latest(h) = l}
<1>4. PICK h \in E : \A g \in E : h <= g
  <2>1. E \subseteq Nat /\ E # {}
    BY <1>1, <1>3
  <2> QED BY <2>1, NatMin
<1>5. \A g \in C : g = h \/ Fairer(h, g)
  <2> TAKE g \in C
  <2>1. Load(h) = n /\ Latest(h) = l /\ h \in C
    BY <1>4
  <2>2. n <= Load(g)
    BY <1>2
  <2>3. Load(g) = n => l <= Latest(g)
    BY <1>3
  <2>4. Load(g) = n /\ Latest(g) = l => h <= g
    BY <1>4
  <2> QED BY <1>1, <2>1, <2>2, <2>3, <2>4 DEF Fairer
<1>6. \E k \in C : \A g \in C : g = k \/ Fairer(k, g)
  BY <1>4, <1>5
<1> QED BY <1>6 DEF EqualHost

-----------------------------------------------------------------------------
(* A booking made is one more of its host, and of nobody else. *)
LEMMA OneBookingMore ==
  ASSUME Counted, NEW g \in Hosts, NEW t \in Times, given' = given \cup {<<g, t>>},
         NEW h \in Hosts
  PROVE  /\ IsFiniteSet(TimesOf(h)')
         /\ Load(h)' = IF h = g /\ t \notin TimesOf(h) THEN Load(h) + 1 ELSE Load(h)
<1>1. CASE h = g
  <2>1. TimesOf(h)' = TimesOf(h) \cup {t}
    BY <1>1 DEF TimesOf
  <2> QED BY <1>1, <2>1, FS_AddElement DEF Counted, Load
<1>2. CASE h # g
  <2>1. TimesOf(h)' = TimesOf(h)
    BY <1>2 DEF TimesOf
  <2> QED BY <1>2, <2>1 DEF Counted, Load
<1> QED BY <1>1, <1>2

LEMMA ShareInitInv == ShareInit => ShareInv
<1> SUFFICES ASSUME ShareInit PROVE ShareInv
  OBVIOUS
<1>1. ShareTypeOK
  BY DEF ShareInit, ShareTypeOK, ShareIdle, NoTime
<1>2. Counted
  <2>1. \A h \in Hosts : TimesOf(h) = {}
    BY DEF ShareInit, TimesOf
  <2> QED BY <2>1, FS_EmptySet DEF Counted
<1>3. \A p \in ShareRequests : Found(shareReq[p])
  BY DEF ShareInit, Found, ShareIdle
<1> QED BY <1>1, <1>2, <1>3 DEF ShareInv

(* What a write picks: a host whose hours cover the time, not held back. *)
LEMMA Picked ==
  ASSUME ShareInv, NEW p \in ShareRequests, shareReq[p].pc = "write", Candidates(p) # {}
  PROVE  /\ EqualHost(Candidates(p)) \in Offering \ HeldBack
         /\ shareReq[p].at \in Times
<1>1. shareReq[p].at \in Times /\ shareReq[p].free \subseteq Covers(shareReq[p].at)
  BY DEF ShareInv, Found
<1>2. Candidates(p) \subseteq Hosts
  BY <1>1 DEF Candidates, Covers
<1>3. EqualHost(Candidates(p)) \in Candidates(p)
  BY <1>2, PickIsCandidate DEF ShareInv
<1> QED BY <1>1, <1>3 DEF Candidates, Covers, Offering

LEMMA ShareNextInv == ShareInv /\ [ShareNext]_shareVars => ShareInv'
<1> SUFFICES ASSUME ShareInv, [ShareNext]_shareVars PROVE ShareInv'
  OBVIOUS
<1> USE DEF ShareInv
<1>1. CASE UNCHANGED shareVars
  BY <1>1 DEF shareVars, ShareTypeOK, Counted, TimesOf, Found, Covers
<1>2. ASSUME NEW p \in ShareRequests, NEW t \in Times, Probe(p, t) PROVE ShareInv'
  <2>1. ShareTypeOK'
    BY <1>2 DEF Probe, ShareTypeOK, ShareIdle
  <2>2. Counted'
    BY <1>2 DEF Probe, Counted, TimesOf
  <2>3. \A q \in ShareRequests : Found(shareReq'[q])
    BY <1>2 DEF Probe, ShareTypeOK, Found, ShareIdle
  <2> QED BY <2>1, <2>2, <2>3 DEF Found, Covers
<1>3. ASSUME NEW p \in ShareRequests, ShareLook(p) PROVE ShareInv'
  <2>1. PICK free \in SUBSET {h \in Covers(shareReq[p].at) : ~ Busy(h, shareReq[p].at)} :
          shareReq' = [shareReq EXCEPT ![p] = IF free = {} THEN ShareIdle
                                    ELSE [@ EXCEPT !.pc = "write", !.free = free]]
    BY <1>3 DEF ShareLook
  <2>2. free \subseteq Covers(shareReq[p].at) /\ Covers(shareReq[p].at) \subseteq Hosts
    BY DEF Covers
  <2>3. ShareTypeOK'
    <3>1. CASE free = {}
      BY <1>3, <2>1, <3>1 DEF ShareLook, ShareTypeOK, ShareIdle, NoTime
    <3>2. CASE free # {}
      <4>1. shareReq' = [shareReq EXCEPT ![p] = [shareReq[p] EXCEPT !.pc = "write", !.free = free]]
        BY <2>1, <3>2
      <4>2. given' = given /\ other' = other
        BY <1>3 DEF ShareLook
      <4> QED BY <2>2, <4>1, <4>2 DEF ShareTypeOK
    <3> QED BY <3>1, <3>2
  <2>4. Counted'
    BY <1>3 DEF ShareLook, Counted, TimesOf
  <2>5. \A q \in ShareRequests : Found(shareReq'[q])
    BY <1>3, <2>1, <2>2 DEF ShareLook, ShareTypeOK, Found, ShareIdle
  <2> QED BY <2>3, <2>4, <2>5 DEF Found, Covers
<1>4. ASSUME NEW p \in ShareRequests, WritePick(p) PROVE ShareInv'
  <2> DEFINE pick == EqualHost(Candidates(p))
  <2>1. shareReq' = [shareReq EXCEPT ![p] = ShareIdle] /\ other' = other /\ shareReq[p].pc = "write"
    BY <1>4 DEF WritePick
  <2>2. \A q \in ShareRequests : Found(shareReq'[q])
    BY <2>1 DEF ShareTypeOK, Found, ShareIdle
  <2>3. CASE given' = given
    <3>1. ShareTypeOK'
      BY <2>1, <2>3 DEF ShareTypeOK, ShareIdle, NoTime
    <3>2. Counted'
      BY <2>3 DEF Counted, TimesOf
    <3> QED BY <3>1, <3>2, <2>2 DEF Found, Covers
  <2>4. CASE given' # given
    <3>1. /\ Candidates(p) # {} /\ ~ Busy(pick, shareReq[p].at)
          /\ given' = given \cup {<<pick, shareReq[p].at>>}
      BY <1>4, <2>4 DEF WritePick
    <3>2. pick \in Hosts /\ shareReq[p].at \in Times
      BY <2>1, <3>1, Picked DEF Offering
    <3>3. ShareTypeOK'
      BY <2>1, <3>1, <3>2 DEF ShareTypeOK, ShareIdle, NoTime, Busy
    <3>4. Counted'
      BY <3>1, <3>2, OneBookingMore DEF Counted
    <3> QED BY <3>3, <3>4, <2>2 DEF Found, Covers
  <2> QED BY <2>3, <2>4
<1>5. CASE ShareCancel
  <2>1. PICK b \in given : given' = given \ {b}
    BY <1>5 DEF ShareCancel
  <2>2. ShareTypeOK'
    BY <1>5, <2>1 DEF ShareCancel, ShareTypeOK
  <2>3. \A h \in Hosts : TimesOf(h)' \in SUBSET TimesOf(h)
    BY <2>1 DEF TimesOf
  <2>4. Counted'
    BY <2>3, FS_Subset DEF Counted
  <2> QED BY <1>5, <2>2, <2>4 DEF ShareCancel, Found, Covers
<1>6. CASE OtherEngagement
  <2>1. PICK h \in Hosts : \E t \in Hours[h] :
           \/ ~ Busy(h, t) /\ other' = other \cup {<<h, t>>}
           \/ other' = other \ {<<h, t>>}
    BY <1>6 DEF OtherEngagement
  <2>2. given' = given /\ shareReq' = shareReq
    BY <1>6 DEF OtherEngagement
  <2>3. Hours[h] \subseteq Times
    BY DEF Times
  <2>4. ShareTypeOK'
    BY <2>1, <2>2, <2>3 DEF ShareTypeOK, Busy
  <2>5. Counted'
    BY <2>2 DEF Counted, TimesOf
  <2> QED BY <2>2, <2>4, <2>5 DEF Found, Covers
<1> QED BY <1>1, <1>2, <1>3, <1>4, <1>5, <1>6 DEF ShareNext

(* Types, and what a request found, hold throughout: EqualShare.TypeOK. *)
THEOREM Inductive == ShareSpec => []ShareInv
  BY ShareInitInv, ShareNextInv, PTL DEF ShareSpec

(* What is given and held is of the hosts and times there are, and nobody has *)
(* both at once: EqualShare's type invariant.                              *)
THEOREM ShareTypes == ShareSpec => []ShareTypeOK
<1>1. ShareInv => ShareTypeOK
  BY DEF ShareInv
<1> QED
  BY <1>1, Inductive, PTL

(* Only a write books, and it books a host not held back. *)
LEMMA StepIsFair ==
  ASSUME ShareInv, [ShareNext]_shareVars
  PROVE  [\A b \in given' \ given : \A g \in Offering : Load(b[1])' <= Load(g)' + Lead]_shareVars
<1> SUFFICES ASSUME NEW b \in given' \ given, NEW g \in Offering
             PROVE  Load(b[1])' <= Load(g)' + Lead
  OBVIOUS
<1>1. PICK p \in ShareRequests : WritePick(p)
  BY DEF ShareNext, shareVars, Probe, ShareLook, ShareCancel, OtherEngagement
<1> DEFINE k == b[1]
<1>2. /\ shareReq[p].pc = "write" /\ Candidates(p) # {} /\ k = EqualHost(Candidates(p))
      /\ given' = given \cup {<<k, shareReq[p].at>>}
  BY <1>1 DEF WritePick
<1>3. k \in Offering \ HeldBack /\ shareReq[p].at \in Times
  BY <1>2, Picked
<1>4. Counted /\ Offering \subseteq Hosts
  BY DEF ShareInv, Offering
<1>5. Load(k) \in Nat /\ Load(g) \in Nat
  BY <1>3, <1>4, LoadsAreNumbers
<1>6. Behind(k) \in Offering /\ Load(Behind(k)) <= Load(g) /\ Load(Behind(k)) \in Nat
  <2>1. Behind(k) = Behind(g)
    BY DEF Behind
  <2> QED BY <2>1, <1>4, BehindIsLeast, LoadsAreNumbers
<1>7. Load(k) < Load(Behind(k)) + Lead
  BY <1>3, <1>5, <1>6, LeadAssumption DEF HeldBack
<1>8. Load(k)' \in {Load(k), Load(k) + 1} /\ Load(g)' \in {Load(g), Load(g) + 1}
  BY <1>2, <1>3, <1>4, OneBookingMore
<1> HIDE DEF k
<1>9. Load(k)' <= Load(g)' + Lead
  BY <1>5, <1>6, <1>7, <1>8, LeadAssumption
<1> QED BY <1>9 DEF k

(* Nobody is taken further ahead of the least booked host than the lead,   *)
(* whatever requests, cancellations and engagements run between.           *)
THEOREM EqualShareKept == ShareSpec => NobodyTakenTooFarAhead
  BY Inductive, StepIsFair, PTL DEF ShareSpec, NobodyTakenTooFarAhead

-----------------------------------------------------------------------------
(* WebSession. *)

(* A tab that ends a session has met a reason to, and the session it was     *)
(* refused with is one that was minted.                                    *)
MetRefusal(p) ==
    tab[p].pc \in {"inPlace", "refresh", "logout"} => tab[p].jar \in 1 .. Len(pair)
RefusedForCause(p) ==
    tab[p].pc \in {"inPlace", "refresh"} => broken # {} \/ pair[tab[p].jar].exp <= webNow
LeavesForCause(p) ==
    tab[p].pc = "logout" => broken # {} \/ Dead(tab[p].jar) \/ tab[p].other
SetsWhatExists(p) == tab[p].set \in (0 .. Len(pair)) \cup {KeepsCookie}

TabRight(p) == MetRefusal(p) /\ RefusedForCause(p) /\ LeavesForCause(p) /\ SetsWhatExists(p)

WebInv ==
    /\ WebTypeOK
    /\ cookie \in 0 .. Len(pair)
    /\ \A p \in Tabs : TabRight(p)

(* What only ever grows: a refresh token once spent stays so. *)
PairsGrow ==
    /\ pair' \in Seq(TokenPair) /\ Len(pair) <= Len(pair') /\ Len(pair') <= MaxPairs
    /\ \A t \in 1 .. Len(pair) :
        /\ pair'[t].session = pair[t].session /\ pair'[t].exp = pair[t].exp
        /\ pair[t].spent = NotSpent \/ pair'[t].spent = pair[t].spent

WebGrows ==
    /\ PairsGrow
    /\ broken' = broken /\ revoked \subseteq revoked' /\ revoked' \subseteq 1 .. MaxSessions
    /\ webNow' \in 0 .. MaxWebTime /\ webNow <= webNow'

LEMMA PairIs ==
  ASSUME WebTypeOK, NEW t \in 1 .. Len(pair)
  PROVE  pair[t].session \in 1 .. MaxSessions /\ pair[t].exp \in Nat
         /\ pair[t].spent \in Nat /\ pair[t].spent <= NotSpent
<1>1. pair[t] \in TokenPair
  BY DEF WebTypeOK
<1> QED
  BY <1>1, WebTimesAssumption DEF TokenPair, NotSpent

LEMMA PairsStay ==
  ASSUME WebTypeOK, UNCHANGED pair
  PROVE  PairsGrow
BY WebTimesAssumption DEF WebTypeOK, PairsGrow

LEMMA MintedPair ==
  ASSUME WebTypeOK, NEW s \in 1 .. MaxSessions
  PROVE  Minted(s) \in TokenPair
<1>1. MintedLife \in Nat
  BY WebTimesAssumption DEF MintedLife
<1> QED
  BY <1>1, WebTimesAssumption DEF WebTypeOK, Minted, TokenPair, NotSpent

LEMMA PairAppended ==
  ASSUME WebTypeOK, NEW s \in 1 .. MaxSessions, Len(pair) < MaxPairs,
         NEW old \in Seq(TokenPair), Len(old) = Len(pair),
         \A t \in 1 .. Len(pair) :
            /\ old[t].session = pair[t].session /\ old[t].exp = pair[t].exp
            /\ pair[t].spent = NotSpent \/ old[t].spent = pair[t].spent,
         pair' = Append(old, Minted(s))
  PROVE  PairsGrow /\ Len(pair') = Len(pair) + 1
<1>1. Minted(s) \in TokenPair
  BY MintedPair
<1> DEFINE m == Minted(s)
<1> HIDE DEF m
<1>2. m \in TokenPair /\ pair' = Append(old, m)
  BY <1>1 DEF m
<1>3. Len(pair) \in Nat /\ MaxPairs \in Nat
  BY WebTimesAssumption DEF WebTypeOK
<1>4. pair' \in Seq(TokenPair) /\ Len(pair') = Len(old) + 1
  BY <1>2
<1>5. \A t \in 1 .. Len(pair) : pair'[t] = old[t]
  BY <1>2, <1>3
<1> QED
  BY <1>3, <1>4, <1>5 DEF PairsGrow

LEMMA SpendGrows ==
  ASSUME WebTypeOK, NEW t \in 1 .. Len(pair), Spend(t)
  PROVE  PairsGrow /\ Len(pair') = Len(pair) + 1
<1> DEFINE spent == IF pair[t].spent = NotSpent THEN webNow ELSE pair[t].spent
<1> DEFINE old == [pair EXCEPT ![t].spent = spent]
<1>1. pair' = Append(old, Minted(pair[t].session)) /\ Len(pair) < MaxPairs
  BY DEF Spend
<1>2. pair \in Seq(TokenPair) /\ pair[t] \in TokenPair
  BY DEF WebTypeOK
<1>3. spent \in 0 .. NotSpent
  <2>1. pair[t].spent \in 0 .. NotSpent
    BY <1>2 DEF TokenPair
  <2>2. webNow \in 0 .. NotSpent
    BY WebTimesAssumption DEF WebTypeOK, NotSpent
  <2> QED BY <2>1, <2>2
<1>4. [pair[t] EXCEPT !.spent = spent] \in TokenPair
  BY <1>2, <1>3 DEF TokenPair
<1>5. old \in Seq(TokenPair) /\ Len(old) = Len(pair)
  BY <1>2, <1>4
<1>6. \A u \in 1 .. Len(pair) :
        /\ old[u].session = pair[u].session /\ old[u].exp = pair[u].exp
        /\ pair[u].spent = NotSpent \/ old[u].spent = pair[u].spent
  <2> SUFFICES ASSUME NEW u \in 1 .. Len(pair)
               PROVE  /\ old[u].session = pair[u].session /\ old[u].exp = pair[u].exp
                      /\ pair[u].spent = NotSpent \/ old[u].spent = pair[u].spent
    OBVIOUS
  <2>1. pair[u] \in TokenPair
    BY <1>2
  <2>2. CASE u = t
    BY <1>2, <2>1, <2>2 DEF TokenPair
  <2>3. CASE u # t
    BY <1>2, <2>1, <2>3
  <2> QED BY <2>2, <2>3
<1>7. pair[t].session \in 1 .. MaxSessions
  BY <1>2 DEF TokenPair
<1> HIDE DEF old
<1> QED
  BY <1>1, <1>5, <1>6, <1>7, PairAppended

LEMMA UpstreamGrows ==
  ASSUME WebInv, NEW t \in 0 .. Len(pair), NEW outcome, RefreshUpstream(t, outcome)
  PROVE  PairsGrow /\ (outcome = "refreshed" => Len(pair') = Len(pair) + 1)
<1>1. WebTypeOK /\ Len(pair) \in Nat
  BY DEF WebInv, WebTypeOK
<1>2. CASE outcome = "refreshed" /\ t # NoSession /\ Spend(t)
  BY <1>1, <1>2, SpendGrows DEF NoSession
<1>3. CASE outcome = "expired" /\ UNCHANGED pair
  BY <1>1, <1>3, PairsStay
<1>4. CASE outcome = "unavailable" /\ t # NoSession /\ (UNCHANGED pair \/ Spend(t))
  BY <1>1, <1>4, SpendGrows, PairsStay DEF NoSession
<1> QED
  BY <1>2, <1>3, <1>4 DEF RefreshUpstream

(* A refresh token the IAM refuses it refuses from then on. *)
LEMMA DeadStays ==
  ASSUME WebInv, WebGrows, NEW t \in 1 .. Len(pair), Dead(t)
  PROVE  Dead(t)'
<1>1. pair[t] \in TokenPair /\ pair'[t] \in TokenPair
  BY DEF WebInv, WebTypeOK, WebGrows, PairsGrow
<1>2. CASE pair[t].session \in revoked
  BY <1>2 DEF Dead, Spendable, WebGrows, PairsGrow
<1>3. CASE ~ (webNow <= pair[t].spent + IamGrace)
  <2>1. pair[t].spent # NotSpent
    BY <1>1, <1>3, WebTimesAssumption DEF NotSpent, WebInv, WebTypeOK
  <2>2. pair'[t].spent = pair[t].spent /\ pair[t].spent \in Nat
    BY <2>1, PairIs DEF WebGrows, PairsGrow, WebInv
  <2> QED
    BY <1>3, <2>2, WebTimesAssumption DEF Dead, Spendable, WebGrows, WebInv, WebTypeOK
<1> QED
  BY <1>2, <1>3 DEF Dead, Spendable

LEMMA OtherTabs ==
  ASSUME WebInv, WebGrows, NEW q \in Tabs, tab'[q] = tab[q]
  PROVE  TabRight(q)'
<1>1. TabRight(q) /\ Len(pair) \in Nat /\ Len(pair') \in Nat /\ Len(pair) <= Len(pair')
  BY DEF WebInv, WebTypeOK, WebGrows, PairsGrow
<1>2. MetRefusal(q)' /\ SetsWhatExists(q)'
  BY <1>1 DEF TabRight, MetRefusal, SetsWhatExists, KeepsCookie
<1>3. RefusedForCause(q)'
  <2> SUFFICES ASSUME tab[q].pc \in {"inPlace", "refresh"}, broken = {}
               PROVE  pair'[tab[q].jar].exp <= webNow'
    BY DEF RefusedForCause, WebGrows
  <2> DEFINE t == tab[q].jar
  <2>1. t \in 1 .. Len(pair) /\ pair[t].exp <= webNow
    BY <1>1 DEF TabRight, MetRefusal, RefusedForCause
  <2>3. pair[t].exp \in Nat
    BY <2>1, PairIs DEF WebInv
  <2>2. pair'[t].exp = pair[t].exp /\ webNow <= webNow' /\ webNow \in Nat /\ webNow' \in Nat
    BY <2>1, WebTimesAssumption DEF WebGrows, PairsGrow, WebInv, WebTypeOK
  <2> QED BY <2>1, <2>2, <2>3
<1>4. LeavesForCause(q)'
  <2> SUFFICES ASSUME tab[q].pc = "logout", broken = {}, ~ tab[q].other
               PROVE  Dead(tab[q].jar)'
    BY DEF LeavesForCause, WebGrows, Dead, Spendable
  <2>1. tab[q].jar \in 1 .. Len(pair) /\ Dead(tab[q].jar)
    BY <1>1 DEF TabRight, MetRefusal, LeavesForCause
  <2>2. PICK t \in 1 .. Len(pair) : t = tab[q].jar
    BY <2>1
  <2>3. Dead(t)'
    BY <2>1, <2>2, DeadStays
  <2>4. tab'[q].jar = t
    BY <2>2
  <2> QED BY <2>3, <2>4 DEF Dead, Spendable
<1> QED
  BY <1>2, <1>3, <1>4 DEF TabRight

(* A step of p's own: what p comes to is right, and the others keep theirs. *)
LEMMA TabStep ==
  ASSUME WebInv, WebGrows, NEW p \in Tabs, NEW new \in Request,
         tab' = [tab EXCEPT ![p] = new], cookie' \in 0 .. Len(pair'), TabRight(p)'
  PROVE  WebInv'
<1>1. WebTypeOK'
  <2>1. tab' \in [Tabs -> Request]
    BY DEF WebInv, WebTypeOK
  <2>2. cookie' \in 0 .. MaxPairs
    BY WebTimesAssumption DEF WebGrows, PairsGrow
  <2>3. NotSpent' = NotSpent /\ TokenPair' = TokenPair /\ Request' = Request
    BY DEF NotSpent, TokenPair, Request, KeepsCookie
  <2> QED
    BY <2>1, <2>2, <2>3 DEF WebInv, WebTypeOK, WebGrows, PairsGrow
<1>2. \A q \in Tabs : TabRight(q)'
  <2> SUFFICES ASSUME NEW q \in Tabs, q # p PROVE TabRight(q)'
    OBVIOUS
  <2>1. tab'[q] = tab[q]
    BY DEF WebInv, WebTypeOK
  <2> QED BY <2>1, OtherTabs
<1> QED
  BY <1>1, <1>2 DEF WebInv

LEMMA GoesTo ==
  ASSUME WebInv, WebGrows, NEW p \in Tabs, NEW pc \in {"inPlace", "refresh", "logout"},
         NEW jar \in 1 .. Len(pair), TabGoes(p, pc, jar), UNCHANGED cookie,
         pc # "logout" => broken # {} \/ pair[jar].exp <= webNow,
         pc = "logout" => broken # {} \/ Dead(jar) \/ cookie # jar
  PROVE  WebInv'
<1> DEFINE new == [pc |-> pc, jar |-> jar, set |-> KeepsCookie, other |-> cookie # jar]
<1>1. /\ Len(pair) \in Nat /\ Len(pair') \in Nat /\ Len(pair) <= Len(pair') /\ Len(pair) <= MaxPairs
      /\ cookie \in 0 .. Len(pair)
  BY DEF WebInv, WebTypeOK, WebGrows, PairsGrow
<1>2. new \in Request
  BY <1>1, WebTimesAssumption DEF Request, KeepsCookie
<1>3. tab' = [tab EXCEPT ![p] = new] /\ tab'[p] = new
  BY DEF TabGoes, WebInv, WebTypeOK
<1>4. MetRefusal(p)' /\ SetsWhatExists(p)'
  BY <1>1, <1>3 DEF MetRefusal, SetsWhatExists, KeepsCookie
<1>5. RefusedForCause(p)'
  <2> SUFFICES ASSUME pc # "logout", broken = {} PROVE pair'[jar].exp <= webNow'
    BY <1>3 DEF RefusedForCause, WebGrows
  <2>1. pair[jar].exp <= webNow /\ pair[jar].exp \in Nat /\ webNow \in Nat /\ webNow' \in Nat
    BY PairIs, WebTimesAssumption DEF WebInv, WebTypeOK, WebGrows
  <2>2. pair'[jar].exp = pair[jar].exp /\ webNow <= webNow'
    BY DEF WebGrows, PairsGrow
  <2> QED BY <2>1, <2>2
<1>6. LeavesForCause(p)'
  <2> SUFFICES ASSUME pc = "logout", broken = {}, cookie = jar
               PROVE  Dead(tab[p].jar)'
    <3>1. tab'[p].pc = pc /\ tab'[p].jar = jar
      BY <1>3
    <3>2. tab'[p].other = (cookie # jar)
      BY <1>3
    <3>3. broken' = broken
      BY DEF WebGrows
    <3> QED BY <3>1, <3>2, <3>3, Zenon DEF LeavesForCause
  <2>1. Dead(jar)'
    BY DeadStays
  <2> QED BY <2>1, <1>3 DEF Dead, Spendable
<1>7. TabRight(p)'
  BY <1>4, <1>5, <1>6 DEF TabRight
<1>8. cookie' \in 0 .. Len(pair')
  BY <1>1
<1> HIDE DEF new
<1> QED
  BY <1>2, <1>3, <1>7, <1>8, TabStep

(* An answer, and a tab with nothing to wait for. *)
LEMMA SetsTo ==
  ASSUME WebInv, WebGrows, NEW p \in Tabs, NEW pc \in {"idle", "answer"},
         NEW set \in (0 .. Len(pair')) \cup {KeepsCookie},
         tab' = [tab EXCEPT ![p] = [pc |-> pc, jar |-> NoSession, set |-> set, other |-> FALSE]],
         cookie' \in 0 .. Len(pair')
  PROVE  WebInv'
<1> DEFINE new == [pc |-> pc, jar |-> NoSession, set |-> set, other |-> FALSE]
<1>1. Len(pair') \in Nat /\ Len(pair') <= MaxPairs
  BY DEF WebGrows, PairsGrow
<1>2. new \in Request
  BY <1>1, WebTimesAssumption DEF Request, KeepsCookie, NoSession
<1>3. tab' = [tab EXCEPT ![p] = new] /\ tab'[p] = new
  BY DEF WebInv, WebTypeOK
<1>4. TabRight(p)'
  BY <1>3 DEF TabRight, MetRefusal, RefusedForCause, LeavesForCause, SetsWhatExists, KeepsCookie
<1> HIDE DEF new
<1> QED
  BY <1>2, <1>3, <1>4, TabStep

LEMMA TabAnswersKeeps ==
  ASSUME WebInv, WebGrows, NEW p \in Tabs, NEW set \in 0 .. Len(pair'), TabAnswers(p, set),
         UNCHANGED cookie
  PROVE  WebInv'
<1>1. cookie' \in 0 .. Len(pair')
  BY DEF WebInv, WebTypeOK, WebGrows, PairsGrow
<1> QED
  BY <1>1, SetsTo DEF TabAnswers

LEMMA TabEndsKeeps ==
  ASSUME WebInv, WebGrows, NEW p \in Tabs, TabEnds(p), cookie' \in 0 .. Len(pair')
  PROVE  WebInv'
BY SetsTo DEF TabEnds, TabIdle

LEMMA SignOutGrows ==
  ASSUME WebInv, PairsGrow, UNCHANGED <<webNow, broken>>, NEW p \in Tabs,
         NEW t \in 0 .. Len(pair), SignOutAndRedirect(p, t), UNCHANGED cookie
  PROVE  WebInv'
<1>1. WebGrows
  <2>1. t # NoSession => pair[t].session \in 1 .. MaxSessions
    BY PairIs DEF WebInv, NoSession
  <2>2. revoked \subseteq revoked' /\ revoked' \subseteq 1 .. MaxSessions
    BY <2>1 DEF SignOutAndRedirect, WebInv, WebTypeOK
  <2> QED
    BY <2>2, WebTimesAssumption DEF WebGrows, WebInv, WebTypeOK
<1>2. NoSession \in 0 .. Len(pair')
  BY DEF NoSession, PairsGrow
<1> QED
  BY <1>1, <1>2, TabAnswersKeeps DEF SignOutAndRedirect

LEMMA WebInitInv == WebInit => WebInv
<1> SUFFICES ASSUME WebInit PROVE WebInv
  OBVIOUS
<1>1. 0 \in 0 .. MaxPairs /\ KeepsCookie \in 0 .. KeepsCookie /\ Len(pair) = 0
  BY WebTimesAssumption DEF WebInit, KeepsCookie
<1>2. TabIdle \in Request
  BY <1>1 DEF TabIdle, Request, NoSession
<1>3. WebTypeOK
  BY <1>1, <1>2, WebTimesAssumption DEF WebInit, WebTypeOK, NoSession
<1>4. \A p \in Tabs : tab[p].pc = "idle" /\ tab[p].set = KeepsCookie
  BY DEF WebInit, TabIdle
<1>5. \A p \in Tabs : TabRight(p)
  BY <1>4 DEF TabRight, MetRefusal, RefusedForCause, LeavesForCause, SetsWhatExists
<1> QED
  BY <1>1, <1>3, <1>5 DEF WebInv, WebInit, NoSession

LEMMA SignInKeeps ==
  ASSUME WebInv, NEW p \in Tabs, NEW s \in 1 .. MaxSessions, SignIn(p, s)
  PROVE  WebInv'
<1>1. PairsGrow /\ Len(pair') = Len(pair) + 1
  <2>1. WebTypeOK /\ pair \in Seq(TokenPair) /\ Len(pair) = Len(pair) /\ Len(pair) < MaxPairs
    BY DEF WebInv, WebTypeOK, SignIn
  <2> QED BY <2>1, PairAppended DEF SignIn
<1>2. WebGrows
  BY <1>1, WebTimesAssumption DEF WebGrows, SignIn, WebInv, WebTypeOK
<1>3. FreshPair \in 0 .. Len(pair')
  BY <1>1 DEF FreshPair, WebInv, WebTypeOK
<1> QED
  BY <1>2, <1>3, TabAnswersKeeps DEF SignIn

LEMMA SignOutKeeps ==
  ASSUME WebInv, NEW p \in Tabs, SignOut(p) \/ LogoutRoute(p)
  PROVE  WebInv'
<1>1. PairsGrow /\ cookie \in 0 .. Len(pair) /\ UNCHANGED <<webNow, broken, cookie>>
  BY PairsStay DEF WebInv, SignOut, LogoutRoute
<1>2. SignOutAndRedirect(p, cookie)
  BY DEF SignOut, LogoutRoute
<1> QED
  BY <1>1, <1>2, SignOutGrows

LEMMA RefusedKeeps ==
  ASSUME WebInv, NEW p \in Tabs, TabRefused(p)
  PROVE  WebInv'
<1>1. WebGrows
  BY PairsStay, WebTimesAssumption DEF WebGrows, TabRefused, WebInv, WebTypeOK
<1>2. cookie \in 1 .. Len(pair)
  BY DEF TabRefused, WebInv, NoSession
<1>3. broken # {} \/ pair[cookie].exp <= webNow
  <2>1. pair[cookie].exp \in Nat /\ webNow \in Nat
    BY <1>2, PairIs, WebTimesAssumption DEF WebInv, WebTypeOK
  <2> QED BY <2>1 DEF TabRefused, Accepts
<1>4. PICK pc \in {"refresh", "inPlace"} : TabGoes(p, pc, cookie)
  BY DEF TabRefused
<1> QED
  BY <1>1, <1>2, <1>3, <1>4, GoesTo DEF TabRefused

LEMMA InPlaceKeeps ==
  ASSUME WebInv, NEW p \in Tabs, RefreshInPlace(p)
  PROVE  WebInv'
<1> DEFINE t == tab[p].jar
<1>1. t \in 0 .. Len(pair) /\ Len(pair) \in Nat
  BY DEF RefreshInPlace, TabAt, WebInv, WebTypeOK, TabRight, MetRefusal
<1>2. PICK outcome \in Outcomes :
        /\ RefreshUpstream(t, outcome)
        /\ \/ SignsOut(outcome) /\ SignOutAndRedirect(p, t)
           \/ /\ outcome = "unavailable" /\ ~ SignsOut(outcome)
              /\ TabAnswers(p, t) /\ UNCHANGED revoked
           \/ /\ outcome = "refreshed" /\ AcceptsFresh
              /\ TabAnswers(p, FreshPair) /\ UNCHANGED revoked
           \/ outcome = "refreshed" /\ ~ AcceptsFresh /\ SignOutAndRedirect(p, t)
  BY DEF RefreshInPlace
<1>3. UNCHANGED <<webNow, broken, cookie>>
  BY DEF RefreshInPlace
<1> HIDE DEF t
<1>4. PairsGrow /\ (outcome = "refreshed" => Len(pair') = Len(pair) + 1)
  BY <1>1, <1>2, UpstreamGrows
<1>5. CASE SignOutAndRedirect(p, t)
  BY <1>1, <1>3, <1>4, <1>5, SignOutGrows
<1>6. ASSUME NEW set \in 0 .. Len(pair'), TabAnswers(p, set), UNCHANGED revoked
      PROVE  WebInv'
  <2>1. WebGrows
    BY <1>3, <1>4, <1>6, WebTimesAssumption DEF WebGrows, WebInv, WebTypeOK
  <2> QED BY <2>1, <1>3, <1>6, TabAnswersKeeps
<1>7. t \in 0 .. Len(pair')
  BY <1>1, <1>4 DEF PairsGrow
<1>8. outcome = "refreshed" => FreshPair \in 0 .. Len(pair')
  BY <1>1, <1>4 DEF FreshPair
<1> QED
  BY <1>2, <1>5, <1>6, <1>7, <1>8

LEMMA RouteKeeps ==
  ASSUME WebInv, NEW p \in Tabs, RefreshRoute(p)
  PROVE  WebInv'
<1> DEFINE jar == tab[p].jar
<1>1. /\ jar \in 1 .. Len(pair) /\ Len(pair) \in Nat /\ cookie \in 0 .. Len(pair)
      /\ broken # {} \/ pair[jar].exp <= webNow
  BY DEF RefreshRoute, TabAt, WebInv, WebTypeOK, TabRight, MetRefusal, RefusedForCause
<1>2. UNCHANGED <<webNow, broken, revoked, cookie>>
  BY DEF RefreshRoute
<1>3. PairsGrow => WebGrows
  BY <1>2, WebTimesAssumption DEF WebGrows, WebInv, WebTypeOK
<1>4. ASSUME TabGoes(p, "logout", jar), PairsGrow,
             broken # {} \/ Dead(jar) \/ cookie # jar
      PROVE  WebInv'
  BY <1>1, <1>2, <1>3, <1>4, GoesTo
<1>5. CASE cookie # NoSession /\ ~ Expired(cookie) /\ TabGoes(p, "logout", jar) /\ UNCHANGED pair
  <2>1. cookie = jar => broken # {}
    <3>1. WebTypeOK /\ webNow \in Nat /\ Skew \in Nat
      BY WebTimesAssumption DEF WebInv, WebTypeOK
    <3>2. pair[jar].exp \in Nat
      BY <1>1, <3>1, PairIs
    <3>3. ASSUME cookie = jar PROVE broken # {}
      <4>1. ~ (webNow + Skew >= pair[jar].exp)
        BY <1>5, <3>3 DEF Expired
      <4> HIDE DEF jar
      <4> QED BY <1>1, <3>1, <3>2, <4>1
    <3> QED BY <3>3
  <2> QED BY <2>1, <1>4, <1>5, PairsStay DEF WebInv
<1>6. ASSUME NEW outcome \in Outcomes, RefreshUpstream(cookie, outcome),
             \/ SignsOut(outcome) /\ TabGoes(p, "logout", jar)
             \/ outcome = "unavailable" /\ ~ SignsOut(outcome) /\ TabEnds(p)
             \/ outcome = "refreshed" /\ MintedLife > Skew /\ TabAnswers(p, FreshPair)
             \/ outcome = "refreshed" /\ MintedLife <= Skew /\ TabGoes(p, "logout", jar)
      PROVE  WebInv'
  <2>1. PairsGrow /\ (outcome = "refreshed" => Len(pair') = Len(pair) + 1)
    BY <1>1, <1>6, UpstreamGrows
  <2>2. CASE SignsOut(outcome) /\ TabGoes(p, "logout", jar)
    <3>1. cookie # NoSession => ~ Spendable(cookie)
      BY <1>6, <2>2 DEF SignsOut, RefreshUpstream
    <3>2. cookie = jar => Dead(jar)
      BY <3>1, <1>1 DEF Dead, NoSession
    <3> QED BY <3>2, <1>4, <2>1, <2>2
  <2>3. CASE outcome = "unavailable" /\ TabEnds(p)
    <3>1. cookie' \in 0 .. Len(pair')
      BY <1>1, <1>2, <2>1 DEF PairsGrow
    <3> QED BY <3>1, <1>3, <2>1, <2>3, TabEndsKeeps
  <2>4. CASE outcome = "refreshed" /\ TabAnswers(p, FreshPair)
    <3>1. FreshPair \in 0 .. Len(pair')
      BY <1>1, <2>1, <2>4 DEF FreshPair
    <3> QED BY <3>1, <1>2, <1>3, <2>1, <2>4, TabAnswersKeeps
  <2>5. CASE outcome = "refreshed" /\ MintedLife <= Skew /\ TabGoes(p, "logout", jar)
    <3>1. broken # {}
      BY <2>5, WebTimesAssumption DEF MintedLife
    <3> QED BY <3>1, <1>4, <2>1, <2>5
  <2> QED BY <1>6, <2>2, <2>3, <2>4, <2>5
<1> QED
  BY <1>5, <1>6 DEF RefreshRoute

LEMMA ArrivesKeeps ==
  ASSUME WebInv, NEW p \in Tabs, Arrives(p) \/ Lose(p)
  PROVE  WebInv'
<1>1. WebGrows
  <2>1. UNCHANGED <<webNow, broken, pair, revoked>>
    BY DEF Arrives, Lose
  <2> QED
    BY <2>1, PairsStay, WebTimesAssumption DEF WebGrows, WebInv, WebTypeOK
<1>2. cookie' \in 0 .. Len(pair')
  BY DEF Arrives, Lose, WebInv, TabRight, SetsWhatExists
<1> QED
  BY <1>1, <1>2, TabEndsKeeps DEF Arrives, Lose

LEMMA StillKeeps ==
  ASSUME WebInv, WebTick \/ UNCHANGED webVars
  PROVE  WebInv'
<1>1. WebGrows
  <2>1. UNCHANGED <<broken, pair, revoked>> /\ webNow' \in {webNow, webNow + 1} /\ webNow' \in 0 .. MaxWebTime
    BY WebTimesAssumption DEF WebTick, webVars, WebInv, WebTypeOK
  <2> QED
    BY <2>1, PairsStay, WebTimesAssumption DEF WebGrows, WebInv, WebTypeOK
<1>2. \A p \in Tabs : tab'[p] = tab[p]
  BY DEF WebTick, webVars
<1>3. \A p \in Tabs : TabRight(p)'
  BY <1>1, <1>2, OtherTabs
<1>4. WebTypeOK' /\ cookie' \in 0 .. Len(pair')
  BY <1>1, WebTimesAssumption DEF WebGrows, PairsGrow, WebTick, webVars, WebInv, WebTypeOK, NotSpent,
     TokenPair, Request, KeepsCookie
<1> QED
  BY <1>3, <1>4 DEF WebInv

LEMMA WebStep == WebInv /\ [WebNext]_webVars => WebInv'
<1> SUFFICES ASSUME WebInv, [WebNext]_webVars PROVE WebInv'
  OBVIOUS
<1>1. CASE WebTick \/ UNCHANGED webVars
  BY <1>1, StillKeeps
<1>2. ASSUME NEW p \in Tabs, NEW s \in 1 .. MaxSessions, SignIn(p, s) PROVE WebInv'
  BY <1>2, SignInKeeps
<1>3. ASSUME NEW p \in Tabs, SignOut(p) \/ LogoutRoute(p) PROVE WebInv'
  BY <1>3, SignOutKeeps
<1>4. ASSUME NEW p \in Tabs, TabRefused(p) PROVE WebInv'
  BY <1>4, RefusedKeeps
<1>5. ASSUME NEW p \in Tabs, RefreshInPlace(p) PROVE WebInv'
  BY <1>5, InPlaceKeeps
<1>6. ASSUME NEW p \in Tabs, RefreshRoute(p) PROVE WebInv'
  BY <1>6, RouteKeeps
<1>7. ASSUME NEW p \in Tabs, Arrives(p) \/ Lose(p) PROVE WebInv'
  BY <1>7, ArrivesKeeps
<1> QED
  BY <1>1, <1>2, <1>3, <1>4, <1>5, <1>6, <1>7 DEF WebNext

(* Every reachable state of the session keeps its types, and a tab on its   *)
(* way out has a reason to be: WebSession.WebTypeOK and more.              *)
THEOREM WebInductive == WebSpec => []WebInv
  BY WebInitInv, WebStep, PTL DEF WebSpec

(* The session's pairs, cookie and tabs stay of their types.               *)
THEOREM WebTypes == WebSpec => []WebTypeOK
<1>1. WebInv => WebTypeOK
  BY DEF WebInv
<1> QED
  BY <1>1, WebInductive, PTL

(* A step that ends a session is a tab's own, and the tab has a cause. *)
LEMMA WhoEnds ==
  ASSUME WebInv, NEW p \in Tabs, NEW t, SignOutAndRedirect(p, t), TabAt(p, "answer") => FALSE,
         Cause(p)
  PROVE  EndsForCause
<1>1. tab'[p].pc = "answer" /\ tab[p].pc # "answer"
  BY DEF SignOutAndRedirect, TabAnswers, TabAt, WebInv, WebTypeOK
<1> QED
  BY <1>1 DEF EndsForCause

LEMMA StepEndsForCause == WebInv /\ [WebNext]_webVars => [EndsForCause]_webVars
<1> SUFFICES ASSUME WebInv, [WebNext]_webVars PROVE EndsForCause \/ UNCHANGED webVars
  OBVIOUS
<1>1. CASE revoked' = revoked
  BY <1>1 DEF EndsForCause
<1>2. ASSUME NEW p \in Tabs, SignOut(p) PROVE EndsForCause
  BY <1>2, WhoEnds DEF SignOut, TabAt, Cause
<1>3. ASSUME NEW p \in Tabs, LogoutRoute(p) PROVE EndsForCause
  <2>1. Cause(p) /\ (TabAt(p, "answer") => FALSE)
    BY <1>3 DEF LogoutRoute, TabAt, Cause, WebInv, TabRight, LeavesForCause
  <2> QED BY <1>3, <2>1, WhoEnds DEF LogoutRoute
<1>4. ASSUME NEW p \in Tabs, RefreshInPlace(p), revoked' # revoked PROVE EndsForCause
  <2> DEFINE t == tab[p].jar
  <2>1. t \in 1 .. Len(pair) /\ (TabAt(p, "answer") => FALSE)
    BY <1>4 DEF RefreshInPlace, TabAt, WebInv, TabRight, MetRefusal
  <2>2. PICK outcome \in Outcomes :
          /\ RefreshUpstream(t, outcome) /\ SignOutAndRedirect(p, t)
          /\ SignsOut(outcome) \/ ~ AcceptsFresh
    <3> HIDE DEF t
    <3>1. PICK outcome \in Outcomes :
            /\ RefreshUpstream(t, outcome)
            /\ \/ SignsOut(outcome) /\ SignOutAndRedirect(p, t)
               \/ revoked' = revoked
               \/ ~ AcceptsFresh /\ SignOutAndRedirect(p, t)
      BY <1>4 DEF RefreshInPlace, t
    <3> QED BY <3>1, <1>4
  <2>3. CASE SignsOut(outcome)
    <3>1. Dead(t)
      BY <2>1, <2>2, <2>3 DEF SignsOut, RefreshUpstream, Dead, NoSession
    <3> QED BY <3>1, <2>1, <2>2, WhoEnds DEF Cause
  <2>4. CASE ~ AcceptsFresh
    <3>1. broken # {}
      BY <2>4, WebTimesAssumption DEF AcceptsFresh, MintedLife
    <3> QED BY <3>1, <2>1, <2>2, WhoEnds DEF Cause
  <2> QED BY <2>2, <2>3, <2>4
<1> QED
  BY <1>1, <1>2, <1>3, <1>4
  DEF WebNext, SignIn, TabRefused, RefreshRoute, Arrives, Lose, WebTick, webVars

(* A session ends for a cause only, however many tabs refresh, sign out and *)
(* lose answers at once: WebSession.EndedForCause.                         *)
THEOREM EndedForCauseKept == WebSpec => EndedForCause
  BY WebInductive, StepEndsForCause, PTL DEF WebSpec, EndedForCause

-----------------------------------------------------------------------------
(* BusyCache. *)

Under(S, i) == {j \in S : j < i}

LEMMA RankCounts ==
  ASSUME NEW S, S \subseteq Nat, IsFiniteSet(S)
  PROVE  /\ Cardinality(S) \in Nat
         /\ \A i \in S : Cardinality(Under(S, i)) \in 0 .. Cardinality(S) - 1
         /\ \A i, j \in S : i < j => Cardinality(Under(S, i)) < Cardinality(Under(S, j))
<1>1. Cardinality(S) \in Nat
  BY FS_CardinalityType
<1>2. \A i \in S : IsFiniteSet(Under(S, i)) /\ Cardinality(Under(S, i)) \in Nat
  <2> TAKE i \in S
  <2>1. Under(S, i) \in SUBSET S
    BY DEF Under
  <2>2. IsFiniteSet(Under(S, i))
    BY <2>1, FS_Subset
  <2> QED
    BY <2>2, FS_CardinalityType
<1>3. \A i \in S : Cardinality(Under(S, i)) \in 0 .. Cardinality(S) - 1
  <2> TAKE i \in S
  <2>1. Under(S, i) \in SUBSET (S \ {i})
    BY DEF Under
  <2>2. IsFiniteSet(S \ {i}) /\ Cardinality(S \ {i}) = Cardinality(S) - 1
    BY FS_RemoveElement
  <2>3. Cardinality(Under(S, i)) <= Cardinality(S \ {i})
    BY <2>1, <2>2, FS_Subset
  <2>4. Cardinality(Under(S, i)) \in Nat
    BY <1>2
  <2> QED
    BY <1>1, <2>2, <2>3, <2>4
<1>4. \A i, j \in S : i < j => Cardinality(Under(S, i)) < Cardinality(Under(S, j))
  <2> TAKE i, j \in S
  <2> HAVE i < j
  <2>0. i \in Nat /\ j \in Nat
    OBVIOUS
  <2>1. Under(S, i) \in SUBSET Under(S, j)
    <3>1. ASSUME NEW x \in S, x < i PROVE x < j
      <4>1. x \in Nat
        OBVIOUS
      <4> QED
        BY <2>0, <3>1, <4>1
    <3> QED
      BY <3>1 DEF Under
  <2>2. Under(S, i) # Under(S, j)
    BY <2>0 DEF Under
  <2>3. Cardinality(Under(S, i)) <= Cardinality(Under(S, j))
        /\ Cardinality(Under(S, i)) # Cardinality(Under(S, j))
    BY <1>2, <2>1, <2>2, FS_Subset
  <2>4. Cardinality(Under(S, i)) \in Nat /\ Cardinality(Under(S, j)) \in Nat
    BY <1>2
  <2> QED
    BY <2>3, <2>4
<1> QED
  BY <1>1, <1>3, <1>4

LEMMA EveryRank ==
  ASSUME NEW S, S \subseteq Nat, IsFiniteSet(S), NEW k \in 1 .. Cardinality(S)
  PROVE  \E i \in S : Cardinality(Under(S, i)) = k - 1
<1> DEFINE n == Cardinality(S)
           f == [i \in S |-> Cardinality(Under(S, i)) + 1]
<1>1. n \in Nat /\ \A i \in S : Cardinality(Under(S, i)) \in 0 .. n - 1
  BY RankCounts
<1>2. f \in [S -> 1 .. n]
  BY <1>1
<1>3. \A i, j \in S : f[i] = f[j] => i = j
  <2> TAKE i, j \in S
  <2>1. i \in Nat /\ j \in Nat /\ Cardinality(Under(S, i)) \in Nat /\ Cardinality(Under(S, j)) \in Nat
    BY <1>1
  <2>2. /\ i < j => Cardinality(Under(S, i)) < Cardinality(Under(S, j))
        /\ j < i => Cardinality(Under(S, j)) < Cardinality(Under(S, i))
    BY RankCounts
  <2> QED
    BY <2>1, <2>2
<1>4. f \in Injection(S, 1 .. n)
  <2> HIDE DEF f
  <2> QED
    BY <1>2, <1>3 DEF Injection, IsInjective
<1>5. IsFiniteSet(1 .. n) /\ Cardinality(1 .. n) = n
  BY <1>1, FS_Interval
<1>6. f \in Surjection(S, 1 .. n)
  <2> HIDE DEF f
  <2> QED
    BY <1>4, <1>5, FS_Injection
<1>7. PICK i \in S : f[i] = k
  <2> HIDE DEF f
  <2> QED
    BY <1>6 DEF Surjection
<1>8. Cardinality(Under(S, i)) + 1 = k /\ Cardinality(Under(S, i)) \in Nat
  BY <1>1, <1>7
<1> QED
  BY <1>8

(* What is picked out of the entries are entries held. *)
LEMMA EntriesHeld ==
  ASSUME held \in Seq(Entry), NEW I \in SUBSET DOMAIN held
  PROVE  /\ IsFiniteSet(I) /\ Cardinality(I) \in Nat /\ Cardinality(I) <= Len(held)
         /\ EntriesAt(I) \in Seq(Entry) /\ Len(EntriesAt(I)) = Cardinality(I)
         /\ \A k \in DOMAIN EntriesAt(I) : \E i \in I : EntriesAt(I)[k] = held[i]
<1> DEFINE n == Cardinality(I)
           nth(k) == CHOOSE i \in I : Cardinality({j \in I : j < i}) = k - 1
           out == [k \in 1 .. n |-> held[nth(k)]]
<1>1. IsFiniteSet(1 .. Len(held)) /\ Cardinality(1 .. Len(held)) = Len(held) /\ Len(held) \in Nat
      /\ DOMAIN held = 1 .. Len(held)
  BY FS_Interval
<1>2. IsFiniteSet(I) /\ n \in Nat /\ n <= Len(held) /\ I \subseteq Nat
  <2>1. I \subseteq Nat
    BY <1>1
  <2>2. IsFiniteSet(I) /\ Cardinality(I) <= Cardinality(1 .. Len(held))
    BY <1>1, FS_Subset
  <2> QED
    BY <1>1, <2>1, <2>2, FS_CardinalityType
<1>3. \A k \in 1 .. n : nth(k) \in I
  <2> TAKE k \in 1 .. n
  <2>1. \E i \in I : Cardinality({j \in I : j < i}) = k - 1
    BY <1>2, EveryRank DEF Under
  <2> QED
    BY <2>1
<1>4. EntriesAt(I) = out
  BY DEF EntriesAt
<1> HIDE DEF nth, n
<1>5. \A k \in 1 .. n : held[nth(k)] \in Entry
  BY <1>3
<1>6. out \in Seq(Entry) /\ Len(out) = n /\ DOMAIN out = 1 .. n
  BY <1>2, <1>5
<1>7. \A k \in DOMAIN out : out[k] = held[nth(k)]
  BY <1>6
<1> QED
  BY <1>2, <1>3, <1>4, <1>6, <1>7 DEF n

(* The best entry is one of those that cover the window wanted. *)
LEMMA BestCovers ==
  ASSUME held \in Seq(Entry), NEW r, NEW w, Covering(r, w) # {}
  PROVE  Best(r, w) \in Covering(r, w)
<1> DEFINE C == Covering(r, w)
           F == {i \in C : Fresh(held[i])}
           B == IF F # {} THEN F ELSE C
           times == {held[i].fetchedAt : i \in B}
<1>1. \A i \in C : i \in DOMAIN held /\ held[i].fetchedAt \in 0 .. MaxCacheTime
  <2> TAKE i \in C
  <2>1. i \in DOMAIN held
    BY DEF Covering
  <2>2. held[i] \in Entry
    BY <2>1
  <2> QED
    BY <2>1, <2>2 DEF Entry
<1>3. B # {} /\ B \subseteq C
  OBVIOUS
<1>4. times \subseteq 0 .. MaxCacheTime /\ times # {}
  <2> HIDE DEF C, B
  <2> QED
    BY <1>1, <1>3
<1>5. times \subseteq Nat /\ times # {} /\ IsFiniteSet(times)
  <2> HIDE DEF times
  <2>1. IsFiniteSet(0 .. MaxCacheTime)
    BY FS_Interval, CacheSizesAssumption
  <2>2. times \in SUBSET (0 .. MaxCacheTime)
    BY <1>4
  <2>3. IsFiniteSet(times)
    BY <2>1, <2>2, FS_Subset
  <2>4. times \subseteq Nat
    BY <1>4
  <2> QED
    BY <1>4, <2>3, <2>4
<1> HIDE DEF C, F, times
<1>6. PICK t \in times : \A u \in times : u <= t
  BY <1>5, HasGreatest
<1>7. PICK i \in B : held[i].fetchedAt = t
  BY <1>6 DEF times
<1>8. i \in C /\ \A j \in B : ~ (held[j].fetchedAt > held[i].fetchedAt)
  <2> SUFFICES ASSUME NEW j \in B PROVE i \in C /\ ~ (held[j].fetchedAt > held[i].fetchedAt)
    BY <1>3, <1>7
  <2>1. held[j].fetchedAt <= t
    BY <1>6 DEF times
  <2>2. i \in C /\ j \in C
    BY <1>3, <1>7
  <2> QED
    BY <1>1, <1>7, <2>1, <2>2
<1>9. \A j \in C : ~ Better(held[j], held[i])
  <2> TAKE j \in C
  <2>1. CASE F # {}
    <3>1. Fresh(held[i])
      BY <1>7, <2>1 DEF F
    <3>2. CASE Fresh(held[j])
      <4>1. j \in B
        BY <2>1, <3>2 DEF F
      <4>2. Fresh(held[j]) = Fresh(held[i])
        BY <3>1, <3>2 DEF Fresh
      <4> QED
        BY <1>8, <4>1, <4>2 DEF Better
    <3>3. CASE ~ Fresh(held[j])
      BY <3>1, <3>3 DEF Better
    <3> QED
      BY <3>2, <3>3
  <2>2. CASE F = {}
    <3>1. j \in B /\ ~ Fresh(held[i]) /\ ~ Fresh(held[j])
      BY <1>7, <2>2, <1>8 DEF F
    <3>2. Fresh(held[j]) = Fresh(held[i])
      BY <3>1 DEF Fresh
    <3> QED
      BY <1>8, <3>1, <3>2 DEF Better
  <2> QED
    BY <2>1, <2>2
<1>10. \E x \in Covering(r, w) : \A j \in Covering(r, w) : ~ Better(held[j], held[x])
  BY <1>8, <1>9 DEF C
<1> QED
  BY <1>10 DEF Best

-----------------------------------------------------------------------------
(* A flight whose connection was invalidated since it started shows it by   *)
(* its generation, which no pruning takes away while it is in flight; so    *)
(* what lands as fresh is no older than the last invalidation.             *)

FlightRight(f) ==
    /\ f \in Flight /\ f.gen <= Gen(f.ref)
    /\ f.read /\ f.gen = Gen(f.ref) => announced[f.ref] <= f.version

Current(hs) ==
    /\ hs \in Seq(Entry) /\ Len(hs) <= MaxEntries
    /\ \A i \in DOMAIN hs : hs[i].freshUntil > 0 => announced[hs[i].ref] <= hs[i].version

Ledgers ==
    /\ cacheNow \in 0 .. MaxCacheTime
    /\ calendar \in [Refs -> 0 .. MaxWrites] /\ announced \in [Refs -> 0 .. MaxWrites]
    /\ \A r \in Refs : announced[r] <= calendar[r]
    /\ DOMAIN failedAt \subseteq Refs
    /\ DOMAIN generation \subseteq Refs /\ \A r \in DOMAIN generation : generation[r] \in Nat

CacheInv == Ledgers /\ Current(held) /\ \A f \in flights : FlightRight(f)

LEMMA GenIsNat ==
  ASSUME Ledgers, NEW r
  PROVE  Gen(r) \in Nat
  BY DEF Ledgers, Gen

(* Entries picked out, and perhaps one of them put last. *)
LEMMA PickedCurrent ==
  ASSUME Current(held), NEW I \in SUBSET DOMAIN held
  PROVE  Current(EntriesAt(I))
<1> DEFINE out == EntriesAt(I)
<1>1. held \in Seq(Entry) /\ Len(held) <= MaxEntries
  BY DEF Current
<1>2. /\ out \in Seq(Entry) /\ Len(out) <= Len(held) /\ Len(out) \in Nat /\ Len(held) \in Nat
      /\ \A k \in DOMAIN out : \E i \in I : out[k] = held[i]
  BY <1>1, EntriesHeld
<1>3. Len(out) <= MaxEntries
  BY <1>1, <1>2, CacheSizesAssumption
<1> HIDE DEF out
<1>4. \A k \in DOMAIN out : out[k].freshUntil > 0 => announced[out[k].ref] <= out[k].version
  BY <1>2 DEF Current
<1>5. Current(out)
  BY <1>2, <1>3, <1>4 DEF Current
<1> QED
  BY <1>5 DEF out

LEMMA OneMoreCurrent ==
  ASSUME NEW hs, Current(hs), Len(hs) < MaxEntries, NEW e \in Entry,
         e.freshUntil > 0 => announced[e.ref] <= e.version
  PROVE  Current(Append(hs, e))
<1> DEFINE out == Append(hs, e)
<1>1. hs \in Seq(Entry) /\ Len(hs) \in Nat /\ MaxEntries \in Nat
  BY CacheSizesAssumption DEF Current
<1>2. /\ out \in Seq(Entry) /\ Len(out) = Len(hs) + 1 /\ DOMAIN out = 1 .. Len(hs) + 1
      /\ DOMAIN hs = 1 .. Len(hs)
      /\ \A i \in 1 .. Len(hs) : out[i] = hs[i]
      /\ out[Len(hs) + 1] = e
  BY <1>1, AppendProperties
<1> HIDE DEF out
<1>3. Len(out) <= MaxEntries
  BY <1>1, <1>2
<1>4. \A i \in DOMAIN out : out[i].freshUntil > 0 => announced[out[i].ref] <= out[i].version
  <2> TAKE i \in DOMAIN out
  <2>1. CASE i \in 1 .. Len(hs)
    BY <1>2, <2>1 DEF Current
  <2>2. CASE i = Len(hs) + 1
    BY <1>2, <2>2
  <2> QED
    BY <1>1, <1>2, <2>1, <2>2
<1>5. Current(out)
  BY <1>2, <1>3, <1>4 DEF Current
<1> QED
  BY <1>5 DEF out

LEMMA TouchedCurrent ==
  ASSUME Current(held), NEW r, NEW i \in Useful(r)
  PROVE  Current(Touched(r, i))
<1> DEFINE I == Useful(r) \ {i}
           hs == EntriesAt(I)
<1>1. held \in Seq(Entry) /\ Len(held) <= MaxEntries /\ Useful(r) \in SUBSET DOMAIN held
  BY DEF Current, Useful
<1>2. I \in SUBSET DOMAIN held /\ i \in DOMAIN held
  BY <1>1
<1>3. /\ IsFiniteSet(Useful(r)) /\ Cardinality(Useful(r)) \in Nat
      /\ Cardinality(Useful(r)) <= Len(held) /\ Len(hs) = Cardinality(I)
  BY <1>1, <1>2, EntriesHeld
<1>4. Cardinality(I) = Cardinality(Useful(r)) - 1
  BY <1>3, FS_RemoveElement
<1>5. Len(hs) < MaxEntries
  BY <1>1, <1>3, <1>4, CacheSizesAssumption
<1>6. Current(hs)
  BY <1>2, PickedCurrent
<1>7. held[i] \in Entry /\ (held[i].freshUntil > 0 => announced[held[i].ref] <= held[i].version)
  BY <1>1, <1>2 DEF Current
<1> HIDE DEF hs
<1>8. Current(Append(hs, held[i]))
  BY <1>5, <1>6, <1>7, OneMoreCurrent
<1> QED
  BY <1>8 DEF Touched, hs

LEMMA KeptCurrent ==
  ASSUME Current(held), NEW r
  PROVE  Current(Kept(r))
  BY PickedCurrent DEF Kept, Useful

LEMMA BestTouched ==
  ASSUME Current(held), NEW r, NEW w, Covering(r, w) # {}
  PROVE  Current(Touched(r, Best(r, w)))
<1>1. Best(r, w) \in Covering(r, w)
  BY BestCovers DEF Current
<1>2. Best(r, w) \in Useful(r)
  BY <1>1 DEF Covering, Useful
<1> QED
  BY <1>2, TouchedCurrent

LEMMA FallbackCurrent ==
  ASSUME Current(held), NEW r, NEW w, Fallback(r, w)
  PROVE  Current(held')
  BY KeptCurrent, BestTouched DEF Fallback

LEMMA StoredCurrent ==
  ASSUME Current(held), NEW e \in Entry, e.freshUntil > 0 => announced[e.ref] <= e.version
  PROVE  Current(Stored(e))
<1> DEFINE I == {i \in DOMAIN held : held[i].ref # e.ref \/ held[i].window # e.window}
           others == EntriesAt(I)
           first == Len(others) - MaxEntries + 2
           late == SubSeq(others, first, Len(others))
<1>1. Current(others)
  BY PickedCurrent
<1>2. others \in Seq(Entry) /\ Len(others) \in Nat /\ Len(others) <= MaxEntries
  BY <1>1 DEF Current
<1>3. Stored(e) = IF Len(others) >= MaxEntries THEN Append(late, e) ELSE Append(others, e)
  BY DEF Stored
<1> HIDE DEF others
<1>4. CASE Len(others) >= MaxEntries
  <2>1. /\ MaxEntries \in Nat /\ MaxEntries >= 1 /\ Len(others) = MaxEntries /\ first = 2
    BY <1>2, <1>4, CacheSizesAssumption
  <2>2. /\ late \in Seq(Entry) /\ Len(late) = MaxEntries - 1
        /\ \A k \in 1 .. Len(late) : late[k] = others[k + 1] /\ k + 1 \in DOMAIN others
    <3>1. late = SubSeq(others, 2, MaxEntries)
      BY <2>1
    <3> HIDE DEF late, first
    <3>2. late \in Seq(Entry) /\ Len(late) = MaxEntries - 1
      BY <1>2, <2>1, <3>1
    <3>3. \A k \in 1 .. MaxEntries - 1 : late[k] = others[k + 1] /\ k + 1 \in DOMAIN others
      BY <1>2, <2>1, <3>1
    <3> QED
      BY <3>2, <3>3
  <2> HIDE DEF late, first
  <2>3. Current(late)
    <3>1. DOMAIN late = 1 .. Len(late)
      BY <2>2
    <3>2. \A k \in DOMAIN late : late[k].freshUntil > 0 => announced[late[k].ref] <= late[k].version
      BY <1>1, <2>2, <3>1 DEF Current
    <3>3. Len(late) <= MaxEntries
      BY <2>1, <2>2
    <3> QED
      BY <2>2, <3>2, <3>3 DEF Current
  <2>4. Len(late) < MaxEntries
    BY <2>1, <2>2
  <2> QED
    BY <1>3, <1>4, <2>3, <2>4, OneMoreCurrent
<1>5. CASE ~ (Len(others) >= MaxEntries)
  <2>1. Len(others) < MaxEntries
    BY <1>2, <1>5, CacheSizesAssumption
  <2> QED
    BY <1>1, <1>3, <1>5, <2>1, OneMoreCurrent
<1> QED
  BY <1>4, <1>5

(* A step of a read, and the calls that wait for it: what is held stays as  *)
(* it should, and so does every flight.                                    *)
LEMMA ReadKeeps ==
  ASSUME CacheInv, UNCHANGED <<cacheNow, calendar, announced, generation>>,
         DOMAIN failedAt' \subseteq Refs, Current(held'), \A f \in flights' : FlightRight(f)
  PROVE  CacheInv'
<1>1. Ledgers'
  BY DEF CacheInv, Ledgers
<1>2. Current(held)'
  BY DEF Current
<1>3. (\A f \in flights : FlightRight(f))'
  BY DEF FlightRight, Gen
<1> QED
  BY <1>1, <1>2, <1>3 DEF CacheInv

LEMMA CalledKeeps ==
  ASSUME CacheInv, NEW r \in Refs, NEW w \in Windows,
         Hit(r, w) \/ StandIn(r, w) \/ Join(r, w) \/ StartFlight(r, w)
  PROVE  CacheInv'
<1>0. Current(held) /\ Ledgers /\ DOMAIN failedAt \subseteq Refs /\ \A f \in flights : FlightRight(f)
  BY DEF CacheInv, Ledgers
<1>1. CASE Hit(r, w)
  <2>1. Current(held')
    BY <1>0, <1>1, BestTouched DEF Hit
  <2> QED
    BY <1>0, <1>1, <2>1, ReadKeeps DEF Hit
<1>2. CASE StandIn(r, w)
  <2>1. Current(held')
    BY <1>0, <1>2, FallbackCurrent DEF StandIn
  <2> QED
    BY <1>0, <1>2, <2>1, ReadKeeps DEF StandIn
<1>3. CASE Join(r, w)
  <2>1. PICK f \in flights : flights' = (flights \ {f}) \cup {[f EXCEPT !.waiting = f.waiting \cup {w}]}
    BY <1>3 DEF Join, FlightsFor
  <2> DEFINE g == [f EXCEPT !.waiting = f.waiting \cup {w}]
  <2>2. FlightRight(f)
    BY <1>0
  <2>3. FlightRight(g)
    <3>1. g \in Flight /\ g.gen = f.gen /\ g.ref = f.ref /\ g.read = f.read /\ g.version = f.version
      BY <2>2 DEF FlightRight, Flight
    <3> HIDE DEF g
    <3> QED
      BY <2>2, <3>1 DEF FlightRight
  <2> HIDE DEF g
  <2>4. \A x \in flights' : FlightRight(x)
    BY <1>0, <2>1, <2>3 DEF g
  <2>5. Current(held')
    BY <1>0, <1>3, KeptCurrent DEF Join
  <2> QED
    BY <1>0, <1>3, <2>4, <2>5, ReadKeeps DEF Join
<1>4. CASE StartFlight(r, w)
  <2> DEFINE g == [ref |-> r, window |-> w, version |-> 0, read |-> FALSE,
                   startedAt |-> cacheNow, gen |-> Gen(r), waiting |-> {w}]
  <2>1. FlightRight(g)
    <3>1. Gen(r) \in Nat /\ cacheNow \in 0 .. MaxCacheTime /\ 0 \in 0 .. MaxWrites
      BY <1>0, GenIsNat, CacheSizesAssumption DEF Ledgers
    <3>2. g \in Flight
      BY <3>1 DEF Flight
    <3>3. g.gen = Gen(r) /\ g.ref = r /\ ~ g.read
      OBVIOUS
    <3> HIDE DEF g
    <3> QED
      BY <3>1, <3>2, <3>3 DEF FlightRight
  <2> HIDE DEF g
  <2>2. \A x \in flights' : FlightRight(x)
    BY <1>0, <1>4, <2>1 DEF StartFlight, g
  <2>3. Current(held')
    BY <1>0, <1>4, KeptCurrent DEF StartFlight
  <2> QED
    BY <1>0, <1>4, <2>2, <2>3, ReadKeeps DEF StartFlight
<1> QED
  BY <1>1, <1>2, <1>3, <1>4

LEMMA FlightKeeps ==
  ASSUME CacheInv, NEW f \in flights,
         CalendarAnswers(f) \/ Lands(f) \/ Fails(f) \/ TimesOut(f)
  PROVE  CacheInv'
<1>0. /\ Current(held) /\ Ledgers /\ DOMAIN failedAt \subseteq Refs
      /\ \A x \in flights : FlightRight(x)
      /\ FlightRight(f) /\ f \in Flight
  BY DEF CacheInv, Ledgers, FlightRight
<1>r. /\ f.ref \in Refs /\ f.window \in Windows /\ f.version \in 0 .. MaxWrites /\ f.gen \in Nat
      /\ f.startedAt \in 0 .. MaxCacheTime
  BY <1>0 DEF Flight
<1>1. CASE CalendarAnswers(f)
  <2> DEFINE g == [f EXCEPT !.read = TRUE, !.version = calendar[f.ref]]
  <2>1. calendar[f.ref] \in 0 .. MaxWrites /\ announced[f.ref] <= calendar[f.ref]
    BY <1>0, <1>r DEF Ledgers
  <2>2. g \in Flight /\ g.gen = f.gen /\ g.ref = f.ref /\ g.version = calendar[f.ref]
    BY <1>0, <2>1 DEF Flight
  <2> HIDE DEF g
  <2>3. FlightRight(g)
    BY <1>0, <2>1, <2>2 DEF FlightRight
  <2>4. \A x \in flights' : FlightRight(x)
    BY <1>0, <1>1, <2>3 DEF CalendarAnswers, g
  <2> QED
    BY <1>0, <1>1, <2>4, ReadKeeps DEF CalendarAnswers
<1>2. CASE Lands(f)
  <2> DEFINE e == Landed(f)
  <2>1. e \in Entry /\ (e.freshUntil > 0 => announced[e.ref] <= e.version)
    <3> DEFINE u == IF Gen(f.ref) = f.gen THEN f.startedAt + Ttl ELSE 0
    <3>1. u \in 0 .. MaxCacheTime + Ttl
      BY <1>r, CacheSizesAssumption
    <3>2. u > 0 => announced[f.ref] <= f.version
      BY <1>0, <1>2 DEF Lands, FlightRight
    <3> HIDE DEF u
    <3>3. e = [ref |-> f.ref, window |-> f.window, version |-> f.version,
               fetchedAt |-> f.startedAt, freshUntil |-> u]
      BY DEF Landed, u
    <3> HIDE DEF e
    <3>4. e.ref = f.ref /\ e.version = f.version /\ e.freshUntil = u
      BY <3>3
    <3>5. e \in Entry
      BY <1>r, <3>1, <3>3 DEF Entry
    <3> QED
      BY <3>2, <3>4, <3>5
  <2> HIDE DEF e
  <2>2. Current(held')
    BY <1>0, <1>2, <2>1, StoredCurrent DEF Lands, e
  <2>3. DOMAIN failedAt' \subseteq Refs /\ \A x \in flights' : FlightRight(x)
    BY <1>0, <1>2 DEF Lands, Without
  <2> QED
    BY <1>2, <2>2, <2>3, ReadKeeps DEF Lands
<1>3. CASE Fails(f)
  <2>1. Current(held')
    BY <1>0, <1>3, FallbackCurrent DEF Fails
  <2>2. DOMAIN failedAt' \subseteq Refs /\ \A x \in flights' : FlightRight(x)
    BY <1>0, <1>r, <1>3 DEF Fails, Put
  <2> QED
    BY <1>3, <2>1, <2>2, ReadKeeps DEF Fails
<1>4. CASE TimesOut(f)
  <2> DEFINE g == [f EXCEPT !.waiting = {}]
  <2>1. g \in Flight /\ g.gen = f.gen /\ g.ref = f.ref /\ g.read = f.read /\ g.version = f.version
    BY <1>0 DEF Flight
  <2> HIDE DEF g
  <2>2. FlightRight(g)
    BY <1>0, <2>1 DEF FlightRight
  <2>3. \A x \in flights' : FlightRight(x)
    BY <1>0, <1>4, <2>2 DEF TimesOut, g
  <2>4. Current(held')
    BY <1>0, <1>4, FallbackCurrent DEF TimesOut
  <2> QED
    BY <1>0, <1>4, <2>3, <2>4, ReadKeeps DEF TimesOut
<1> QED
  BY <1>1, <1>2, <1>3, <1>4

(* An invalidation leaves nothing of its connection fresh, neither held nor *)
(* in flight; a generation it prunes is of a connection with neither.      *)
LEMMA InvalidateKeeps ==
  ASSUME CacheInv, NEW r \in Refs, Invalidate(r)
  PROVE  CacheInv'
<1> DEFINE bumped == Put(generation, r, Gen(r) + 1)
<1>0. /\ held \in Seq(Entry) /\ Len(held) <= MaxEntries /\ Ledgers
      /\ \A i \in DOMAIN held : held[i].freshUntil > 0 => announced[held[i].ref] <= held[i].version
      /\ \A f \in flights : FlightRight(f)
  BY DEF CacheInv, Current
<1>1. /\ announced' = [announced EXCEPT ![r] = calendar[r]]
      /\ held' = [i \in DOMAIN held |-> IF held[i].ref = r THEN [held[i] EXCEPT !.freshUntil = 0]
                                        ELSE held[i]]
      /\ generation' = IF Cardinality(DOMAIN bumped) > PruneAt
                       THEN Without(bumped, DOMAIN bumped \ LiveRefs) ELSE bumped
      /\ UNCHANGED <<cacheNow, calendar, flights, failedAt>>
  BY DEF Invalidate
<1>2. Gen(r) \in Nat
  BY <1>0, GenIsNat
<1>3. /\ DOMAIN bumped = DOMAIN generation \cup {r}
      /\ \A x \in DOMAIN bumped : bumped[x] = IF x = r THEN Gen(r) + 1 ELSE generation[x]
  BY DEF Put
<1> HIDE DEF bumped
<1>4. /\ DOMAIN generation' \subseteq DOMAIN bumped
      /\ \A x \in DOMAIN generation' : generation'[x] = bumped[x]
      /\ \A x \in LiveRefs : x \in DOMAIN bumped => x \in DOMAIN generation'
  BY <1>1 DEF Without
<1>5. \A f \in flights : f.ref \in LiveRefs
  BY DEF LiveRefs
<1>6. \A x \in LiveRefs : Gen(x)' = IF x = r THEN Gen(r) + 1 ELSE Gen(x)
  BY <1>3, <1>4 DEF Gen
<1>7. Ledgers'
  <2>1. calendar[r] \in 0 .. MaxWrites
    BY <1>0 DEF Ledgers
  <2>2. announced' \in [Refs -> 0 .. MaxWrites] /\ \A x \in Refs : announced'[x] <= calendar'[x]
    BY <1>0, <1>1, <2>1 DEF Ledgers
  <2>3. DOMAIN generation' \subseteq Refs /\ \A x \in DOMAIN generation' : generation'[x] \in Nat
    BY <1>0, <1>2, <1>3, <1>4 DEF Ledgers
  <2> QED
    BY <1>0, <1>1, <2>2, <2>3 DEF Ledgers
<1>8. \A f \in flights : FlightRight(f)'
  <2> SUFFICES ASSUME NEW f \in flights PROVE FlightRight(f)'
    OBVIOUS
  <2>1. FlightRight(f) /\ f \in Flight /\ f.gen \in Nat /\ f.ref \in Refs
    BY <1>0 DEF FlightRight, Flight
  <2>2. CASE f.ref = r
    <3>1. Gen(f.ref)' = Gen(r) + 1 /\ f.gen <= Gen(r)
      BY <1>5, <1>6, <2>1, <2>2 DEF FlightRight
    <3>2. f.gen <= Gen(f.ref)' /\ f.gen # Gen(f.ref)'
      BY <1>2, <2>1, <3>1
    <3> QED
      BY <2>1, <3>2 DEF FlightRight
  <2>3. CASE f.ref # r
    <3>1. Gen(f.ref)' = Gen(f.ref)
      BY <1>5, <1>6, <2>3
    <3>2. announced'[f.ref] = announced[f.ref]
      BY <1>0, <1>1, <2>1, <2>3 DEF Ledgers
    <3> QED
      BY <2>1, <3>1, <3>2 DEF FlightRight
  <2> QED
    BY <2>2, <2>3
<1>9. Current(held)'
  <2>1. \A i \in DOMAIN held : held[i] \in Entry /\ held[i].ref \in Refs
    <3> TAKE i \in DOMAIN held
    <3>1. held[i] \in Entry
      BY <1>0
    <3> QED
      BY <3>1 DEF Entry
  <2>2. \A i \in DOMAIN held : [held[i] EXCEPT !.freshUntil = 0] \in Entry
    BY <2>1, CacheSizesAssumption DEF Entry
  <2>3. /\ DOMAIN held' = DOMAIN held /\ DOMAIN held = 1 .. Len(held) /\ Len(held) \in Nat
        /\ \A i \in DOMAIN held : held'[i] = IF held[i].ref = r THEN [held[i] EXCEPT !.freshUntil = 0]
                                             ELSE held[i]
    BY <1>0, <1>1
  <2>4. held' \in Seq(Entry) /\ Len(held') = Len(held)
    <3>1. \A i \in 1 .. Len(held) : held'[i] \in Entry
      BY <2>1, <2>2, <2>3
    <3>2. held' = [i \in 1 .. Len(held) |-> held'[i]]
      BY <1>1, <2>3
    <3> QED
      BY <2>3, <3>1, <3>2
  <2>5. ASSUME NEW i \in DOMAIN held, held'[i].freshUntil > 0
        PROVE  announced'[held'[i].ref] <= held'[i].version
    <3>1. CASE held[i].ref = r
      <4>1. held'[i].freshUntil = 0
        BY <2>1, <2>3, <3>1 DEF Entry
      <4> QED
        BY <2>5, <4>1
    <3>2. CASE held[i].ref # r
      <4>1. held'[i] = held[i] /\ announced'[held[i].ref] = announced[held[i].ref]
        BY <1>0, <1>1, <2>1, <2>3, <3>2 DEF Ledgers
      <4> QED
        BY <1>0, <2>5, <4>1
    <3> QED
      BY <3>1, <3>2
  <2> QED
    BY <1>0, <2>3, <2>4, <2>5 DEF Current
<1> QED
  BY <1>1, <1>7, <1>8, <1>9 DEF CacheInv

LEMMA CacheStep == CacheInv /\ [CacheNext]_cacheVars => CacheInv'
<1> SUFFICES ASSUME CacheInv, [CacheNext]_cacheVars PROVE CacheInv'
  OBVIOUS
<1>0. Current(held) /\ Ledgers /\ \A f \in flights : FlightRight(f)
  BY DEF CacheInv
<1>1. ASSUME NEW r \in Refs, NEW w \in Windows,
             Hit(r, w) \/ StandIn(r, w) \/ Join(r, w) \/ StartFlight(r, w)
      PROVE  CacheInv'
  BY <1>1, CalledKeeps
<1>2. ASSUME NEW f \in flights, CalendarAnswers(f) \/ Lands(f) \/ Fails(f) \/ TimesOut(f)
      PROVE  CacheInv'
  BY <1>2, FlightKeeps
<1>3. ASSUME NEW r \in Refs, CalendarChanges(r)
      PROVE  CacheInv'
  <2>1. /\ calendar' = [calendar EXCEPT ![r] = calendar[r] + 1] /\ calendar[r] < MaxWrites
        /\ UNCHANGED <<cacheNow, announced, held, flights, generation, failedAt>>
    BY <1>3 DEF CalendarChanges
  <2>2. calendar[r] \in 0 .. MaxWrites /\ calendar[r] + 1 \in 0 .. MaxWrites
    BY <1>0, <2>1, CacheSizesAssumption DEF Ledgers
  <2>3. calendar' \in [Refs -> 0 .. MaxWrites] /\ \A x \in Refs : announced[x] <= calendar'[x]
    <3>1. calendar' \in [Refs -> 0 .. MaxWrites]
      BY <1>0, <2>1, <2>2 DEF Ledgers
    <3>2. ASSUME NEW x \in Refs PROVE announced[x] <= calendar'[x]
      <4>1. announced[x] <= calendar[x] /\ announced[x] \in Int /\ calendar[x] \in Int
        BY <1>0 DEF Ledgers
      <4>2. calendar'[x] = IF x = r THEN calendar[r] + 1 ELSE calendar[x]
        BY <1>0, <2>1 DEF Ledgers
      <4> QED
        BY <2>2, <4>1, <4>2
    <3> QED
      BY <3>1, <3>2
  <2>4. Ledgers'
    BY <1>0, <2>1, <2>3 DEF Ledgers
  <2>5. Current(held)'
    BY <1>0, <2>1 DEF Current
  <2>6. (\A f \in flights : FlightRight(f))'
    BY <1>0, <2>1 DEF FlightRight, Gen
  <2> QED
    BY <2>4, <2>5, <2>6 DEF CacheInv
<1>4. ASSUME NEW r \in Refs, Invalidate(r)
      PROVE  CacheInv'
  BY <1>4, InvalidateKeeps
<1>5. CASE CacheTick \/ UNCHANGED cacheVars
  <2>1. cacheNow' \in 0 .. MaxCacheTime
        /\ UNCHANGED <<calendar, announced, held, flights, generation, failedAt>>
    BY <1>0, <1>5, CacheSizesAssumption DEF CacheTick, cacheVars, Ledgers
  <2>2. Ledgers'
    BY <1>0, <2>1 DEF Ledgers
  <2>3. Current(held)'
    BY <1>0, <2>1 DEF Current
  <2>4. (\A f \in flights : FlightRight(f))'
    BY <1>0, <2>1 DEF FlightRight, Gen
  <2> QED
    BY <2>2, <2>3, <2>4 DEF CacheInv
<1> QED
  BY <1>1, <1>2, <1>3, <1>4, <1>5 DEF CacheNext

(* The cache's inductive invariant holds always. *)
THEOREM CacheInductive == CacheSpec => []CacheInv
<1>1. CacheInit => CacheInv
  <2> SUFFICES ASSUME CacheInit PROVE CacheInv
    OBVIOUS
  <2>1. Ledgers
    BY CacheSizesAssumption DEF CacheInit, Ledgers, EmptyMap
  <2>2. Current(held)
    BY CacheSizesAssumption DEF CacheInit, Current
  <2> QED
    BY <2>1, <2>2 DEF CacheInit, CacheInv
<1> QED
  BY <1>1, CacheStep, PTL DEF CacheSpec

(* FreshIsCurrent and the types: wherever an invalidation falls between a   *)
(* read's start, its answer and its landing, what is held as fresh is as   *)
(* late as the last invalidation.                                          *)
THEOREM FreshKept == CacheSpec => [](CacheTypeOK /\ FreshIsCurrent)
<1>1. CacheInv => CacheTypeOK /\ FreshIsCurrent
  <2> SUFFICES ASSUME CacheInv PROVE CacheTypeOK /\ FreshIsCurrent
    OBVIOUS
  <2>1. Ledgers /\ Current(held) /\ \A f \in flights : f \in Flight
    BY DEF CacheInv, FlightRight
  <2>2. CacheTypeOK
    BY <2>1 DEF CacheTypeOK, Ledgers, Current
  <2>3. ASSUME NEW i \in DOMAIN held, Fresh(held[i])
        PROVE  held[i].version >= announced[held[i].ref]
    <3>1. held[i] \in Entry
      BY <2>1 DEF Current
    <3>2. /\ held[i].freshUntil \in 0 .. MaxCacheTime + Ttl /\ held[i].version \in Int
          /\ held[i].ref \in Refs
      BY <3>1 DEF Entry
    <3>3. cacheNow \in Nat /\ announced[held[i].ref] \in Int
      BY <2>1, <3>2 DEF Ledgers
    <3>4. held[i].freshUntil > 0
      BY <2>3, <3>2, <3>3, CacheSizesAssumption DEF Fresh
    <3>5. announced[held[i].ref] <= held[i].version
      BY <2>1, <3>4 DEF Current
    <3> QED
      BY <3>2, <3>3, <3>5
  <2> QED
    BY <2>2, <2>3 DEF FreshIsCurrent
<1> QED
  BY <1>1, CacheInductive, PTL

-----------------------------------------------------------------------------
(***************************************************************************)
(* OAuth.  What a request read is stale when it writes; the invariant says  *)
(* what of it still holds: a code about to be exchanged was spent by this  *)
(* request alone (Spending), a token stored under a revoked grant is about *)
(* to be looked at by who stored it (Alive), and a grant that can be       *)
(* answered with has its row in Connected apps (Shown).                    *)
(***************************************************************************)
Bounded == MaxOAuthTime \in Nat /\ MaxGrants \in Nat /\ RefreshGrace \in Nat

Points == {"idle", "take", "approve", "meta", "answer", "check", "touch", "touching",
           "consume", "lost", "issue"}
TicketT == [row : BOOLEAN, made : Nat]
GrantT == [row : BOOLEAN, meta : {"none", "shown", "nobody's"}]
TokenT == [kind : {"code", "refresh"}, grant : Nat, row : BOOLEAN, spent : Nat, from : Nat,
           asof : Nat, handed : BOOLEAN]
ReqT == [pc : Points, ticket : Nat, grant : Nat, token : Nat, asof : Nat]

OAuthTyped ==
    /\ oauthNow \in Nat /\ oauthNow <= MaxOAuthTime
    /\ ticket \in Seq(TicketT) /\ answer \in Nat
    /\ grant \in Seq(GrantT) /\ Len(grant) <= MaxGrants
    /\ token \in Seq(TokenT)
    /\ oauthReq \in [OAuthRequests -> ReqT]

(* What is named is there.                                                 *)
Named(p) ==
    /\ oauthReq[p].pc \in {"take", "approve"} => oauthReq[p].ticket \in DOMAIN ticket
    /\ oauthReq[p].pc \in {"meta", "answer", "check", "touch", "touching"} => oauthReq[p].grant \in DOMAIN grant
    /\ oauthReq[p].pc \in {"check", "consume", "lost", "issue"} => oauthReq[p].token \in DOMAIN token
    /\ oauthReq[p].pc = "check" => token[oauthReq[p].token].grant = oauthReq[p].grant

Placed ==
    /\ \A t \in DOMAIN token : token[t].grant \in DOMAIN grant /\ token[t].from < t
    /\ answer \in {Open, Refused} \cup DOMAIN grant
    /\ \A p \in OAuthRequests : Named(p)

(* Who took a ticket is the only one to approve by it, and has yet to.      *)
Tickets ==
    /\ \A k \in DOMAIN ticket : ticket[k].made <= 1 /\ (ticket[k].row => ticket[k].made = 0)
    /\ \A p \in OAuthRequests : oauthReq[p].pc = "approve" =>
          /\ ~ ticket[oauthReq[p].ticket].row /\ ticket[oauthReq[p].ticket].made = 0
          /\ \A q \in OAuthRequests : q # p /\ oauthReq[q].pc = "approve" => oauthReq[q].ticket # oauthReq[p].ticket

(* What a spent token yields is as of within its grace.                     *)
Within(t, at) ==
    /\ token[t].spent # Never
    /\ token[t].spent <= at /\ at <= token[t].spent + RefreshGrace

Spending ==
    /\ \A t \in DOMAIN token : token[t].spent # Never => token[t].spent <= oauthNow
    /\ \A t \in DOMAIN token : token[t].from # 0 => Within(token[t].from, token[t].asof)
    /\ \A p \in OAuthRequests : oauthReq[p].pc = "issue" => Within(oauthReq[p].token, oauthReq[p].asof)

(* A code is exchanged by one request, once.                                *)
Codes ==
    /\ \A t, u \in DOMAIN token :
          t # u /\ token[t].from = token[u].from /\ token[t].from # 0
              => token[token[t].from].kind = "refresh"
    /\ \A p \in OAuthRequests : oauthReq[p].pc = "issue" /\ token[oauthReq[p].token].kind = "code" =>
          /\ \A t \in DOMAIN token : token[t].from # oauthReq[p].token
          /\ \A q \in OAuthRequests : q # p /\ oauthReq[q].pc = "issue" => oauthReq[q].token # oauthReq[p].token

Alive == NothingOutlivesItsGrant

(* A grant still there has its row in Connected apps.                       *)
IsShown(g) == grant[g].row => grant[g].meta = "shown"

Shown ==
    /\ \A t \in DOMAIN token : IsShown(token[t].grant)
    /\ answer \in DOMAIN grant => IsShown(answer)
    /\ \A p \in OAuthRequests : oauthReq[p].pc = "answer" => IsShown(oauthReq[p].grant)

OAuthInv == OAuthTyped /\ Placed /\ Tickets /\ Spending /\ Codes /\ Alive /\ Shown

-----------------------------------------------------------------------------
(* Sequences. *)

LEMMA Domains == ASSUME NEW S, NEW s \in Seq(S) PROVE DOMAIN s = 1 .. Len(s) /\ Len(s) \in Nat
  BY LenProperties

LEMMA Members == ASSUME NEW S, NEW s \in Seq(S), NEW i \in DOMAIN s PROVE s[i] \in S
  BY ElementOfSeq, Domains

LEMMA Updated ==
    ASSUME NEW S, NEW s \in Seq(S), NEW i \in DOMAIN s, NEW e \in S
    PROVE  /\ [s EXCEPT ![i] = e] \in Seq(S)
           /\ DOMAIN [s EXCEPT ![i] = e] = DOMAIN s
           /\ Len([s EXCEPT ![i] = e]) = Len(s)
           /\ \A j \in DOMAIN s : [s EXCEPT ![i] = e][j] = IF j = i THEN e ELSE s[j]
  BY Domains, ExceptSeq

LEMMA Appended ==
    ASSUME NEW S, NEW s \in Seq(S), NEW e \in S
    PROVE  /\ Append(s, e) \in Seq(S)
           /\ DOMAIN Append(s, e) = DOMAIN s \cup {Len(s) + 1} /\ Len(s) + 1 \notin DOMAIN s
           /\ Len(Append(s, e)) = Len(s) + 1
           /\ \A j \in DOMAIN s : Append(s, e)[j] = s[j]
           /\ Append(s, e)[Len(s) + 1] = e
<1>1. Append(s, e) \in Seq(S) /\ Len(Append(s, e)) = Len(s) + 1
  BY AppendProperties
<1>2. DOMAIN Append(s, e) = 1 .. Len(s) + 1 /\ DOMAIN s = 1 .. Len(s) /\ Len(s) \in Nat
  BY <1>1, Domains
<1> QED
  BY <1>1, <1>2, AppendProperties

(* A sequence rewritten element by element.                                *)
LEMMA Rewritten ==
    ASSUME NEW S, NEW s \in Seq(S), NEW u \in [DOMAIN s -> S]
    PROVE  u \in Seq(S) /\ Len(u) = Len(s)
<1>1. DOMAIN s = 1 .. Len(s) /\ Len(s) \in Nat
  BY Domains
<1>2. u \in Seq(S)
  BY <1>1, SeqDef
<1> QED
  BY <1>1, <1>2, Domains

-----------------------------------------------------------------------------
(* What a step may leave alone. *)

(* No token is added, none comes back, none changes what it is.            *)
TokensKept ==
    /\ token' \in Seq(TokenT) /\ DOMAIN token' = DOMAIN token
    /\ \A t \in DOMAIN token :
          /\ token'[t].kind = token[t].kind /\ token'[t].grant = token[t].grant
          /\ token'[t].from = token[t].from /\ token'[t].asof = token[t].asof
          /\ token'[t].row => token[t].row

SpentKept == \A t \in DOMAIN token : token'[t].spent = token[t].spent
HandedKept == \A t \in DOMAIN token : token'[t].handed = token[t].handed

(* A token that keeps its row keeps its grant's.                           *)
TokenRowsKept ==
    \A t \in DOMAIN token :
        token'[t].row => grant'[token[t].grant].row = grant[token[t].grant].row

ShownThen(g) == grant'[g].row => grant'[g].meta = "shown"
WithinThen(t, at) ==
    /\ token'[t].spent # Never
    /\ token'[t].spent <= at /\ at <= token'[t].spent + RefreshGrace

GrantsKept ==
    /\ grant' \in Seq(GrantT) /\ Len(grant') = Len(grant) /\ DOMAIN grant' = DOMAIN grant
    /\ \A g \in DOMAIN grant : IsShown(g) => ShownThen(g)

(* Nobody comes to a point, and nobody leaves one.                         *)
NoneComes(pc) == \A q \in OAuthRequests : oauthReq'[q].pc = pc => oauthReq'[q] = oauthReq[q]
NoneLeaves(pc) == \A q \in OAuthRequests : oauthReq[q].pc = pc => oauthReq'[q] = oauthReq[q]

LEMMA SameTokens ==
    ASSUME OAuthTyped, UNCHANGED token
    PROVE  TokensKept /\ SpentKept /\ HandedKept
  BY DEF OAuthTyped, TokensKept, SpentKept, HandedKept

LEMMA SameGrants ==
    ASSUME OAuthTyped, UNCHANGED grant
    PROVE  GrantsKept /\ TokenRowsKept
  BY DEF OAuthTyped, GrantsKept, TokenRowsKept, IsShown, ShownThen

(* Where a request goes, alone.                                            *)
LEMMA Going ==
    ASSUME OAuthTyped, NEW p \in OAuthRequests, NEW r \in ReqT, Goes(p, r)
    PROVE  /\ oauthReq' \in [OAuthRequests -> ReqT] /\ oauthReq'[p] = r
           /\ \A q \in OAuthRequests : q # p => oauthReq'[q] = oauthReq[q]
  BY DEF OAuthTyped, Goes

LEMMA IdleTyped == Idle \in ReqT
  BY DEF Idle, ReqT, Points

LEMMA ToTyped ==
    ASSUME OAuthTyped, NEW p \in OAuthRequests, NEW pc \in Points
    PROVE  LET r == [oauthReq[p] EXCEPT !.pc = pc]
           IN  /\ r \in ReqT /\ r.pc = pc /\ r.ticket = oauthReq[p].ticket /\ r.grant = oauthReq[p].grant
               /\ r.token = oauthReq[p].token /\ r.asof = oauthReq[p].asof
  BY DEF OAuthTyped, ReqT

(* A revocation takes the tokens with the grant.                           *)
LEMMA Revoking ==
    ASSUME OAuthTyped, Placed, NEW g \in DOMAIN grant, Revoke(g)
    PROVE  TokensKept /\ SpentKept /\ HandedKept /\ TokenRowsKept /\ GrantsKept
<1>1. grant[g] \in GrantT /\ token \in Seq(TokenT)
  BY Members DEF OAuthTyped
<1>2. [row |-> FALSE, meta |-> "none"] \in GrantT
  BY DEF GrantT
<1>3. /\ grant' \in Seq(GrantT) /\ DOMAIN grant' = DOMAIN grant /\ Len(grant') = Len(grant)
      /\ \A h \in DOMAIN grant : grant'[h] = IF h = g THEN [row |-> FALSE, meta |-> "none"] ELSE grant[h]
  BY <1>2, Updated DEF Revoke, Gone, OAuthTyped
<1>4. GrantsKept
  BY <1>3 DEF GrantsKept, IsShown, ShownThen
<1>5. \A t \in DOMAIN token : token[t] \in TokenT
  BY <1>1, Members
<1>6. /\ DOMAIN token' = DOMAIN token
      /\ \A t \in DOMAIN token :
            token'[t] = IF token[t].grant = g THEN [token[t] EXCEPT !.row = FALSE] ELSE token[t]
  BY DEF Revoke, Killed
<1>7. \A t \in DOMAIN token : [token[t] EXCEPT !.row = FALSE] \in TokenT
  BY <1>5 DEF TokenT
<1>8. token' \in [DOMAIN token -> TokenT]
  BY <1>5, <1>7 DEF Revoke, Killed
<1>9. token' \in Seq(TokenT)
  BY <1>1, <1>8, Rewritten
<1>10. TokensKept /\ SpentKept /\ HandedKept
  BY <1>5, <1>6, <1>9 DEF TokensKept, SpentKept, HandedKept, TokenT
<1>11. TokenRowsKept
  BY <1>3, <1>5, <1>6 DEF TokenRowsKept, TokenT, Placed
<1> QED
  BY <1>4, <1>10, <1>11

LEMMA PlacedStays ==
    ASSUME OAuthTyped, Placed, TokensKept, DOMAIN grant \subseteq DOMAIN grant',
           DOMAIN ticket \subseteq DOMAIN ticket',
           answer' \in {answer, Refused} \/ answer' \in DOMAIN grant',
           \A q \in OAuthRequests : oauthReq'[q] = oauthReq[q] \/ Named(q)'
    PROVE  Placed'
<1>1. \A t \in DOMAIN token' : token'[t].grant \in DOMAIN grant' /\ token'[t].from < t
  BY DEF Placed, TokensKept
<1>2. answer' \in {Open, Refused'} \cup DOMAIN grant'
  BY DEF Placed, Refused
<1>3. \A q \in OAuthRequests : Named(q)'
  <2> SUFFICES ASSUME NEW q \in OAuthRequests, oauthReq'[q] = oauthReq[q] PROVE Named(q)'
    OBVIOUS
  <2>1. Named(q)
    BY DEF Placed
  <2> QED
    BY <2>1 DEF Named, TokensKept
<1> QED
  BY <1>1, <1>2, <1>3 DEF Placed

(* What a token's row is made of.                                        *)
LEMMA Fields ==
    ASSUME OAuthTyped, NEW t \in DOMAIN token
    PROVE  /\ token[t] \in TokenT
           /\ token[t].kind \in {"code", "refresh"} /\ token[t].grant \in Nat
           /\ token[t].row \in BOOLEAN /\ token[t].spent \in Nat /\ token[t].from \in Nat
           /\ token[t].asof \in Nat /\ token[t].handed \in BOOLEAN
<1>1. token \in Seq(TokenT)
  BY DEF OAuthTyped
<1>2. token[t] \in TokenT
  BY <1>1, Members
<1> QED
  BY <1>2 DEF TokenT

(* What a token came from is a token.                                      *)
LEMMA Sources ==
    ASSUME OAuthTyped, Placed
    PROVE  \A t \in DOMAIN token : token[t].from # 0 => token[t].from \in DOMAIN token
<1> SUFFICES ASSUME NEW t \in DOMAIN token, token[t].from # 0 PROVE token[t].from \in DOMAIN token
  OBVIOUS
<1>1. token[t].from \in Nat /\ token[t].from < t
  BY Fields DEF Placed
<1>2. DOMAIN token = 1 .. Len(token) /\ Len(token) \in Nat
  BY Domains DEF OAuthTyped
<1> QED
  BY <1>1, <1>2

LEMMA TicketsStay ==
    ASSUME Tickets, UNCHANGED ticket, NoneComes("approve")
    PROVE  Tickets'
  BY DEF Tickets, NoneComes

LEMMA SpendingStays ==
    ASSUME OAuthTyped, Placed, Spending, TokensKept, SpentKept, oauthNow' \in Nat, oauthNow <= oauthNow',
           NoneComes("issue")
    PROVE  Spending'
<1>1. \A t \in DOMAIN token : token[t].spent \in Nat
  BY Fields
<1>2. ASSUME NEW t \in DOMAIN token, token'[t].spent # Never
      PROVE  token'[t].spent <= oauthNow'
  <2>1. token'[t].spent = token[t].spent /\ token[t].spent <= oauthNow
    BY <1>2 DEF Spending, SpentKept
  <2> QED
    BY <1>1, <2>1 DEF OAuthTyped
<1>3. \A t \in DOMAIN token : token[t].from # 0 => token[t].from \in DOMAIN token
  BY Sources
<1>4. \A t \in DOMAIN token : \A at : Within(t, at) => WithinThen(t, at)
  BY DEF Within, WithinThen, SpentKept
<1>5. \A t \in DOMAIN token' : token'[t].from # 0 => WithinThen(token'[t].from, token'[t].asof)
  BY <1>3, <1>4 DEF Spending, TokensKept
<1>6. \A p \in OAuthRequests : oauthReq'[p].pc = "issue" => WithinThen(oauthReq'[p].token, oauthReq'[p].asof)
  BY <1>4 DEF Spending, NoneComes, Placed, Named
<1> QED
  BY <1>2, <1>5, <1>6 DEF Spending, TokensKept, Never, Within, WithinThen

LEMMA CodesStay ==
    ASSUME OAuthTyped, Placed, Codes, TokensKept, NoneComes("issue")
    PROVE  Codes'
<1>2. \A t \in DOMAIN token : token[t].from # 0 => token[t].from \in DOMAIN token
  BY Sources
<1>3. \A t, u \in DOMAIN token' :
          t # u /\ token'[t].from = token'[u].from /\ token'[t].from # 0
              => token'[token'[t].from].kind = "refresh"
  BY <1>2 DEF Codes, TokensKept
<1>4. ASSUME NEW p \in OAuthRequests, oauthReq'[p].pc = "issue", token'[oauthReq'[p].token].kind = "code"
      PROVE  /\ \A t \in DOMAIN token' : token'[t].from # oauthReq'[p].token
             /\ \A q \in OAuthRequests : q # p /\ oauthReq'[q].pc = "issue" => oauthReq'[q].token # oauthReq'[p].token
  <2>1. \A q \in OAuthRequests : oauthReq'[q].pc = "issue" => oauthReq'[q] = oauthReq[q]
    BY DEF NoneComes
  <2>2. oauthReq'[p] = oauthReq[p] /\ oauthReq[p].pc = "issue"
    BY <1>4, <2>1
  <2>3. oauthReq[p].token \in DOMAIN token
    BY <2>2 DEF Placed, Named
  <2>4. token[oauthReq[p].token].kind = "code"
    BY <1>4, <2>2, <2>3 DEF TokensKept
  <2>5. /\ \A t \in DOMAIN token : token[t].from # oauthReq[p].token
        /\ \A q \in OAuthRequests : q # p /\ oauthReq[q].pc = "issue" => oauthReq[q].token # oauthReq[p].token
    BY <2>2, <2>4 DEF Codes
  <2>6. \A t \in DOMAIN token' : token'[t].from # oauthReq[p].token
    BY <2>5 DEF TokensKept
  <2>7. ASSUME NEW q \in OAuthRequests, q # p, oauthReq'[q].pc = "issue"
        PROVE  oauthReq'[q].token # oauthReq[p].token
    <3>1. oauthReq'[q] = oauthReq[q]
      BY <2>1, <2>7
    <3> QED
      BY <2>5, <2>7, <3>1
  <2> QED
    BY <2>2, <2>6, <2>7
<1> QED
  BY <1>3, <1>4 DEF Codes

LEMMA AliveStays ==
    ASSUME OAuthTyped, Placed, Alive, TokensKept, HandedKept, TokenRowsKept,
           (deaths' = deaths /\ NoneLeaves("check")) \/ deaths' > 0
    PROVE  Alive'
  BY DEF Alive, NothingOutlivesItsGrant, TokensKept, HandedKept, TokenRowsKept, NoneLeaves, At

LEMMA ShownStays ==
    ASSUME OAuthTyped, Placed, Shown, TokensKept, Bounded,
           grant' \in Seq(GrantT), Len(grant') <= MaxGrants, DOMAIN grant \subseteq DOMAIN grant',
           \A g \in DOMAIN grant : IsShown(g) => ShownThen(g),
           answer' \in {answer, Refused},
           NoneComes("answer")
    PROVE  Shown'
<1>1. Refused \notin DOMAIN grant'
  BY Domains DEF Refused, Bounded
<1>2. \A t \in DOMAIN token' : ShownThen(token'[t].grant)
  BY DEF Shown, TokensKept, Placed
<1>3. answer' \in DOMAIN grant' => ShownThen(answer')
  <2>1. Open \notin DOMAIN grant'
    BY Domains DEF Open
  <2> QED
    BY <1>1, <2>1 DEF Shown, Placed
<1>4. \A p \in OAuthRequests : oauthReq'[p].pc = "answer" => ShownThen(oauthReq'[p].grant)
  BY DEF Shown, NoneComes, Placed, Named
<1> QED
  BY <1>2, <1>3, <1>4 DEF Shown, IsShown, ShownThen

-----------------------------------------------------------------------------
(* Consent. *)

(* A step that leaves tokens, grants, answer, clock and deaths alone, and    *)
(* sends nobody to where a promise is to be kept, keeps all but the types   *)
(* and the tickets.                                                        *)
LEMMA QuietOAuth ==
    ASSUME OAuthInv, Bounded, UNCHANGED <<oauthNow, answer, grant, token, deaths>>,
           NoneComes("issue"), NoneComes("answer"), NoneLeaves("check")
    PROVE  Spending' /\ Codes' /\ Alive' /\ Shown'
<1>1. OAuthTyped /\ Placed /\ Spending /\ Codes /\ Alive /\ Shown
  BY DEF OAuthInv
<1>2. TokensKept /\ SpentKept /\ HandedKept /\ GrantsKept /\ TokenRowsKept
  BY <1>1, SameTokens, SameGrants
<1>3. oauthNow' \in Nat /\ oauthNow <= oauthNow'
  BY <1>1 DEF OAuthTyped
<1>4. Spending' /\ Codes'
  BY <1>1, <1>2, <1>3, SpendingStays, CodesStay
<1>5. Alive'
  BY <1>1, <1>2, AliveStays
<1>6. Shown'
  BY <1>1, <1>2, ShownStays DEF GrantsKept, OAuthTyped
<1> QED
  BY <1>4, <1>5, <1>6

(* The same for a step that changes tickets only.                          *)
LEMMA DecideKeeps == ASSUME OAuthInv, Bounded, DecideConsent PROVE OAuthInv'
<1>1. OAuthTyped /\ Placed /\ Tickets
  BY DEF OAuthInv
<1>2. /\ answer = Open /\ ticket' = Append(ticket, [row |-> TRUE, made |-> 0])
      /\ UNCHANGED <<oauthNow, answer, grant, token, oauthReq, deaths>>
  BY DEF DecideConsent
<1>3. [row |-> TRUE, made |-> 0] \in TicketT
  BY DEF TicketT
<1>4. /\ ticket' \in Seq(TicketT) /\ DOMAIN ticket' = DOMAIN ticket \cup {Len(ticket) + 1}
      /\ Len(ticket) + 1 \notin DOMAIN ticket
      /\ \A k \in DOMAIN ticket : ticket'[k] = ticket[k]
      /\ ticket'[Len(ticket) + 1] = [row |-> TRUE, made |-> 0]
  BY <1>1, <1>2, <1>3, Appended DEF OAuthTyped
<1>5. OAuthTyped'
  BY <1>1, <1>2, <1>4 DEF OAuthTyped
<1>6. TokensKept /\ \A q \in OAuthRequests : oauthReq'[q] = oauthReq[q]
  BY <1>1, <1>2, SameTokens
<1>7. Placed'
  BY <1>1, <1>2, <1>4, <1>6, PlacedStays
<1>8. Tickets'
  BY <1>1, <1>2, <1>4 DEF Tickets, Placed, Named
<1>9. Spending' /\ Codes' /\ Alive' /\ Shown'
  BY <1>2, <1>6, QuietOAuth DEF NoneComes, NoneLeaves
<1> QED
  BY <1>5, <1>7, <1>8, <1>9 DEF OAuthInv

LEMMA FinishKeeps ==
    ASSUME OAuthInv, Bounded, NEW p \in OAuthRequests, NEW k \in DOMAIN ticket, FinishConsent(p, k)
    PROVE  OAuthInv'
<1>1. OAuthTyped /\ Placed /\ Tickets
  BY DEF OAuthInv
<1> DEFINE r == [Idle EXCEPT !.pc = "take", !.ticket = k]
<1>2. oauthReq[p].pc = "idle" /\ Goes(p, r) /\ UNCHANGED <<oauthNow, ticket, answer, grant, token, deaths>>
  BY DEF FinishConsent, At
<1>3. k \in Nat
  BY <1>1, Domains DEF OAuthTyped
<1>4. r \in ReqT /\ r.pc = "take" /\ r.ticket = k
  BY <1>3, IdleTyped DEF ReqT, Points, Idle
<1> HIDE DEF r
<1>5. oauthReq' \in [OAuthRequests -> ReqT] /\ oauthReq'[p] = r /\ \A q \in OAuthRequests : q # p => oauthReq'[q] = oauthReq[q]
  BY <1>1, <1>2, <1>4, Going
<1>6. OAuthTyped'
  BY <1>1, <1>2, <1>5 DEF OAuthTyped
<1>7. Named(p)'
  BY <1>2, <1>4, <1>5 DEF Named
<1>8. Placed'
  BY <1>1, <1>2, <1>5, <1>7, SameTokens, PlacedStays
<1>9. NoneComes("issue") /\ NoneComes("answer") /\ NoneLeaves("check") /\ NoneComes("approve")
  BY <1>2, <1>4, <1>5 DEF NoneComes, NoneLeaves
<1>10. Tickets'
  BY <1>1, <1>2, <1>9, TicketsStay
<1> QED
  BY <1>2, <1>6, <1>8, <1>9, <1>10, QuietOAuth DEF OAuthInv

(* A request that goes where nothing is asked but that its names are there.  *)
LEMMA Passing ==
    ASSUME OAuthInv, Bounded, NEW p \in OAuthRequests, NEW r \in ReqT, Goes(p, r),
           UNCHANGED <<oauthNow, ticket, answer, grant, token, deaths>>, Named(p)',
           r.pc \notin {"issue", "answer", "approve"}, oauthReq[p].pc # "check"
    PROVE  OAuthInv'
<1>1. OAuthTyped /\ Placed /\ Tickets
  BY DEF OAuthInv
<1>2. oauthReq' \in [OAuthRequests -> ReqT] /\ oauthReq'[p] = r /\ \A q \in OAuthRequests : q # p => oauthReq'[q] = oauthReq[q]
  BY <1>1, Going
<1>3. OAuthTyped'
  BY <1>1, <1>2 DEF OAuthTyped
<1>4. Placed'
  BY <1>1, <1>2, SameTokens, PlacedStays
<1>5. NoneComes("issue") /\ NoneComes("answer") /\ NoneLeaves("check") /\ NoneComes("approve")
  BY <1>2 DEF NoneComes, NoneLeaves
<1>6. Tickets'
  BY <1>1, <1>5, TicketsStay
<1> QED
  BY <1>3, <1>4, <1>5, <1>6, QuietOAuth DEF OAuthInv

(* A request that ends, from anywhere but the look at its grant.            *)
LEMMA Ending ==
    ASSUME OAuthInv, Bounded, NEW p \in OAuthRequests, Ends(p), oauthReq[p].pc # "check",
           UNCHANGED <<oauthNow, ticket, answer, grant, token, deaths>>
    PROVE  OAuthInv'
<1>1. Idle \in ReqT /\ Idle.pc = "idle" /\ Goes(p, Idle)
  BY IdleTyped DEF Idle, Ends
<1>2. oauthReq'[p] = Idle
  BY <1>1, Going DEF OAuthInv
<1>3. Named(p)'
  BY <1>1, <1>2 DEF Named
<1> QED
  BY <1>1, <1>3, Passing

LEMMA TakeKeeps == ASSUME OAuthInv, Bounded, NEW p \in OAuthRequests, Take(p) PROVE OAuthInv'
<1> DEFINE k == oauthReq[p].ticket
           r == [oauthReq[p] EXCEPT !.pc = "approve"]
<1>1. OAuthTyped /\ Placed /\ Tickets
  BY DEF OAuthInv
<1>2. oauthReq[p].pc = "take" /\ UNCHANGED <<oauthNow, answer, grant, token, deaths>>
  BY DEF Take, At
<1>3. k \in DOMAIN ticket
  BY <1>1, <1>2 DEF Placed, Named
<1>4. CASE ~ ticket[k].row
  <2>1. UNCHANGED ticket /\ Ends(p)
    BY <1>4 DEF Take
  <2> QED
    BY <1>2, <2>1, Ending
<1>5. CASE ticket[k].row
  <2>1. ticket' = [ticket EXCEPT ![k].row = FALSE] /\ Goes(p, r)
    BY <1>5 DEF Take, To
  <2>2. ticket[k] \in TicketT
    BY <1>1, <1>3, Members DEF OAuthTyped
  <2>3. [ticket[k] EXCEPT !.row = FALSE] \in TicketT
    BY <2>2 DEF TicketT
  <2>4. ticket' = [ticket EXCEPT ![k] = [ticket[k] EXCEPT !.row = FALSE]]
    BY <2>1
  <2>5. /\ ticket' \in Seq(TicketT) /\ DOMAIN ticket' = DOMAIN ticket
        /\ \A l \in DOMAIN ticket :
              ticket'[l] = IF l = k THEN [ticket[k] EXCEPT !.row = FALSE] ELSE ticket[l]
    BY <1>1, <1>3, <2>3, <2>4, Updated DEF OAuthTyped
  <2>6. /\ \A l \in DOMAIN ticket : l # k => ticket'[l] = ticket[l]
        /\ ticket'[k].row = FALSE /\ ticket'[k].made = ticket[k].made
    BY <1>3, <2>2, <2>5 DEF TicketT
  <2>7. r \in ReqT /\ r.pc = "approve" /\ r.ticket = k
    BY <1>1, ToTyped DEF Points
  <2> HIDE DEF r, k
  <2>8. oauthReq' \in [OAuthRequests -> ReqT] /\ oauthReq'[p] = r /\ \A q \in OAuthRequests : q # p => oauthReq'[q] = oauthReq[q]
    BY <1>1, <2>1, <2>7, Going
  <2>9. OAuthTyped'
    BY <1>1, <1>2, <2>5, <2>8 DEF OAuthTyped
  <2>10. Named(p)'
    BY <1>3, <2>5, <2>7, <2>8 DEF Named
  <2>11. Placed'
    BY <1>1, <1>2, <2>5, <2>8, <2>10, SameTokens, PlacedStays
  <2>12. NoneComes("issue") /\ NoneComes("answer") /\ NoneLeaves("check")
    BY <1>2, <2>7, <2>8 DEF NoneComes, NoneLeaves
  <2>13. \A q \in OAuthRequests : oauthReq[q].pc = "approve" => oauthReq[q].ticket # k
    BY <1>1, <1>5 DEF Tickets, k
  <2>14. ticket[k].made = 0
    BY <1>1, <1>3, <1>5 DEF Tickets, k
  <2>15. \A l \in DOMAIN ticket' : ticket'[l].made <= 1 /\ (ticket'[l].row => ticket'[l].made = 0)
    BY <1>1, <2>5, <2>6, <2>14 DEF Tickets
  <2>16. ASSUME NEW q \in OAuthRequests, oauthReq'[q].pc = "approve"
         PROVE  /\ ~ ticket'[oauthReq'[q].ticket].row /\ ticket'[oauthReq'[q].ticket].made = 0
                /\ \A o \in OAuthRequests : o # q /\ oauthReq'[o].pc = "approve" => oauthReq'[o].ticket # oauthReq'[q].ticket
    <3>1. CASE q = p
      BY <2>6, <2>7, <2>8, <2>13, <2>14, <3>1
    <3>2. CASE q # p
      <4>1. oauthReq'[q] = oauthReq[q] /\ oauthReq[q].ticket # k /\ oauthReq[q].ticket \in DOMAIN ticket
        BY <1>1, <2>8, <2>13, <2>16, <3>2 DEF Placed, Named
      <4> QED
        BY <1>1, <2>6, <2>7, <2>8, <2>16, <4>1 DEF Tickets
    <3> QED
      BY <3>1, <3>2
  <2>17. Tickets'
    BY <2>15, <2>16 DEF Tickets
  <2> QED
    BY <1>2, <2>9, <2>11, <2>12, <2>17, QuietOAuth DEF OAuthInv
<1> QED
  BY <1>4, <1>5

(* A refusal leaves no answer to resume with.                              *)
LEMMA RefusedNoGrant == ASSUME OAuthTyped, Bounded PROVE Refused \notin DOMAIN grant /\ Refused \in Nat
  BY Domains DEF OAuthTyped, Bounded, Refused

LEMMA SaveGrantKeeps == ASSUME OAuthInv, Bounded, NEW p \in OAuthRequests, SaveGrant(p) PROVE OAuthInv'
<1> DEFINE k == oauthReq[p].ticket
           g == Len(grant) + 1
           new == [row |-> TRUE, meta |-> "none"]
           r == [oauthReq[p] EXCEPT !.pc = "meta", !.grant = g]
<1>1. OAuthTyped /\ Placed /\ Tickets /\ Spending /\ Codes /\ Alive /\ Shown
  BY DEF OAuthInv
<1>2. oauthReq[p].pc = "approve" /\ UNCHANGED <<oauthNow, token, deaths>>
  BY DEF SaveGrant, At
<1>3. k \in DOMAIN ticket /\ ~ ticket[k].row /\ ticket[k].made = 0
  BY <1>1, <1>2 DEF Placed, Named, Tickets
<1>4. TokensKept /\ SpentKept /\ HandedKept /\ oauthNow' \in Nat /\ oauthNow <= oauthNow'
  BY <1>1, <1>2, SameTokens DEF OAuthTyped
<1>5. CASE answer' = Refused /\ Ends(p) /\ UNCHANGED <<grant, ticket>>
  <2>1. Idle \in ReqT /\ Idle.pc = "idle" /\ Goes(p, Idle)
    BY <1>5, IdleTyped DEF Idle, Ends
  <2>2. oauthReq' \in [OAuthRequests -> ReqT] /\ oauthReq'[p] = Idle /\ \A q \in OAuthRequests : q # p => oauthReq'[q] = oauthReq[q]
    BY <1>1, <2>1, Going
  <2>3. OAuthTyped'
    BY <1>1, <1>2, <1>5, <2>2, RefusedNoGrant DEF OAuthTyped
  <2>4. Named(p)'
    BY <2>1, <2>2 DEF Named
  <2>5. Placed'
    BY <1>1, <1>4, <1>5, <2>2, <2>4, PlacedStays
  <2>6. NoneComes("issue") /\ NoneComes("answer") /\ NoneLeaves("check") /\ NoneComes("approve")
    BY <1>2, <2>1, <2>2 DEF NoneComes, NoneLeaves
  <2>7. GrantsKept /\ TokenRowsKept
    BY <1>1, <1>5, SameGrants
  <2>8. Tickets' /\ Spending' /\ Codes'
    BY <1>1, <1>4, <1>5, <2>6, TicketsStay, SpendingStays, CodesStay
  <2>9. Alive'
    BY <1>1, <1>2, <1>4, <2>6, <2>7, AliveStays
  <2>10. Shown'
    BY <1>1, <1>4, <1>5, <2>6, <2>7, ShownStays DEF GrantsKept, OAuthTyped
  <2> QED
    BY <2>3, <2>5, <2>8, <2>9, <2>10 DEF OAuthInv
<1>6. CASE ~ (answer' = Refused /\ Ends(p) /\ UNCHANGED <<grant, ticket>>)
  <2>1. /\ Len(grant) < MaxGrants /\ grant' = Append(grant, new)
        /\ ticket' = [ticket EXCEPT ![k].made = @ + 1]
        /\ Goes(p, r) /\ UNCHANGED answer
    BY <1>6 DEF SaveGrant, AfterGrant
  <2>2. new \in GrantT
    BY DEF GrantT
  <2>3. Len(grant) \in Nat /\ DOMAIN grant = 1 .. Len(grant)
    BY <1>1, Domains DEF OAuthTyped
  <2>4. /\ grant' \in Seq(GrantT) /\ Len(grant') = g
        /\ DOMAIN grant' = DOMAIN grant \cup {g} /\ g \notin DOMAIN grant
        /\ \A h \in DOMAIN grant : grant'[h] = grant[h]
    BY <1>1, <2>1, <2>2, Appended DEF OAuthTyped
  <2>5. Len(grant') <= MaxGrants
    BY <2>1, <2>3, <2>4 DEF Bounded
  <2>6. ticket[k] \in TicketT
    BY <1>1, <1>3, Members DEF OAuthTyped
  <2>7. [ticket[k] EXCEPT !.made = 1] \in TicketT
    BY <2>6 DEF TicketT
  <2>8. ticket' = [ticket EXCEPT ![k] = [ticket[k] EXCEPT !.made = 1]]
    BY <1>3, <2>1, <2>6 DEF TicketT
  <2>9. /\ ticket' \in Seq(TicketT) /\ DOMAIN ticket' = DOMAIN ticket
        /\ \A l \in DOMAIN ticket :
              ticket'[l] = IF l = k THEN [ticket[k] EXCEPT !.made = 1] ELSE ticket[l]
    BY <1>1, <1>3, <2>7, <2>8, Updated DEF OAuthTyped
  <2>10. /\ \A l \in DOMAIN ticket : l # k => ticket'[l] = ticket[l]
         /\ ticket'[k].made = 1 /\ ticket'[k].row = FALSE
    BY <1>3, <2>6, <2>9 DEF TicketT
  <2>11. oauthReq[p] \in ReqT /\ g \in Nat
    BY <1>1, <2>3 DEF OAuthTyped
  <2>12. r \in ReqT /\ r.pc = "meta" /\ r.grant = g
    BY <2>11 DEF ReqT, Points
  <2> HIDE DEF r, g, k, new
  <2>13. oauthReq' \in [OAuthRequests -> ReqT] /\ oauthReq'[p] = r /\ \A q \in OAuthRequests : q # p => oauthReq'[q] = oauthReq[q]
    BY <1>1, <2>1, <2>12, Going
  <2>14. OAuthTyped'
    BY <1>1, <1>2, <2>1, <2>4, <2>5, <2>9, <2>13 DEF OAuthTyped
  <2>15. Named(p)'
    BY <2>4, <2>12, <2>13 DEF Named
  <2>16. Placed'
    BY <1>1, <1>4, <2>1, <2>4, <2>9, <2>13, <2>15, PlacedStays
  <2>17. NoneComes("issue") /\ NoneComes("answer") /\ NoneLeaves("check")
    BY <1>2, <2>12, <2>13 DEF NoneComes, NoneLeaves
  <2>18. Spending' /\ Codes'
    BY <1>1, <1>4, <2>17, SpendingStays, CodesStay
  <2>19. TokenRowsKept /\ \A h \in DOMAIN grant : IsShown(h) => ShownThen(h)
    BY <1>1, <2>4 DEF TokenRowsKept, IsShown, ShownThen, Placed
  <2>20. Alive'
    BY <1>1, <1>2, <1>4, <2>17, <2>19, AliveStays
  <2>21. Shown'
    BY <1>1, <1>4, <2>1, <2>4, <2>5, <2>17, <2>19, ShownStays
  <2>22. \A l \in DOMAIN ticket' : ticket'[l].made <= 1 /\ (ticket'[l].row => ticket'[l].made = 0)
    BY <1>1, <2>9, <2>10 DEF Tickets
  <2>23. ASSUME NEW q \in OAuthRequests, oauthReq'[q].pc = "approve"
         PROVE  /\ ~ ticket'[oauthReq'[q].ticket].row /\ ticket'[oauthReq'[q].ticket].made = 0
                /\ \A o \in OAuthRequests : o # q /\ oauthReq'[o].pc = "approve" => oauthReq'[o].ticket # oauthReq'[q].ticket
    <3>1. q # p /\ oauthReq'[q] = oauthReq[q]
      BY <2>12, <2>13, <2>23
    <3>2. oauthReq[q].ticket \in DOMAIN ticket /\ oauthReq[q].ticket # k
      BY <1>1, <1>2, <2>23, <3>1 DEF Placed, Named, Tickets, k
    <3> QED
      BY <1>1, <2>10, <2>12, <2>13, <2>23, <3>1, <3>2 DEF Tickets
  <2>24. Tickets'
    BY <2>22, <2>23 DEF Tickets
  <2> QED
    BY <2>14, <2>16, <2>18, <2>20, <2>21, <2>24 DEF OAuthInv
<1> QED
  BY <1>5, <1>6

(* A step that spends no token, hands none out, and comes nowhere a promise  *)
(* is to be kept.                                                          *)
LEMMA SteadyStep ==
    ASSUME OAuthInv, Bounded, TokensKept, SpentKept, HandedKept, GrantsKept, TokenRowsKept,
           UNCHANGED ticket, answer' \in {answer, Refused},
           oauthNow' \in Nat, oauthNow <= oauthNow', oauthNow' <= MaxOAuthTime,
           oauthReq' \in [OAuthRequests -> ReqT],
           \A q \in OAuthRequests : oauthReq'[q] = oauthReq[q] \/ Named(q)',
           NoneComes("issue"), NoneComes("answer"), NoneComes("approve"),
           (deaths' = deaths /\ NoneLeaves("check")) \/ deaths' > 0
    PROVE  OAuthInv'
<1>1. OAuthTyped /\ Placed /\ Tickets /\ Spending /\ Codes /\ Alive /\ Shown
  BY DEF OAuthInv
<1>2. Refused \in Nat
  BY <1>1, RefusedNoGrant
<1>3. OAuthTyped'
  BY <1>1, <1>2 DEF OAuthTyped, TokensKept, GrantsKept
<1>4. Placed'
  BY <1>1, PlacedStays DEF GrantsKept
<1>5. Tickets' /\ Spending' /\ Codes' /\ Alive'
  BY <1>1, TicketsStay, SpendingStays, CodesStay, AliveStays
<1>6. Shown'
  BY <1>1, ShownStays DEF GrantsKept, OAuthTyped
<1> QED
  BY <1>3, <1>4, <1>5, <1>6 DEF OAuthInv

(* One that a request ends with, or that is nobody's.                       *)
LEMMA Steadily ==
    ASSUME OAuthInv, Bounded, TokensKept, SpentKept, HandedKept, GrantsKept, TokenRowsKept,
           UNCHANGED <<oauthNow, ticket>>, answer' \in {answer, Refused},
           \/ UNCHANGED <<oauthReq, deaths>>
           \/ \E p \in OAuthRequests : Ends(p) /\ oauthReq[p].pc # "check" /\ UNCHANGED deaths
           \/ \E p \in OAuthRequests : Ends(p) /\ deaths' > 0
    PROVE  OAuthInv'
<1>1. OAuthTyped
  BY DEF OAuthInv
<1>2. oauthNow' \in Nat /\ oauthNow <= oauthNow' /\ oauthNow' <= MaxOAuthTime
  BY <1>1 DEF OAuthTyped
<1>3. CASE UNCHANGED <<oauthReq, deaths>>
  <2>1. oauthReq' \in [OAuthRequests -> ReqT] /\ \A q \in OAuthRequests : oauthReq'[q] = oauthReq[q]
    BY <1>1, <1>3 DEF OAuthTyped
  <2>2. /\ NoneComes("issue") /\ NoneComes("answer") /\ NoneComes("approve")
        /\ NoneLeaves("check")
    BY <2>1 DEF NoneComes, NoneLeaves
  <2> QED
    BY <1>2, <1>3, <2>1, <2>2, SteadyStep
<1>4. ASSUME NEW p \in OAuthRequests, Ends(p),
             (oauthReq[p].pc # "check" /\ UNCHANGED deaths) \/ deaths' > 0
      PROVE  OAuthInv'
  <2>1. Idle \in ReqT /\ Idle.pc = "idle" /\ Goes(p, Idle)
    BY <1>4, IdleTyped DEF Idle, Ends
  <2>2. oauthReq' \in [OAuthRequests -> ReqT] /\ oauthReq'[p] = Idle /\ \A q \in OAuthRequests : q # p => oauthReq'[q] = oauthReq[q]
    BY <1>1, <2>1, Going
  <2>3. Named(p)'
    BY <2>1, <2>2 DEF Named
  <2>4. NoneComes("issue") /\ NoneComes("answer") /\ NoneComes("approve")
    BY <2>1, <2>2 DEF NoneComes
  <2>5. (deaths' = deaths /\ NoneLeaves("check")) \/ deaths' > 0
    BY <1>4, <2>2 DEF NoneLeaves
  <2>6. \A q \in OAuthRequests : oauthReq'[q] = oauthReq[q] \/ Named(q)'
    BY <2>2, <2>3
  <2> QED
    BY <1>2, <2>2, <2>4, <2>5, <2>6, SteadyStep
<1> QED
  BY <1>3, <1>4

LEMMA Disconnects == ASSUME OAuthInv, Bounded, Disconnect PROVE OAuthInv'
<1>1. PICK g \in DOMAIN grant : Revoke(g) /\ UNCHANGED <<oauthNow, ticket, answer, oauthReq, deaths>>
  BY DEF Disconnect
<1>2. TokensKept /\ SpentKept /\ HandedKept /\ TokenRowsKept /\ GrantsKept
  BY <1>1, Revoking DEF OAuthInv
<1> QED
  BY <1>1, <1>2, Steadily

LEMMA DiesKeeps ==
    ASSUME OAuthInv, Bounded, NEW p \in OAuthRequests, RequestDies(p), deaths \in Nat
    PROVE  OAuthInv'
<1>1. deaths' > 0 /\ Ends(p) /\ UNCHANGED <<oauthNow, ticket, answer, grant, token>>
  BY DEF RequestDies
<1>2. TokensKept /\ SpentKept /\ HandedKept /\ TokenRowsKept /\ GrantsKept
  BY <1>1, SameTokens, SameGrants DEF OAuthInv
<1> QED
  BY <1>1, <1>2, Steadily

LEMMA OAuthTickKeeps == ASSUME OAuthInv, Bounded, OAuthTick PROVE OAuthInv'
<1>1. OAuthTyped
  BY DEF OAuthInv
<1>2. oauthNow' = oauthNow + 1 /\ oauthNow < MaxOAuthTime /\ UNCHANGED <<ticket, answer, grant, token, oauthReq, deaths>>
  BY DEF OAuthTick
<1>3. TokensKept /\ SpentKept /\ HandedKept /\ TokenRowsKept /\ GrantsKept
  BY <1>1, <1>2, SameTokens, SameGrants
<1>4. oauthNow' \in Nat /\ oauthNow <= oauthNow' /\ oauthNow' <= MaxOAuthTime
  BY <1>1, <1>2 DEF OAuthTyped, Bounded
<1>5. /\ oauthReq' \in [OAuthRequests -> ReqT] /\ \A q \in OAuthRequests : oauthReq'[q] = oauthReq[q]
      /\ NoneComes("issue") /\ NoneComes("answer") /\ NoneComes("approve") /\ NoneLeaves("check")
  BY <1>1, <1>2 DEF OAuthTyped, NoneComes, NoneLeaves
<1> QED
  BY <1>2, <1>3, <1>4, <1>5, SteadyStep

LEMMA PurgeKeeps == ASSUME OAuthInv, Bounded, Purge PROVE OAuthInv'
<1>1. OAuthTyped
  BY DEF OAuthInv
<1>2. /\ token' = [t \in DOMAIN token |-> IF Purgeable(t) THEN [token[t] EXCEPT !.row = FALSE] ELSE token[t]]
      /\ UNCHANGED <<oauthNow, ticket, answer, grant, oauthReq, deaths>>
  BY DEF Purge
<1>3. \A t \in DOMAIN token : token[t] \in TokenT
  BY <1>1, Fields
<1>4. \A t \in DOMAIN token : [token[t] EXCEPT !.row = FALSE] \in TokenT
  BY <1>3 DEF TokenT
<1>5. token' \in [DOMAIN token -> TokenT]
  BY <1>2, <1>3, <1>4
<1>6. token' \in Seq(TokenT)
  BY <1>1, <1>5, Rewritten DEF OAuthTyped
<1>7. /\ DOMAIN token' = DOMAIN token
      /\ \A t \in DOMAIN token :
            token'[t] = token[t] \/ token'[t] = [token[t] EXCEPT !.row = FALSE]
  BY <1>2
<1>8. TokensKept /\ SpentKept /\ HandedKept
  BY <1>3, <1>6, <1>7 DEF TokensKept, SpentKept, HandedKept, TokenT
<1>9. TokenRowsKept /\ GrantsKept
  BY <1>1, <1>2, SameGrants
<1> QED
  BY <1>2, <1>8, <1>9, Steadily

LEMMA SaveMetaKeeps == ASSUME OAuthInv, Bounded, NEW p \in OAuthRequests, SaveMeta(p) PROVE OAuthInv'
<1> DEFINE g == oauthReq[p].grant
           r == [oauthReq[p] EXCEPT !.pc = "answer"]
<1>1. OAuthTyped /\ Placed /\ Tickets /\ Spending /\ Codes /\ Alive /\ Shown
  BY DEF OAuthInv
<1>2. oauthReq[p].pc = "meta" /\ UNCHANGED <<oauthNow, ticket, deaths>>
  BY DEF SaveMeta, At
<1>3. g \in DOMAIN grant
  BY <1>1, <1>2 DEF Placed, Named
<1>4. CASE Revoke(g) /\ answer' = Refused /\ Ends(p)
  <2>1. TokensKept /\ SpentKept /\ HandedKept /\ TokenRowsKept /\ GrantsKept
    BY <1>1, <1>3, <1>4, Revoking
  <2> QED
    BY <1>2, <1>4, <2>1, Steadily
<1>5. CASE grant' = [grant EXCEPT ![g].meta = "shown"] /\ To(p, "answer") /\ UNCHANGED <<answer, token>>
  <2>1. grant[g] \in GrantT
    BY <1>1, <1>3, Members DEF OAuthTyped
  <2>2. [grant[g] EXCEPT !.meta = "shown"] \in GrantT
    BY <2>1 DEF GrantT
  <2>3. grant' = [grant EXCEPT ![g] = [grant[g] EXCEPT !.meta = "shown"]]
    BY <1>5
  <2>4. /\ grant' \in Seq(GrantT) /\ DOMAIN grant' = DOMAIN grant /\ Len(grant') = Len(grant)
        /\ \A h \in DOMAIN grant :
              grant'[h] = IF h = g THEN [grant[g] EXCEPT !.meta = "shown"] ELSE grant[h]
    BY <1>1, <1>3, <2>2, <2>3, Updated DEF OAuthTyped
  <2>5. /\ \A h \in DOMAIN grant : h # g => grant'[h] = grant[h]
        /\ grant'[g].meta = "shown" /\ grant'[g].row = grant[g].row
    BY <1>3, <2>1, <2>4 DEF GrantT
  <2>6. r \in ReqT /\ r.pc = "answer" /\ r.grant = g /\ Goes(p, r)
    BY <1>1, <1>5, ToTyped DEF Points, To
  <2> HIDE DEF r, g
  <2>7. oauthReq' \in [OAuthRequests -> ReqT] /\ oauthReq'[p] = r /\ \A q \in OAuthRequests : q # p => oauthReq'[q] = oauthReq[q]
    BY <1>1, <2>6, Going
  <2>8. TokensKept /\ SpentKept /\ HandedKept /\ oauthNow' \in Nat /\ oauthNow <= oauthNow'
    BY <1>1, <1>2, <1>5, SameTokens DEF OAuthTyped
  <2>9. OAuthTyped'
    BY <1>1, <1>2, <1>5, <2>4, <2>7 DEF OAuthTyped
  <2>10. Named(p)'
    BY <1>3, <2>4, <2>6, <2>7 DEF Named
  <2>11. Placed'
    BY <1>1, <1>2, <1>5, <2>4, <2>7, <2>8, <2>10, PlacedStays
  <2>12. NoneComes("issue") /\ NoneComes("approve") /\ NoneLeaves("check")
    BY <1>2, <2>6, <2>7 DEF NoneComes, NoneLeaves
  <2>13. Tickets' /\ Spending' /\ Codes'
    BY <1>1, <1>2, <2>8, <2>12, TicketsStay, SpendingStays, CodesStay
  <2>14. TokenRowsKept
    BY <1>1, <2>4, <2>5 DEF TokenRowsKept, Placed
  <2>15. Alive'
    BY <1>1, <1>2, <2>8, <2>12, <2>14, AliveStays
  <2>16. \A h \in DOMAIN grant : (h = g \/ IsShown(h)) => ShownThen(h)
    BY <2>5 DEF IsShown, ShownThen
  <2>17. \A t \in DOMAIN token' : ShownThen(token'[t].grant)
    BY <1>1, <1>5, <2>16 DEF Shown, Placed
  <2>18. answer' \in DOMAIN grant' => ShownThen(answer')
    BY <1>1, <1>5, <2>4, <2>16 DEF Shown
  <2>19. \A q \in OAuthRequests : oauthReq'[q].pc = "answer" => ShownThen(oauthReq'[q].grant)
    BY <1>1, <1>3, <2>6, <2>7, <2>16 DEF Shown, Placed, Named
  <2>20. Shown'
    BY <2>17, <2>18, <2>19 DEF Shown, IsShown, ShownThen
  <2> QED
    BY <2>9, <2>11, <2>13, <2>15, <2>20 DEF OAuthInv
<1> QED
  BY <1>4, <1>5 DEF SaveMeta

LEMMA AnswerKeeps == ASSUME OAuthInv, Bounded, NEW p \in OAuthRequests, Answer(p) PROVE OAuthInv'
<1>1. OAuthTyped /\ Placed /\ Tickets /\ Spending /\ Codes /\ Alive /\ Shown
  BY DEF OAuthInv
<1>2. /\ oauthReq[p].pc = "answer" /\ answer' = oauthReq[p].grant /\ Ends(p)
      /\ UNCHANGED <<oauthNow, ticket, grant, token, deaths>>
  BY DEF Answer, At
<1>3. Idle \in ReqT /\ Idle.pc = "idle" /\ Goes(p, Idle)
  BY <1>2, IdleTyped DEF Idle, Ends
<1>4. oauthReq' \in [OAuthRequests -> ReqT] /\ oauthReq'[p] = Idle /\ \A q \in OAuthRequests : q # p => oauthReq'[q] = oauthReq[q]
  BY <1>1, <1>3, Going
<1>5. oauthReq[p].grant \in DOMAIN grant /\ oauthReq[p].grant \in Nat
  BY <1>1, <1>2 DEF Placed, Named, OAuthTyped, ReqT
<1>6. TokensKept /\ SpentKept /\ HandedKept /\ GrantsKept /\ TokenRowsKept
  BY <1>1, <1>2, SameTokens, SameGrants
<1>7. OAuthTyped'
  BY <1>1, <1>2, <1>4, <1>5 DEF OAuthTyped
<1>8. Named(p)'
  BY <1>3, <1>4 DEF Named
<1>9. Placed'
  BY <1>1, <1>2, <1>4, <1>5, <1>6, <1>8, PlacedStays
<1>10. /\ NoneComes("issue") /\ NoneComes("approve") /\ NoneComes("answer")
       /\ NoneLeaves("check")
  BY <1>2, <1>3, <1>4 DEF NoneComes, NoneLeaves
<1>11. Tickets' /\ Spending' /\ Codes'
  BY <1>1, <1>2, <1>6, <1>10, TicketsStay, SpendingStays, CodesStay DEF OAuthTyped
<1>12. Alive'
  BY <1>1, <1>2, <1>6, <1>10, AliveStays
<1>13. Shown'
  BY <1>1, <1>2, <1>3, <1>4 DEF Shown, IsShown
<1> QED
  BY <1>7, <1>9, <1>11, <1>12, <1>13 DEF OAuthInv

LEMMA TouchKeeps == ASSUME OAuthInv, Bounded, NEW p \in OAuthRequests, Touch(p) PROVE OAuthInv'
<1> DEFINE r == [oauthReq[p] EXCEPT !.pc = "touching"]
<1>1. OAuthTyped /\ Placed
  BY DEF OAuthInv
<1>2. oauthReq[p].pc = "touch" /\ UNCHANGED <<oauthNow, ticket, answer, grant, token, deaths>>
  BY DEF Touch, At
<1>3. CASE Ends(p)
  BY <1>2, <1>3, Ending
<1>4. CASE ~ Ends(p)
  <2>1. r \in ReqT /\ r.pc = "touching" /\ r.grant = oauthReq[p].grant /\ Goes(p, r)
    BY <1>1, <1>4, ToTyped DEF Points, To, Touch
  <2> HIDE DEF r
  <2>2. oauthReq'[p] = r
    BY <1>1, <2>1, Going
  <2>3. oauthReq[p].grant \in DOMAIN grant
    BY <1>1, <1>2 DEF Placed, Named
  <2>4. Named(p)'
    BY <1>2, <2>1, <2>2, <2>3 DEF Named
  <2> QED
    BY <1>2, <2>1, <2>4, Passing
<1> QED
  BY <1>3, <1>4

LEMMA TouchingKeeps == ASSUME OAuthInv, Bounded, NEW p \in OAuthRequests, Touching(p) PROVE OAuthInv'
<1> DEFINE g == oauthReq[p].grant
           new == [grant[g] EXCEPT !.meta = IF @ = "none" THEN "nobody's" ELSE @]
<1>1. OAuthTyped /\ Placed
  BY DEF OAuthInv
<1>2. /\ oauthReq[p].pc = "touching" /\ Ends(p)
      /\ grant' = [grant EXCEPT ![g] = new]
      /\ UNCHANGED <<oauthNow, ticket, answer, token, deaths>>
  BY DEF Touching, At
<1>3. g \in DOMAIN grant
  BY <1>1, <1>2 DEF Placed, Named
<1>4. grant[g] \in GrantT
  BY <1>1, <1>3, Members DEF OAuthTyped
<1>5. new \in GrantT /\ new.row = grant[g].row /\ (grant[g].meta = "shown" => new.meta = "shown")
  BY <1>4 DEF GrantT
<1> HIDE DEF new, g
<1>6. /\ grant' \in Seq(GrantT) /\ DOMAIN grant' = DOMAIN grant /\ Len(grant') = Len(grant)
      /\ \A h \in DOMAIN grant : grant'[h] = IF h = g THEN new ELSE grant[h]
  BY <1>1, <1>2, <1>3, <1>5, Updated DEF OAuthTyped
<1>7. GrantsKept
  BY <1>5, <1>6 DEF GrantsKept, IsShown, ShownThen
<1>8. TokenRowsKept
  BY <1>1, <1>5, <1>6 DEF TokenRowsKept, Placed
<1>9. TokensKept /\ SpentKept /\ HandedKept
  BY <1>1, <1>2, SameTokens
<1> QED
  BY <1>2, <1>7, <1>8, <1>9, Steadily

-----------------------------------------------------------------------------
(* Tokens. *)

(* A token stored: under a grant that is shown, and from a token that was    *)
(* spent for it, once if that is a code.                                   *)
LEMMA Issuing ==
    ASSUME OAuthInv, Bounded, NEW p \in OAuthRequests, NEW kind \in {"code", "refresh"},
           NEW g \in DOMAIN grant, NEW from \in Nat, NEW asof \in Nat,
           Issue(p, kind, g, from, asof), IsShown(g),
           from # 0 =>
               /\ from \in DOMAIN token /\ Within(from, asof)
               /\ token[from].kind = "code" =>
                      /\ \A t \in DOMAIN token : token[t].from # from
                      /\ \A q \in OAuthRequests : q # p /\ oauthReq[q].pc = "issue" => oauthReq[q].token # from,
           UNCHANGED <<oauthNow, ticket, grant, deaths>>, answer' \in {answer, Refused},
           oauthReq[p].pc # "check"
    PROVE  OAuthInv'
<1> DEFINE n == Len(token) + 1
           new == [kind |-> kind, grant |-> g, row |-> TRUE, spent |-> Never,
                   from |-> from, asof |-> asof, handed |-> FALSE]
           r == [Idle EXCEPT !.pc = "check", !.token = n, !.grant = g]
<1>1. OAuthTyped /\ Placed /\ Tickets /\ Spending /\ Codes /\ Alive /\ Shown
  BY DEF OAuthInv
<1>2. token' = Append(token, new) /\ Goes(p, r)
  BY DEF Issue
<1>3. g \in Nat /\ Len(token) \in Nat /\ DOMAIN token = 1 .. Len(token)
  BY <1>1, Domains DEF OAuthTyped
<1>4. new \in TokenT
  BY <1>3 DEF TokenT, Never, Bounded
<1>5. /\ token' \in Seq(TokenT) /\ DOMAIN token' = DOMAIN token \cup {n} /\ n \notin DOMAIN token
      /\ \A t \in DOMAIN token : token'[t] = token[t]
      /\ token'[n] = new
  BY <1>1, <1>2, <1>4, Appended DEF OAuthTyped
<1>6. r \in ReqT /\ r.pc = "check" /\ r.token = n /\ r.grant = g
  <2>1. n \in Nat
    BY <1>3
  <2> HIDE DEF n
  <2> QED
    BY <1>3, <2>1 DEF ReqT, Points, Idle
<1>7. /\ new.grant = g /\ new.row = TRUE /\ new.spent = Never /\ new.from = from
      /\ new.asof = asof /\ new.handed = FALSE
  OBVIOUS
<1>8. n \in Nat /\ 0 < n /\ \A t \in DOMAIN token : t < n
  BY <1>3
<1> HIDE DEF n, new, r
<1>9. oauthReq' \in [OAuthRequests -> ReqT] /\ oauthReq'[p] = r /\ \A q \in OAuthRequests : q # p => oauthReq'[q] = oauthReq[q]
  BY <1>1, <1>2, <1>6, Going
<1>10. Refused \in Nat /\ Refused \notin DOMAIN grant
  BY <1>1, RefusedNoGrant
<1>11. OAuthTyped'
  BY <1>1, <1>5, <1>9, <1>10 DEF OAuthTyped
<1>12. Placed'
  <2>1. \A t \in DOMAIN token' : token'[t].grant \in DOMAIN grant' /\ token'[t].from < t
    BY <1>1, <1>5, <1>7, <1>8 DEF Placed
  <2>2. Named(p)'
    BY <1>5, <1>6, <1>7, <1>9 DEF Named
  <2>3. \A q \in OAuthRequests : q # p => Named(q)'
    <3> SUFFICES ASSUME NEW q \in OAuthRequests, q # p PROVE Named(q)'
      OBVIOUS
    <3>1. Named(q) /\ oauthReq'[q] = oauthReq[q]
      BY <1>1, <1>9 DEF Placed
    <3> QED
      BY <1>5, <3>1 DEF Named
  <2>4. answer' \in {Open, Refused'} \cup DOMAIN grant'
    BY <1>1 DEF Placed, Refused
  <2> QED
    BY <2>1, <2>2, <2>3, <2>4 DEF Placed
<1>13. NoneComes("issue") /\ NoneComes("answer") /\ NoneComes("approve") /\ NoneLeaves("check")
  BY <1>6, <1>9 DEF NoneComes, NoneLeaves
<1>14. Tickets'
  BY <1>1, <1>13, TicketsStay
<1>15. \A t \in DOMAIN token : token[t].from # 0 => token[t].from \in DOMAIN token
  BY <1>1, Sources
<1>16. \A t \in DOMAIN token : \A at : Within(t, at) => WithinThen(t, at)
  BY <1>5 DEF Within, WithinThen
<1>17. Spending'
  <2>1. \A t \in DOMAIN token' : token'[t].spent # Never => token'[t].spent <= oauthNow'
    BY <1>1, <1>5, <1>7 DEF Spending
  <2>2. \A t \in DOMAIN token' : token'[t].from # 0 => WithinThen(token'[t].from, token'[t].asof)
    BY <1>1, <1>5, <1>7, <1>15, <1>16 DEF Spending
  <2>3. \A q \in OAuthRequests : oauthReq'[q].pc = "issue" => WithinThen(oauthReq'[q].token, oauthReq'[q].asof)
    BY <1>1, <1>13, <1>16 DEF Spending, NoneComes, Placed, Named
  <2> QED
    BY <2>1, <2>2, <2>3 DEF Spending, Within, WithinThen, Never
<1>18. Codes'
  <2>1. ASSUME NEW t \in DOMAIN token', NEW u \in DOMAIN token', t # u,
               token'[t].from = token'[u].from, token'[t].from # 0
        PROVE  token'[token'[t].from].kind = "refresh"
    <3>1. CASE t \in DOMAIN token /\ u \in DOMAIN token
      BY <1>1, <1>5, <1>15, <2>1, <3>1 DEF Codes
    <3>2. ASSUME NEW o \in DOMAIN token, token[o].from = from, from # 0
          PROVE  token'[from].kind = "refresh"
      <4>1. token[from].kind # "code" /\ from \in DOMAIN token
        BY <3>2
      <4> QED
        BY <1>1, <1>5, <4>1, Fields
    <3>3. CASE t = n
      <4>1. u \in DOMAIN token /\ token[u].from = from /\ from # 0 /\ token'[t].from = from
        BY <1>5, <1>7, <2>1, <3>3
      <4> QED
        BY <3>2, <4>1
    <3>4. CASE u = n
      <4>1. t \in DOMAIN token /\ token[t].from = from /\ from # 0 /\ token'[t].from = from
        BY <1>5, <1>7, <2>1, <3>4
      <4> QED
        BY <3>2, <4>1
    <3> QED
      BY <1>5, <3>1, <3>3, <3>4
  <2>2. ASSUME NEW q \in OAuthRequests, oauthReq'[q].pc = "issue", token'[oauthReq'[q].token].kind = "code"
        PROVE  /\ \A t \in DOMAIN token' : token'[t].from # oauthReq'[q].token
               /\ \A o \in OAuthRequests : o # q /\ oauthReq'[o].pc = "issue" => oauthReq'[o].token # oauthReq'[q].token
    <3>1. q # p /\ oauthReq'[q] = oauthReq[q] /\ oauthReq[q].token \in DOMAIN token
      BY <1>1, <1>6, <1>9, <2>2 DEF Placed, Named
    <3>2. token[oauthReq[q].token].kind = "code" /\ oauthReq[q].pc = "issue"
      BY <1>5, <2>2, <3>1
    <3>3. /\ \A t \in DOMAIN token : token[t].from # oauthReq[q].token
          /\ \A o \in OAuthRequests : o # q /\ oauthReq[o].pc = "issue" => oauthReq[o].token # oauthReq[q].token
      BY <1>1, <3>2 DEF Codes
    <3>4. from # oauthReq[q].token
      BY <1>3, <3>1, <3>2
    <3> QED
      BY <1>5, <1>7, <1>13, <3>1, <3>3, <3>4 DEF NoneComes
  <2> QED
    BY <2>1, <2>2 DEF Codes
<1>19. Alive'
  <2> SUFFICES ASSUME NEW t \in DOMAIN token', token'[t].row, ~ grant'[token'[t].grant].row
               PROVE  /\ ~ token'[t].handed
                      /\ deaths' > 0 \/ \E q \in OAuthRequests : oauthReq'[q].pc = "check" /\ oauthReq'[q].token = t
    BY DEF Alive, NothingOutlivesItsGrant, At
  <2>1. CASE t = n
    BY <1>5, <1>6, <1>7, <1>9, <2>1
  <2>2. CASE t \in DOMAIN token
    BY <1>1, <1>5, <1>13, <2>2 DEF Alive, NothingOutlivesItsGrant, At, NoneLeaves
  <2> QED
    BY <1>5, <2>1, <2>2
<1>20. Shown'
  <2>1. \A t \in DOMAIN token' : IsShown(token'[t].grant)
    BY <1>1, <1>5, <1>7 DEF Shown
  <2>2. \A q \in OAuthRequests : oauthReq'[q].pc = "answer" => IsShown(oauthReq'[q].grant)
    BY <1>1, <1>13 DEF Shown, NoneComes
  <2>3. answer' \in DOMAIN grant => IsShown(answer')
    BY <1>1, <1>10 DEF Shown
  <2> QED
    BY <2>1, <2>2, <2>3 DEF Shown, IsShown
<1> QED
  BY <1>11, <1>12, <1>14, <1>17, <1>18, <1>19, <1>20 DEF OAuthInv

LEMMA ResumeKeeps == ASSUME OAuthInv, Bounded, NEW p \in OAuthRequests, Resume(p) PROVE OAuthInv'
<1>1. OAuthTyped /\ Placed /\ Shown
  BY DEF OAuthInv
<1>2. /\ oauthReq[p].pc = "idle" /\ answer \in 1 .. MaxGrants /\ Issue(p, "code", answer, 0, oauthNow)
      /\ answer' = Refused /\ UNCHANGED <<oauthNow, ticket, grant, deaths>>
  BY DEF Resume, At
<1>3. answer \in DOMAIN grant
  BY <1>1, <1>2 DEF Placed, Open, Refused, Bounded
<1>4. IsShown(answer) /\ oauthNow \in Nat
  BY <1>1, <1>3 DEF Shown, OAuthTyped
<1> QED
  BY <1>2, <1>3, <1>4, Issuing

LEMMA RotateKeeps == ASSUME OAuthInv, Bounded, NEW p \in OAuthRequests, Rotate(p) PROVE OAuthInv'
<1> DEFINE t == oauthReq[p].token
<1>1. OAuthTyped /\ Placed /\ Spending /\ Codes /\ Shown
  BY DEF OAuthInv
<1>2. /\ oauthReq[p].pc = "issue" /\ Issue(p, "refresh", token[t].grant, t, oauthReq[p].asof)
      /\ UNCHANGED <<oauthNow, ticket, answer, grant, deaths>>
  BY DEF Rotate, At
<1>3. t \in DOMAIN token /\ t \in Nat /\ oauthReq[p].asof \in Nat
  BY <1>1, <1>2 DEF Placed, Named, OAuthTyped, ReqT
<1>4. token[t].grant \in DOMAIN grant /\ IsShown(token[t].grant) /\ Within(t, oauthReq[p].asof)
  BY <1>1, <1>2, <1>3 DEF Placed, Shown, Spending
<1>5. token[t].kind = "code" =>
          /\ \A u \in DOMAIN token : token[u].from # t
          /\ \A q \in OAuthRequests : q # p /\ oauthReq[q].pc = "issue" => oauthReq[q].token # t
  BY <1>1, <1>2 DEF Codes
<1> QED
  BY <1>2, <1>3, <1>4, <1>5, Issuing

LEMMA CheckKeeps == ASSUME OAuthInv, Bounded, NEW p \in OAuthRequests, Check(p) PROVE OAuthInv'
<1> DEFINE t == oauthReq[p].token
           g == oauthReq[p].grant
<1>1. OAuthTyped /\ Placed /\ Tickets /\ Spending /\ Codes /\ Alive /\ Shown
  BY DEF OAuthInv
<1>2. oauthReq[p].pc = "check" /\ UNCHANGED <<oauthNow, ticket, answer, grant, deaths>>
  BY DEF Check, At
<1>3. t \in DOMAIN token /\ token[t].grant = g /\ g \in DOMAIN grant
  BY <1>1, <1>2 DEF Placed, Named
<1>4. PICK new \in TokenT :
          /\ token' = [token EXCEPT ![t] = new]
          /\ new.kind = token[t].kind /\ new.grant = g /\ new.from = token[t].from
          /\ new.asof = token[t].asof /\ new.spent = token[t].spent
          /\ new.row => token[t].row
          /\ IF grant[g].row THEN TRUE ELSE ~ new.row
  <2>1. token[t] \in TokenT
    BY <1>1, <1>3, Fields
  <2>2. CASE grant[g].row
    <3>1. token' = [token EXCEPT ![t] = [token[t] EXCEPT !.handed = TRUE]]
      BY <2>2 DEF Check, Checked
    <3>2. [token[t] EXCEPT !.handed = TRUE] \in TokenT
      BY <2>1 DEF TokenT
    <3> QED
      BY <1>3, <2>1, <2>2, <3>1, <3>2 DEF TokenT
  <2>3. CASE ~ grant[g].row
    <3>1. token' = [token EXCEPT ![t] = [token[t] EXCEPT !.row = FALSE]]
      BY <2>3 DEF Check, Checked
    <3>2. [token[t] EXCEPT !.row = FALSE] \in TokenT
      BY <2>1 DEF TokenT
    <3> QED
      BY <1>3, <2>1, <2>3, <3>1, <3>2 DEF TokenT
  <2> QED
    BY <2>2, <2>3
<1>5. PICK r \in ReqT : Goes(p, r) /\ r.pc \in {"idle", "touch"} /\ (r.pc = "touch" => r.grant = g)
  <2>1. CASE Ends(p)
    BY <2>1, IdleTyped DEF Ends, Idle
  <2>2. CASE To(p, "touch")
    <3> DEFINE r == [oauthReq[p] EXCEPT !.pc = "touch"]
    <3>1. "touch" \in Points
      BY DEF Points
    <3>2. r \in ReqT /\ r.pc = "touch" /\ r.grant = oauthReq[p].grant
      BY <1>1, <3>1, ToTyped
    <3>3. Goes(p, r)
      BY <2>2 DEF To
    <3> HIDE DEF r
    <3> QED
      BY <1>1, <3>2, <3>3
  <2> QED
    BY <2>1, <2>2 DEF Check
<1> HIDE DEF t, g
<1>6. oauthReq' \in [OAuthRequests -> ReqT] /\ oauthReq'[p] = r /\ \A q \in OAuthRequests : q # p => oauthReq'[q] = oauthReq[q]
  BY <1>1, <1>5, Going
<1>7. /\ token' \in Seq(TokenT) /\ DOMAIN token' = DOMAIN token
      /\ \A u \in DOMAIN token : token'[u] = IF u = t THEN new ELSE token[u]
  BY <1>1, <1>3, <1>4, Updated DEF OAuthTyped
<1>8. TokensKept /\ SpentKept
  BY <1>3, <1>4, <1>7 DEF TokensKept, SpentKept
<1>9. GrantsKept /\ oauthNow' \in Nat /\ oauthNow <= oauthNow'
  BY <1>1, <1>2, SameGrants DEF OAuthTyped
<1>10. OAuthTyped'
  BY <1>1, <1>2, <1>6, <1>7 DEF OAuthTyped
<1>11. Named(p)'
  BY <1>2, <1>3, <1>5, <1>6 DEF Named
<1>12. Placed'
  BY <1>1, <1>2, <1>6, <1>8, <1>11, PlacedStays
<1>13. NoneComes("issue") /\ NoneComes("answer") /\ NoneComes("approve")
  BY <1>5, <1>6 DEF NoneComes
<1>14. Tickets' /\ Spending' /\ Codes'
  BY <1>1, <1>2, <1>8, <1>9, <1>13, TicketsStay, SpendingStays, CodesStay
<1>15. Shown'
  BY <1>1, <1>2, <1>8, <1>9, <1>13, ShownStays DEF GrantsKept, OAuthTyped
<1>16. Alive'
  <2> SUFFICES ASSUME NEW u \in DOMAIN token', token'[u].row, ~ grant'[token'[u].grant].row
               PROVE  /\ ~ token'[u].handed
                      /\ deaths' > 0 \/ \E q \in OAuthRequests : oauthReq'[q].pc = "check" /\ oauthReq'[q].token = u
    BY DEF Alive, NothingOutlivesItsGrant, At
  <2>1. u # t
    BY <1>2, <1>4, <1>7
  <2>2. u \in DOMAIN token /\ token'[u] = token[u] /\ token[u].row /\ ~ grant[token[u].grant].row
    BY <1>2, <1>7, <2>1
  <2>3. /\ ~ token[u].handed
        /\ deaths > 0 \/ \E q \in OAuthRequests : oauthReq[q].pc = "check" /\ oauthReq[q].token = u
    BY <1>1, <2>2 DEF Alive, NothingOutlivesItsGrant, At
  <2>4. \A q \in OAuthRequests : oauthReq[q].token = u => q # p
    BY <2>1 DEF t
  <2> QED
    BY <1>2, <1>6, <2>2, <2>3, <2>4
<1> QED
  BY <1>10, <1>12, <1>14, <1>15, <1>16 DEF OAuthInv

LEMMA PresentKeeps ==
    ASSUME OAuthInv, Bounded, NEW p \in OAuthRequests, NEW t \in DOMAIN token, Present(p, t)
    PROVE  OAuthInv'
<1> DEFINE r == [Idle EXCEPT !.pc = "consume", !.token = t]
<1>1. OAuthTyped /\ Placed
  BY DEF OAuthInv
<1>2. oauthReq[p].pc = "idle" /\ UNCHANGED <<oauthNow, ticket, answer, deaths>>
  BY DEF Present, At
<1>3. CASE ReadsSpent(t)
  <2>1. Revoke(token[t].grant) /\ UNCHANGED oauthReq
    BY <1>3 DEF Present
  <2>2. token[t].grant \in DOMAIN grant
    BY <1>1 DEF Placed
  <2>3. TokensKept /\ SpentKept /\ HandedKept /\ TokenRowsKept /\ GrantsKept
    BY <1>1, <2>1, <2>2, Revoking
  <2> QED
    BY <1>2, <2>1, <2>3, Steadily
<1>4. CASE ~ ReadsSpent(t)
  <2>1. Goes(p, r) /\ UNCHANGED <<grant, token>>
    BY <1>4 DEF Present
  <2>2. t \in Nat
    BY <1>1, Domains DEF OAuthTyped
  <2>3. r \in ReqT /\ r.pc = "consume" /\ r.token = t
    BY <2>2 DEF ReqT, Points, Idle
  <2> HIDE DEF r
  <2>4. oauthReq'[p] = r
    BY <1>1, <2>1, <2>3, Going
  <2>5. Named(p)'
    BY <2>1, <2>3, <2>4 DEF Named
  <2> QED
    BY <1>2, <2>1, <2>3, <2>5, Passing
<1> QED
  BY <1>3, <1>4

(* A request is about to issue from a token that was spent for it.           *)
LEMMA Spends ==
    ASSUME OAuthInv, Bounded, NEW p \in OAuthRequests, NEW r \in ReqT, Goes(p, r),
           r.pc = "issue", r.token \in DOMAIN token, TokensKept, HandedKept,
           UNCHANGED <<oauthNow, ticket, answer, grant, deaths>>,
           oauthReq[p].pc # "check", WithinThen(r.token, r.asof),
           \A u \in DOMAIN token :
               token'[u].spent = token[u].spent
                   \/ (u = r.token /\ token[u].spent = Never /\ token'[u].spent = oauthNow),
           token[r.token].kind = "refresh" \/ token[r.token].spent = Never
    PROVE  OAuthInv'
<1>1. OAuthTyped /\ Placed /\ Tickets /\ Spending /\ Codes /\ Alive /\ Shown
  BY DEF OAuthInv
<1>2. oauthReq' \in [OAuthRequests -> ReqT] /\ oauthReq'[p] = r /\ \A q \in OAuthRequests : q # p => oauthReq'[q] = oauthReq[q]
  BY <1>1, Going
<1>3. OAuthTyped'
  BY <1>1, <1>2 DEF OAuthTyped, TokensKept
<1>4. Named(p)'
  BY <1>2 DEF Named, TokensKept
<1>5. Placed'
  BY <1>1, <1>2, <1>4, PlacedStays
<1>6. NoneComes("answer") /\ NoneComes("approve") /\ NoneLeaves("check")
  BY <1>2 DEF NoneComes, NoneLeaves
<1>7. GrantsKept /\ TokenRowsKept
  BY <1>1, SameGrants
<1>8. Tickets' /\ Alive'
  BY <1>1, <1>6, <1>7, TicketsStay, AliveStays
<1>9. Shown'
  BY <1>1, <1>6, <1>7, ShownStays DEF GrantsKept, OAuthTyped
<1>10. \A u \in DOMAIN token : \A at : Within(u, at) => WithinThen(u, at)
  BY DEF Within, WithinThen
<1>11. \A u \in DOMAIN token : token[u].from # 0 => token[u].from \in DOMAIN token
  BY <1>1, Sources
<1>12. Spending'
  <2>1. \A u \in DOMAIN token' : token'[u].spent # Never => token'[u].spent <= oauthNow'
    BY <1>1 DEF Spending, TokensKept, OAuthTyped
  <2>2. \A u \in DOMAIN token' : token'[u].from # 0 => WithinThen(token'[u].from, token'[u].asof)
    BY <1>1, <1>10, <1>11 DEF Spending, TokensKept
  <2>3. \A q \in OAuthRequests : oauthReq'[q].pc = "issue" => WithinThen(oauthReq'[q].token, oauthReq'[q].asof)
    BY <1>1, <1>2, <1>10 DEF Spending, Placed, Named
  <2> QED
    BY <2>1, <2>2, <2>3 DEF Spending, Within, WithinThen, Never
<1>13. token[r.token].spent = Never =>
           /\ \A u \in DOMAIN token : token[u].from # r.token \/ r.token = 0
           /\ \A q \in OAuthRequests : oauthReq[q].pc = "issue" => oauthReq[q].token # r.token
  BY <1>1 DEF Spending, Within
<1>14. r.token # 0
  BY <1>1, Domains DEF OAuthTyped
<1>15. Codes'
  <2>1. \A u, v \in DOMAIN token' :
            u # v /\ token'[u].from = token'[v].from /\ token'[u].from # 0
                => token'[token'[u].from].kind = "refresh"
    BY <1>1, <1>11 DEF Codes, TokensKept
  <2>2. ASSUME NEW q \in OAuthRequests, oauthReq'[q].pc = "issue", token'[oauthReq'[q].token].kind = "code"
        PROVE  /\ \A u \in DOMAIN token' : token'[u].from # oauthReq'[q].token
               /\ \A o \in OAuthRequests : o # q /\ oauthReq'[o].pc = "issue" => oauthReq'[o].token # oauthReq'[q].token
    <3>1. CASE q = p
      <4>1. token[r.token].spent = Never
        BY <1>2, <2>2, <3>1 DEF TokensKept
      <4> QED
        BY <1>2, <1>13, <1>14, <3>1, <4>1 DEF TokensKept
    <3>2. CASE q # p
      <4>1. /\ oauthReq'[q] = oauthReq[q] /\ oauthReq[q].pc = "issue" /\ oauthReq[q].token \in DOMAIN token
            /\ token[oauthReq[q].token].kind = "code"
        BY <1>1, <1>2, <2>2, <3>2 DEF TokensKept, Placed, Named
      <4>2. /\ \A u \in DOMAIN token : token[u].from # oauthReq[q].token
            /\ \A o \in OAuthRequests : o # q /\ oauthReq[o].pc = "issue" => oauthReq[o].token # oauthReq[q].token
        BY <1>1, <4>1 DEF Codes
      <4>3. r.token # oauthReq[q].token
        BY <1>13, <4>1
      <4> QED
        BY <1>2, <4>1, <4>2, <4>3 DEF TokensKept
    <3> QED
      BY <3>1, <3>2
  <2> QED
    BY <2>1, <2>2 DEF Codes
<1> QED
  BY <1>3, <1>5, <1>8, <1>9, <1>12, <1>15 DEF OAuthInv

LEMMA ConsumeKeeps == ASSUME OAuthInv, Bounded, NEW p \in OAuthRequests, Consume(p) PROVE OAuthInv'
<1> DEFINE t == oauthReq[p].token
           new == [token[t] EXCEPT !.spent = oauthNow]
           r == [oauthReq[p] EXCEPT !.pc = "issue", !.asof = oauthNow]
           s == [oauthReq[p] EXCEPT !.pc = "lost"]
<1>1. OAuthTyped /\ Placed
  BY DEF OAuthInv
<1>2. oauthReq[p].pc = "consume" /\ UNCHANGED <<oauthNow, ticket, answer, grant, deaths>>
  BY DEF Consume, At
<1>3. t \in DOMAIN token /\ oauthNow \in Nat /\ oauthNow <= MaxOAuthTime /\ oauthReq[p] \in ReqT
  BY <1>1, <1>2 DEF Placed, Named, OAuthTyped
<1>4. token[t] \in TokenT
  BY <1>1, <1>3, Fields
<1>5. CASE Claimable(t)
  <2>1. token' = [token EXCEPT ![t] = new] /\ Goes(p, r) /\ token[t].spent = Never
    BY <1>5 DEF Consume, Claimable
  <2>2. /\ new \in TokenT /\ new.kind = token[t].kind /\ new.grant = token[t].grant
        /\ new.from = token[t].from /\ new.asof = token[t].asof /\ new.row = token[t].row
        /\ new.handed = token[t].handed /\ new.spent = oauthNow
    BY <1>3, <1>4 DEF TokenT
  <2>3. r \in ReqT /\ r.pc = "issue" /\ r.token = t /\ r.asof = oauthNow
    BY <1>3 DEF ReqT, Points
  <2> HIDE DEF new, r, t
  <2>4. /\ token' \in Seq(TokenT) /\ DOMAIN token' = DOMAIN token
        /\ \A u \in DOMAIN token : token'[u] = IF u = t THEN new ELSE token[u]
    BY <1>1, <1>3, <2>1, <2>2, Updated DEF OAuthTyped
  <2>5. TokensKept /\ HandedKept
    BY <2>2, <2>4 DEF TokensKept, HandedKept
  <2>6. \A u \in DOMAIN token :
            token'[u].spent = token[u].spent
                \/ (u = r.token /\ token[u].spent = Never /\ token'[u].spent = oauthNow)
    BY <2>1, <2>2, <2>3, <2>4
  <2>7. oauthNow # Never /\ oauthNow <= oauthNow /\ oauthNow <= oauthNow + RefreshGrace
    BY <1>3 DEF Never, Bounded
  <2>8. WithinThen(r.token, r.asof)
    BY <1>3, <2>2, <2>3, <2>4, <2>7 DEF WithinThen
  <2> QED
    BY <1>2, <1>3, <2>1, <2>3, <2>5, <2>6, <2>8, Spends
<1>6. CASE ~ Claimable(t)
  <2>1. UNCHANGED token /\ Goes(p, s)
    BY <1>6 DEF Consume, To
  <2>2. s \in ReqT /\ s.pc = "lost" /\ s.token = t
    BY <1>1, ToTyped DEF Points
  <2> HIDE DEF s, t
  <2>3. oauthReq'[p] = s
    BY <1>1, <2>1, <2>2, Going
  <2>4. Named(p)'
    BY <1>3, <2>1, <2>2, <2>3 DEF Named
  <2> QED
    BY <1>2, <2>1, <2>2, <2>4, Passing
<1> QED
  BY <1>5, <1>6

LEMMA LostKeeps == ASSUME OAuthInv, Bounded, NEW p \in OAuthRequests, Lost(p) PROVE OAuthInv'
<1> DEFINE t == oauthReq[p].token
           r == [oauthReq[p] EXCEPT !.pc = "issue", !.asof = oauthNow]
<1>1. OAuthTyped /\ Placed /\ Spending
  BY DEF OAuthInv
<1>2. oauthReq[p].pc = "lost" /\ UNCHANGED <<oauthNow, ticket, answer, deaths>>
  BY DEF Lost, At
<1>3. t \in DOMAIN token /\ oauthNow \in Nat /\ oauthNow <= MaxOAuthTime /\ oauthReq[p] \in ReqT
  BY <1>1, <1>2 DEF Placed, Named, OAuthTyped
<1>4. CASE Ends(p) /\ UNCHANGED <<grant, token>>
  BY <1>2, <1>4, Ending
<1>5. CASE Revoke(token[t].grant) /\ Ends(p)
  <2>1. token[t].grant \in DOMAIN grant
    BY <1>1, <1>3 DEF Placed
  <2>2. TokensKept /\ SpentKept /\ HandedKept /\ TokenRowsKept /\ GrantsKept
    BY <1>1, <1>5, <2>1, Revoking
  <2> QED
    BY <1>2, <1>5, <2>2, Steadily
<1>6. CASE /\ token[t].spent # Never /\ InGrace(t) /\ UNCHANGED <<token, grant>>
           /\ Goes(p, r)
  <2>1. r \in ReqT /\ r.pc = "issue" /\ r.token = t /\ r.asof = oauthNow
    BY <1>3 DEF ReqT, Points
  <2>2. token[t].kind = "refresh" /\ oauthNow - token[t].spent <= RefreshGrace
    BY <1>6 DEF InGrace
  <2>3. token[t].spent \in Nat /\ token[t].spent <= oauthNow
    BY <1>1, <1>3, <1>6, Fields DEF Spending
  <2>4. token[t].spent <= oauthNow /\ oauthNow <= token[t].spent + RefreshGrace
    BY <1>3, <2>2, <2>3 DEF Bounded
  <2> HIDE DEF r, t
  <2>5. WithinThen(r.token, r.asof)
    BY <1>6, <2>1, <2>4 DEF WithinThen
  <2>6. TokensKept /\ HandedKept /\ SpentKept
    BY <1>1, <1>6, SameTokens
  <2> QED
    BY <1>2, <1>3, <1>6, <2>1, <2>2, <2>5, <2>6, Spends DEF SpentKept
<1> QED
  BY <1>4, <1>5, <1>6 DEF Lost, SpentAgain

-----------------------------------------------------------------------------
LEMMA OAuthInitInv == ASSUME Bounded PROVE OAuthInit => OAuthInv
<1> SUFFICES ASSUME OAuthInit PROVE OAuthInv
  OBVIOUS
<1>1. /\ oauthNow = 0 /\ ticket = <<>> /\ answer = Open /\ grant = <<>> /\ token = <<>>
      /\ oauthReq = [p \in OAuthRequests |-> Idle]
  BY DEF OAuthInit
<1>2. \A p \in OAuthRequests : oauthReq[p].pc = "idle"
  BY <1>1 DEF Idle
<1>3. DOMAIN ticket = {} /\ DOMAIN grant = {} /\ DOMAIN token = {} /\ Len(grant) = 0
  BY <1>1
<1>4. OAuthTyped
  <2>1. ticket \in Seq(TicketT) /\ grant \in Seq(GrantT) /\ token \in Seq(TokenT)
    BY <1>1, EmptySeq
  <2> QED
    BY <1>1, <1>3, <2>1, IdleTyped DEF OAuthTyped, Open, Bounded
<1>5. Placed
  BY <1>1, <1>2, <1>3 DEF Placed, Named
<1>6. Tickets /\ Spending /\ Codes
  BY <1>2, <1>3 DEF Tickets, Spending, Codes
<1>7. Alive /\ Shown
  BY <1>2, <1>3 DEF Alive, NothingOutlivesItsGrant, Shown
<1> QED
  BY <1>4, <1>5, <1>6, <1>7 DEF OAuthInv

(* Every step keeps the invariant.                                         *)
LEMMA OAuthNextInv == ASSUME Bounded, deaths \in Nat PROVE OAuthInv /\ [OAuthNext]_oauthVars => OAuthInv'
<1> SUFFICES ASSUME OAuthInv, [OAuthNext]_oauthVars PROVE OAuthInv'
  OBVIOUS
<1>1. CASE UNCHANGED oauthVars
  <2>1. UNCHANGED <<oauthNow, ticket, answer, grant, token, oauthReq, deaths>>
    BY <1>1 DEF oauthVars
  <2>2. TokensKept /\ SpentKept /\ HandedKept /\ TokenRowsKept /\ GrantsKept
    BY <2>1, SameTokens, SameGrants DEF OAuthInv
  <2> QED
    BY <2>1, <2>2, Steadily
<1>2. CASE DecideConsent \/ Disconnect \/ Purge \/ OAuthTick
  BY <1>2, DecideKeeps, Disconnects, PurgeKeeps, OAuthTickKeeps
<1>3. ASSUME NEW p \in OAuthRequests, NEW k \in DOMAIN ticket, FinishConsent(p, k) PROVE OAuthInv'
  BY <1>3, FinishKeeps
<1>4. ASSUME NEW p \in OAuthRequests,
             \/ Take(p) \/ SaveGrant(p) \/ SaveMeta(p) \/ Answer(p)
             \/ Resume(p) \/ Check(p) \/ Touch(p) \/ Touching(p)
             \/ Consume(p) \/ Lost(p) \/ Rotate(p) \/ RequestDies(p)
      PROVE  OAuthInv'
  BY <1>4, TakeKeeps, SaveGrantKeeps, SaveMetaKeeps, AnswerKeeps, ResumeKeeps, CheckKeeps,
     TouchKeeps, TouchingKeeps, ConsumeKeeps, LostKeeps, RotateKeeps, DiesKeeps
<1>5. ASSUME NEW p \in OAuthRequests, NEW t \in DOMAIN token, Present(p, t) PROVE OAuthInv'
  BY <1>5, PresentKeeps
<1> QED
  BY <1>1, <1>2, <1>3, <1>4, <1>5 DEF OAuthNext

LEMMA DeathsCounted == OAuthSpec => [](deaths \in Nat)
<1>1. OAuthInit => deaths \in Nat
  BY DEF OAuthInit
<1>2. deaths \in Nat /\ [OAuthNext]_oauthVars => (deaths \in Nat)'
  <2> SUFFICES ASSUME deaths \in Nat, [OAuthNext]_oauthVars PROVE deaths' = deaths \/ deaths' = deaths + 1
    OBVIOUS
  <2>1. CASE UNCHANGED oauthVars
    BY <2>1 DEF oauthVars
  <2>2. CASE DecideConsent \/ Disconnect \/ Purge \/ OAuthTick
    BY <2>2 DEF DecideConsent, Disconnect, Purge, OAuthTick
  <2>3. ASSUME NEW p \in OAuthRequests, NEW k \in DOMAIN ticket, FinishConsent(p, k) PROVE deaths' = deaths
    BY <2>3 DEF FinishConsent
  <2>4. ASSUME NEW p \in OAuthRequests, NEW t \in DOMAIN token, Present(p, t) PROVE deaths' = deaths
    BY <2>4 DEF Present
  <2>5. ASSUME NEW p \in OAuthRequests, Take(p) \/ SaveGrant(p) \/ SaveMeta(p) \/ Answer(p)
        PROVE  deaths' = deaths
    BY <2>5 DEF Take, SaveGrant, SaveMeta, Answer
  <2>6. ASSUME NEW p \in OAuthRequests, Resume(p) \/ Check(p) \/ Touch(p) \/ Touching(p)
        PROVE  deaths' = deaths
    BY <2>6 DEF Resume, Check, Touch, Touching
  <2>7. ASSUME NEW p \in OAuthRequests, Consume(p) \/ Lost(p) \/ Rotate(p) PROVE deaths' = deaths
    BY <2>7 DEF Consume, Lost, Rotate
  <2>8. ASSUME NEW p \in OAuthRequests, RequestDies(p) PROVE deaths' = deaths + 1
    BY <2>8 DEF RequestDies
  <2> QED
    BY <2>1, <2>2, <2>3, <2>4, <2>5, <2>6, <2>7, <2>8 DEF OAuthNext
<1> QED
  BY <1>1, <1>2, PTL DEF OAuthSpec

LEMMA Invariant == ASSUME Bounded PROVE OAuthSpec => []OAuthInv
<1>1. OAuthInit => OAuthInv
  BY OAuthInitInv
<1>2. deaths \in Nat /\ OAuthInv /\ [OAuthNext]_oauthVars => OAuthInv'
  BY OAuthNextInv
<1> QED
  BY <1>1, <1>2, DeathsCounted, PTL DEF OAuthSpec

(* A code yields one refresh token and a consent ticket one grant, however   *)
(* many requests present them at once and wherever one of them dies:       *)
(* claimOAuthRecord and takeOAuthRecord spend in one statement.             *)
THEOREM SpentOnce == ASSUME Bounded PROVE OAuthSpec => []UsedOnce
<1>1. OAuthInv => UsedOnce
  BY DEF OAuthInv, Codes, Tickets, UsedOnce
<1> QED
  BY <1>1, Invariant, PTL

(* Whatever a refresh token yields was asked for within its grace, counted   *)
(* from its first use: replays do not extend it.                           *)
THEOREM GraceKept == ASSUME Bounded PROVE OAuthSpec => []GraceFromFirstUse
<1>1. OAuthInv => GraceFromFirstUse
  <2> SUFFICES ASSUME OAuthInv, NEW t \in DOMAIN token, NEW u \in DOMAIN token,
                      token[t].from = token[u].from, token[t].from # 0
               PROVE  token[t].asof <= token[u].asof + RefreshGrace
    BY DEF GraceFromFirstUse
  <2>1. OAuthTyped /\ Placed /\ Spending
    BY DEF OAuthInv
  <2> DEFINE f == token[t].from
  <2>2. f \in DOMAIN token
    BY <2>1, Sources
  <2>3. Within(f, token[t].asof) /\ Within(f, token[u].asof)
    BY <2>1 DEF Spending
  <2>4. token[f].spent \in Nat /\ token[t].asof \in Nat /\ token[u].asof \in Nat
    BY <2>1, <2>2, Fields
  <2>5. token[t].asof <= token[f].spent + RefreshGrace /\ token[f].spent <= token[u].asof
    BY <2>3 DEF Within
  <2> QED
    BY <2>4, <2>5 DEF Bounded
<1> QED
  BY <1>1, Invariant, PTL

(* A revoked grant leaves no token a client was given, whichever of the      *)
(* revocation and the storing comes first.                                 *)
THEOREM RevokedIsGone == ASSUME Bounded PROVE OAuthSpec => []NothingOutlivesItsGrant
<1>1. OAuthInv => NothingOutlivesItsGrant
  BY DEF OAuthInv, Alive
<1> QED
  BY <1>1, Invariant, PTL

(* Who holds a token of a connection is shown in Connected apps, though the   *)
(* process may die between any two of the rows.                            *)
THEOREM AllConnectionsShown == ASSUME Bounded PROVE OAuthSpec => []NoHiddenConnection
<1>1. OAuthInv => NoHiddenConnection
  <2> SUFFICES ASSUME OAuthInv, NEW t \in DOMAIN token, token[t].row, token[t].handed
               PROVE  grant[token[t].grant].meta = "shown"
    BY DEF NoHiddenConnection
  <2>1. grant[token[t].grant].row
    BY DEF OAuthInv, Alive, NothingOutlivesItsGrant
  <2> QED
    BY <2>1 DEF OAuthInv, Shown, IsShown
<1> QED
  BY <1>1, Invariant, PTL

-----------------------------------------------------------------------------
(* The type invariant bounds what the invariant above needs no bound of: the *)
(* tokens stored, the deaths, and how late a token or a request is as of.   *)
OAuthBounds == Bounded /\ MaxTokens \in Nat /\ MaxDeaths \in Nat

OAuthLog ==
    /\ deaths \in 0 .. MaxDeaths
    /\ Len(token) <= MaxTokens
    /\ \A t \in DOMAIN token : token[t].asof <= oauthNow
    /\ \A q \in OAuthRequests : oauthReq[q].asof <= oauthNow

AsOfKept ==
    /\ DOMAIN token' = DOMAIN token /\ Len(token') = Len(token)
    /\ \A t \in DOMAIN token : token'[t].asof = token[t].asof

RequestsTimely ==
    \A q \in OAuthRequests : oauthReq'[q].asof \in {oauthReq[q].asof, 0, oauthNow}

LEMMA AsOfStays == ASSUME OAuthTyped, TokensKept PROVE AsOfKept
<1>1. token \in Seq(TokenT) /\ token' \in Seq(TokenT) /\ DOMAIN token' = DOMAIN token
  BY DEF OAuthTyped, TokensKept
<1>2. /\ DOMAIN token = 1 .. Len(token) /\ Len(token) \in Nat
      /\ DOMAIN token' = 1 .. Len(token') /\ Len(token') \in Nat
  BY <1>1, Domains
<1>3. Len(token') = Len(token)
  <2>1. \A m, n \in Nat : 1 .. m = 1 .. n => m = n
    OBVIOUS
  <2> QED
    BY <1>1, <1>2, <2>1
<1> QED
  BY <1>1, <1>3 DEF AsOfKept, TokensKept

LEMMA OneAsOf ==
    ASSUME OAuthTyped, NEW t \in DOMAIN token, NEW e \in TokenT, e.asof = token[t].asof,
           token' = [token EXCEPT ![t] = e]
    PROVE  AsOfKept
<1>1. /\ DOMAIN token' = DOMAIN token /\ Len(token') = Len(token)
      /\ \A u \in DOMAIN token : token'[u] = IF u = t THEN e ELSE token[u]
  BY Updated DEF OAuthTyped
<1> QED
  BY <1>1 DEF AsOfKept

LEMMA GoesTimely ==
    ASSUME OAuthTyped, NEW p \in OAuthRequests, NEW r, Goes(p, r),
           r.asof \in {oauthReq[p].asof, 0, oauthNow}
    PROVE  RequestsTimely
  BY DEF OAuthTyped, Goes, RequestsTimely

LEMMA MovesTimely ==
    ASSUME OAuthTyped, NEW p \in OAuthRequests, NEW pc, Ends(p) \/ To(p, pc) \/ UNCHANGED oauthReq
    PROVE  RequestsTimely
<1>1. CASE Ends(p)
  BY <1>1, GoesTimely DEF Ends, Idle
<1>2. CASE To(p, pc)
  <2>1. [oauthReq[p] EXCEPT !.pc = pc].asof = oauthReq[p].asof
    BY DEF OAuthTyped, ReqT
  <2> QED
    BY <1>2, <2>1, GoesTimely DEF To
<1>3. CASE UNCHANGED oauthReq
  BY <1>3 DEF RequestsTimely
<1> QED
  BY <1>1, <1>2, <1>3

LEMMA LogStays ==
    ASSUME OAuthBounds, OAuthInv, OAuthLog, AsOfKept, RequestsTimely,
           oauthNow' \in {oauthNow, oauthNow + 1}, deaths' \in 0 .. MaxDeaths
    PROVE  OAuthLog'
<1>1. oauthNow \in Nat
  BY DEF OAuthInv, OAuthTyped
<1>2. \A t \in DOMAIN token : token[t].asof \in Nat
  BY Fields DEF OAuthInv
<1>3. \A q \in OAuthRequests : oauthReq[q].asof \in Nat
  BY DEF OAuthInv, OAuthTyped, ReqT
<1>4. \A t \in DOMAIN token' : token'[t].asof <= oauthNow'
  BY <1>1, <1>2 DEF OAuthLog, AsOfKept
<1>5. \A q \in OAuthRequests : oauthReq'[q].asof <= oauthNow'
  BY <1>1, <1>3 DEF OAuthLog, RequestsTimely
<1> QED
  BY <1>4, <1>5 DEF OAuthLog, AsOfKept

LEMMA IssueLogs ==
    ASSUME OAuthBounds, OAuthInv, OAuthLog, NEW p \in OAuthRequests, NEW kind \in {"code", "refresh"},
           NEW g \in Nat, NEW from \in Nat, NEW asof \in Nat, asof <= oauthNow,
           Issue(p, kind, g, from, asof), UNCHANGED <<oauthNow, deaths>>
    PROVE  OAuthLog'
<1> DEFINE new == [kind |-> kind, grant |-> g, row |-> TRUE, spent |-> Never,
                   from |-> from, asof |-> asof, handed |-> FALSE]
           r == [Idle EXCEPT !.pc = "check", !.token = Len(token) + 1, !.grant = g]
<1>1. OAuthTyped
  BY DEF OAuthInv
<1>2. token' = Append(token, new) /\ Goes(p, r) /\ Len(token) < MaxTokens
  BY DEF Issue
<1>3. new \in TokenT /\ new.asof = asof
  BY DEF TokenT, Never, OAuthBounds, Bounded
<1>4. r.asof = 0
  BY DEF Idle
<1>5. /\ DOMAIN token' = DOMAIN token \cup {Len(token) + 1} /\ Len(token') = Len(token) + 1
      /\ \A t \in DOMAIN token : token'[t] = token[t]
      /\ token'[Len(token) + 1] = new
  <2> HIDE DEF new
  <2> QED
    BY <1>1, <1>2, <1>3, Appended DEF OAuthTyped
<1>6. Len(token) \in Nat /\ oauthNow \in Nat
  BY <1>1, Domains DEF OAuthTyped
<1> HIDE DEF new, r
<1>7. \A t \in DOMAIN token' : token'[t].asof <= oauthNow'
  BY <1>3, <1>5 DEF OAuthLog
<1>8. \A q \in OAuthRequests : oauthReq'[q].asof \in {oauthReq[q].asof, 0, oauthNow}
  BY <1>1, <1>2, <1>4, GoesTimely DEF RequestsTimely
<1>9. \A q \in OAuthRequests : oauthReq'[q].asof <= oauthNow'
  BY <1>6, <1>8 DEF OAuthLog
<1>10. Len(token') <= MaxTokens
  BY <1>2, <1>5, <1>6 DEF OAuthBounds
<1> QED
  BY <1>7, <1>9, <1>10 DEF OAuthLog

(* The steps that leave the tokens alone, or move one request.             *)
LEMMA QuietLogs ==
    ASSUME OAuthBounds, OAuthInv, OAuthLog, NEW p \in OAuthRequests,
           \/ \E k \in DOMAIN ticket : FinishConsent(p, k)
           \/ Take(p) \/ SaveGrant(p) \/ Answer(p) \/ Touch(p) \/ Touching(p) \/ RequestDies(p)
    PROVE  OAuthLog'
<1>1. OAuthTyped /\ deaths \in 0 .. MaxDeaths
  BY DEF OAuthInv, OAuthLog
<1>2. UNCHANGED <<oauthNow, token>>
  BY DEF FinishConsent, Take, SaveGrant, Answer, Touch, Touching, RequestDies
<1>3. AsOfKept
  BY <1>2 DEF AsOfKept
<1>4. RequestsTimely
  <2>1. ASSUME NEW k \in DOMAIN ticket, FinishConsent(p, k) PROVE RequestsTimely
    BY <1>1, <2>1, GoesTimely DEF FinishConsent, Idle
  <2>2. CASE Take(p) \/ Answer(p) \/ Touch(p) \/ Touching(p) \/ RequestDies(p)
    BY <1>1, <2>2, MovesTimely DEF Take, Answer, Touch, Touching, RequestDies
  <2>3. CASE SaveGrant(p)
    <3>1. [oauthReq[p] EXCEPT !.pc = AfterGrant, !.grant = Len(grant) + 1].asof = oauthReq[p].asof
      BY <1>1 DEF OAuthTyped, ReqT
    <3>2. Ends(p) \/ Goes(p, [oauthReq[p] EXCEPT !.pc = AfterGrant, !.grant = Len(grant) + 1])
      BY <2>3 DEF SaveGrant
    <3> QED
      BY <1>1, <3>1, <3>2, GoesTimely, MovesTimely
  <2> QED
    BY <2>1, <2>2, <2>3
<1>5. deaths' \in 0 .. MaxDeaths
  <2>1. CASE RequestDies(p)
    BY <1>1, <2>1 DEF RequestDies, OAuthBounds
  <2>2. CASE ~ RequestDies(p)
    BY <1>1, <2>2 DEF FinishConsent, Take, SaveGrant, Answer, Touch, Touching
  <2> QED
    BY <2>1, <2>2
<1> QED
  BY <1>2, <1>3, <1>4, <1>5, LogStays

(* The steps that change a token, or revoke them.                          *)
LEMMA TokenLogs ==
    ASSUME OAuthBounds, OAuthInv, OAuthLog, NEW p \in OAuthRequests,
           \/ SaveMeta(p) \/ Check(p) \/ Consume(p) \/ Lost(p)
           \/ \E t \in DOMAIN token : Present(p, t)
    PROVE  OAuthLog'
<1> DEFINE t == oauthReq[p].token
<1>1. OAuthTyped /\ Placed /\ deaths \in 0 .. MaxDeaths
  BY DEF OAuthInv, OAuthLog
<1>2. UNCHANGED <<oauthNow, deaths>>
  BY DEF SaveMeta, Check, Consume, Lost, Present
<1>3. UNCHANGED token => AsOfKept
  BY DEF AsOfKept
<1>4. ASSUME NEW g \in DOMAIN grant, Revoke(g) PROVE AsOfKept
  BY <1>1, <1>4, Revoking, AsOfStays
<1>5. \A r : Goes(p, r) /\ r.asof = oauthNow => RequestsTimely
  BY <1>1, GoesTimely
<1>6. Ends(p) \/ UNCHANGED oauthReq => RequestsTimely
  BY <1>1, MovesTimely
<1>7. \A pc : To(p, pc) => RequestsTimely
  BY <1>1, MovesTimely
<1>8. oauthReq[p].pc \in {"check", "consume", "lost"} => t \in DOMAIN token
  BY <1>1 DEF Placed, Named
<1>9. AsOfKept /\ RequestsTimely
  <2>1. CASE SaveMeta(p)
    <3>1. oauthReq[p].grant \in DOMAIN grant
      BY <1>1, <2>1 DEF SaveMeta, At, Placed, Named
    <3>2. AsOfKept
      BY <1>3, <1>4, <2>1, <3>1 DEF SaveMeta
    <3>3. Ends(p) \/ To(p, "answer")
      BY <2>1 DEF SaveMeta
    <3> QED
      BY <1>6, <1>7, <3>2, <3>3
  <2>2. CASE Check(p)
    <3>1. t \in DOMAIN token
      BY <1>8, <2>2 DEF Check, At
    <3>2. token[t] \in TokenT
      BY <1>1, <3>1, Fields
    <3>3. /\ [token[t] EXCEPT !.handed = TRUE] \in TokenT
          /\ [token[t] EXCEPT !.handed = TRUE].asof = token[t].asof
          /\ [token[t] EXCEPT !.row = FALSE] \in TokenT
          /\ [token[t] EXCEPT !.row = FALSE].asof = token[t].asof
      BY <3>2 DEF TokenT
    <3>4. \/ token' = [token EXCEPT ![t] = [token[t] EXCEPT !.handed = TRUE]]
          \/ token' = [token EXCEPT ![t] = [token[t] EXCEPT !.row = FALSE]]
      BY <2>2 DEF Check
    <3>5. Ends(p) \/ To(p, "touch")
      BY <2>2 DEF Check
    <3>6. AsOfKept
      BY <1>1, <3>1, <3>3, <3>4, OneAsOf
    <3> QED
      BY <1>6, <1>7, <3>5, <3>6
  <2>3. CASE Consume(p)
    <3>1. t \in DOMAIN token
      BY <1>8, <2>3 DEF Consume, At
    <3>2. token[t] \in TokenT /\ oauthNow \in Nat
      BY <1>1, <3>1, Fields DEF OAuthTyped
    <3>3. /\ [token[t] EXCEPT !.spent = oauthNow] \in TokenT
          /\ [token[t] EXCEPT !.spent = oauthNow].asof = token[t].asof
      BY <3>2 DEF TokenT
    <3>4. UNCHANGED token \/ token' = [token EXCEPT ![t] = [token[t] EXCEPT !.spent = oauthNow]]
      BY <2>3 DEF Consume
    <3>5. [oauthReq[p] EXCEPT !.pc = "issue", !.asof = oauthNow].asof = oauthNow
      BY <1>1 DEF OAuthTyped, ReqT
    <3>6. To(p, "lost") \/ Goes(p, [oauthReq[p] EXCEPT !.pc = "issue", !.asof = oauthNow])
      BY <2>3 DEF Consume
    <3>7. AsOfKept
      BY <1>1, <1>3, <3>1, <3>3, <3>4, OneAsOf
    <3> QED
      BY <1>5, <1>7, <3>5, <3>6, <3>7
  <2>4. CASE Lost(p)
    <3>1. t \in DOMAIN token
      BY <1>8, <2>4 DEF Lost, At
    <3>2. token[t].grant \in DOMAIN grant
      BY <1>1, <3>1 DEF Placed
    <3>3. UNCHANGED token \/ Revoke(token[t].grant)
      BY <2>4 DEF Lost, SpentAgain
    <3>4. [oauthReq[p] EXCEPT !.pc = "issue", !.asof = oauthNow].asof = oauthNow
      BY <1>1 DEF OAuthTyped, ReqT
    <3>5. Ends(p) \/ Goes(p, [oauthReq[p] EXCEPT !.pc = "issue", !.asof = oauthNow])
      BY <2>4 DEF Lost
    <3> QED
      BY <1>3, <1>4, <1>5, <1>6, <3>2, <3>3, <3>4, <3>5
  <2>5. ASSUME NEW u \in DOMAIN token, Present(p, u) PROVE AsOfKept /\ RequestsTimely
    <3>1. token[u].grant \in DOMAIN grant
      BY <1>1 DEF Placed
    <3>2. CASE ReadsSpent(u)
      BY <1>4, <1>6, <2>5, <3>1, <3>2 DEF Present
    <3>3. CASE ~ ReadsSpent(u)
      <4>1. [Idle EXCEPT !.pc = "consume", !.token = u].asof = 0
        BY DEF Idle
      <4> QED
        BY <1>1, <1>3, <2>5, <3>3, <4>1, GoesTimely DEF Present
    <3> QED
      BY <3>2, <3>3
  <2> QED
    BY <2>1, <2>2, <2>3, <2>4, <2>5
<1> QED
  BY <1>1, <1>2, <1>9, LogStays

LEMMA OAuthLogNext ==
    ASSUME OAuthBounds PROVE OAuthInv /\ OAuthLog /\ [OAuthNext]_oauthVars => OAuthLog'
<1> SUFFICES ASSUME OAuthInv, OAuthLog, [OAuthNext]_oauthVars PROVE OAuthLog'
  OBVIOUS
<1>1. OAuthTyped /\ Placed /\ deaths \in 0 .. MaxDeaths
  BY DEF OAuthInv, OAuthLog
<1>2. CASE UNCHANGED oauthVars
  BY <1>2 DEF oauthVars, OAuthLog
<1>3. CASE DecideConsent \/ OAuthTick
  <2>1. UNCHANGED <<token, oauthReq, deaths>> /\ oauthNow' \in {oauthNow, oauthNow + 1}
    BY <1>3 DEF DecideConsent, OAuthTick
  <2>2. AsOfKept /\ RequestsTimely
    BY <2>1 DEF AsOfKept, RequestsTimely
  <2> QED
    BY <1>1, <2>1, <2>2, LogStays
<1>4. CASE Disconnect
  <2>1. PICK g \in DOMAIN grant : Revoke(g) /\ UNCHANGED <<oauthNow, oauthReq, deaths>>
    BY <1>4 DEF Disconnect
  <2>2. AsOfKept /\ RequestsTimely
    BY <1>1, <2>1, Revoking, AsOfStays DEF RequestsTimely
  <2> QED
    BY <1>1, <2>1, <2>2, LogStays
<1>5. CASE Purge
  <2>1. /\ token' = [t \in DOMAIN token |-> IF Purgeable(t) THEN [token[t] EXCEPT !.row = FALSE] ELSE token[t]]
        /\ UNCHANGED <<oauthNow, oauthReq, deaths>>
    BY <1>5 DEF Purge
  <2>2. \A t \in DOMAIN token : token[t] \in TokenT
    BY <1>1, Fields
  <2>3. \A t \in DOMAIN token : /\ [token[t] EXCEPT !.row = FALSE] \in TokenT
                                /\ [token[t] EXCEPT !.row = FALSE].asof = token[t].asof
    BY <2>2 DEF TokenT
  <2>4. token' \in [DOMAIN token -> TokenT]
    BY <2>1, <2>2, <2>3
  <2>5. Len(token') = Len(token)
    BY <1>1, <2>4, Rewritten DEF OAuthTyped
  <2>6. AsOfKept /\ RequestsTimely
    BY <2>1, <2>3, <2>5 DEF AsOfKept, RequestsTimely
  <2> QED
    BY <1>1, <2>1, <2>6, LogStays
<1>6. ASSUME NEW p \in OAuthRequests, Resume(p) PROVE OAuthLog'
  <2>1. answer \in 1 .. MaxGrants /\ Issue(p, "code", answer, 0, oauthNow) /\ UNCHANGED <<oauthNow, deaths>>
    BY <1>6 DEF Resume
  <2>2. answer \in Nat /\ oauthNow \in Nat /\ oauthNow <= oauthNow
    BY <1>1 DEF OAuthTyped
  <2> QED
    BY <2>1, <2>2, IssueLogs
<1>7. ASSUME NEW p \in OAuthRequests, Rotate(p) PROVE OAuthLog'
  <2> DEFINE t == oauthReq[p].token
  <2>1. oauthReq[p].pc = "issue" /\ Issue(p, "refresh", token[t].grant, t, oauthReq[p].asof)
        /\ UNCHANGED <<oauthNow, deaths>>
    BY <1>7 DEF Rotate, At
  <2>2. t \in DOMAIN token /\ t \in Nat /\ oauthReq[p].asof \in Nat
    BY <1>1, <2>1 DEF Placed, Named, OAuthTyped, ReqT
  <2>3. token[t].grant \in Nat /\ oauthReq[p].asof <= oauthNow
    BY <1>1, <2>2, Fields DEF OAuthLog
  <2> HIDE DEF t
  <2> QED
    BY <2>1, <2>2, <2>3, IssueLogs
<1>8. ASSUME NEW p \in OAuthRequests, NEW k \in DOMAIN ticket, FinishConsent(p, k) PROVE OAuthLog'
  BY <1>8, QuietLogs
<1>9. ASSUME NEW p \in OAuthRequests,
             \/ Take(p) \/ SaveGrant(p) \/ Answer(p) \/ Touch(p) \/ Touching(p) \/ RequestDies(p)
      PROVE  OAuthLog'
  BY <1>9, QuietLogs
<1>10. ASSUME NEW p \in OAuthRequests, NEW t \in DOMAIN token, Present(p, t) PROVE OAuthLog'
  BY <1>10, TokenLogs
<1>11. ASSUME NEW p \in OAuthRequests, SaveMeta(p) \/ Check(p) \/ Consume(p) \/ Lost(p)
       PROVE  OAuthLog'
  BY <1>11, TokenLogs
<1> QED
  BY <1>2, <1>3, <1>4, <1>5, <1>6, <1>7, <1>8, <1>9, <1>10, <1>11 DEF OAuthNext

LEMMA OAuthLogTypes == ASSUME OAuthBounds PROVE OAuthInv /\ OAuthLog => OAuthTypeOK
<1> SUFFICES ASSUME OAuthInv, OAuthLog PROVE OAuthTypeOK
  OBVIOUS
<1>1. OAuthTyped /\ Placed /\ Spending
  BY DEF OAuthInv
<1>2. /\ DOMAIN grant = 1 .. Len(grant) /\ Len(grant) \in Nat
      /\ DOMAIN token = 1 .. Len(token) /\ Len(token) \in Nat
  BY <1>1, Domains DEF OAuthTyped
<1>3. answer \in Open .. Refused
  BY <1>1, <1>2 DEF OAuthTyped, Placed, Open, Refused, OAuthBounds, Bounded
<1>4. token \in Seq(Token)
  <2>1. ASSUME NEW t \in DOMAIN token PROVE token[t] \in Token
    <3>1. token[t] \in TokenT /\ token[t].spent \in Nat /\ token[t].from \in Nat /\ token[t].asof \in Nat
      BY <1>1, Fields
    <3>2. token[t].grant \in 1 .. MaxGrants
      BY <1>1, <1>2 DEF Placed, OAuthTyped, OAuthBounds, Bounded
    <3>3. token[t].from \in 0 .. MaxTokens
      BY <1>1, <1>2, <3>1 DEF Placed, OAuthLog, OAuthBounds
    <3>4. token[t].asof \in 0 .. MaxOAuthTime
      BY <1>1, <3>1 DEF OAuthTyped, OAuthLog, OAuthBounds, Bounded
    <3>5. token[t].spent \in 0 .. Never
      BY <1>1, <3>1 DEF OAuthTyped, Spending, Never, OAuthBounds, Bounded
    <3> QED
      BY <3>1, <3>2, <3>3, <3>4, <3>5 DEF TokenT, Token
  <2>2. token \in [1 .. Len(token) -> Token]
    BY <1>1, <1>2, <2>1, SeqDef DEF OAuthTyped
  <2> QED
    BY <1>2, <2>2, SeqDef
<1> QED
  BY <1>1, <1>3, <1>4 DEF OAuthTyped, OAuthLog, OAuthTypeOK, TicketT, GrantT, OAuthBounds, Bounded

(* The rows of the OAuth server stay what the schema says they are: a token  *)
(* is of a grant there is, from one stored before it, and as of no later    *)
(* than now.                                                               *)
THEOREM OAuthTypes == ASSUME OAuthBounds PROVE OAuthSpec => []OAuthTypeOK
<1>1. OAuthInit => OAuthLog
  BY DEF OAuthInit, OAuthLog, OAuthBounds, Bounded, Idle
<1>2. OAuthInv /\ OAuthLog /\ [OAuthNext]_oauthVars => OAuthLog'
  BY OAuthLogNext
<1>3. OAuthInv /\ OAuthLog => OAuthTypeOK
  BY OAuthLogTypes
<1>4. OAuthSpec => []OAuthInv
  BY Invariant DEF OAuthBounds
<1> QED
  BY <1>1, <1>2, <1>3, <1>4, PTL DEF OAuthSpec

-----------------------------------------------------------------------------
(***************************************************************************)
(* KeyedBooking.  The record, once it tells something, tells of what was    *)
(* booked, or a call is about to set it right.                             *)
(***************************************************************************)
(* "none" is no time that can be asked for. *)
BookNamesApart == None \notin BookTimes

BookPoints == {"idle", "claimed", "look", "book", "refused", "failed", "store", "finish"}
BookCallT == [pc : BookPoints, for : BookTimes \cup {None}, id : Nat,
         seen : {None, "open", "booked", "refused", "reused"}, late : BOOLEAN]

BookRunning(c) == bookCall[c].pc # "idle"

(* Types, and what is known of a running call: it wants a time, no other     *)
(* than its record's unless the key was used for another; a call that began *)
(* after the booking finds it; one about to finish found it.               *)
Known(c) ==
    BookRunning(c) =>
        /\ bookCall[c].for \in BookTimes /\ bookCall[c].id # 0
        /\ bookCall[c].late => underKey = bookCall[c].for
        /\ bookCall[c].pc = "store" => ~ bookCall[c].late
        /\ bookCall[c].pc = "finish" => underKey = bookCall[c].for

BookTyped ==
    /\ bookRecord.id \in Nat /\ bookRecord.status \in {None, "open", "booked", "refused"}
    /\ bookRecord \in [id : Nat, for : BookTimes \cup {None}, status : {None, "open", "booked", "refused"}]
    /\ underKey \in BookTimes \cup {None}
    /\ bookCall \in [BookCalls -> BookCallT]
    /\ bookUsed \in [calls : Nat, sweeps : Nat, others : Nat]
    /\ bookCut \in BOOLEAN

(* Nothing cut off: running calls share the record there is, and its time.  *)
Shared(c) ==
    BookRunning(c) =>
        /\ bookCall[c].id = bookRecord.id
        /\ bookCall[c].pc # "claimed" \/ ~ FromRecord(c) => bookCall[c].for = bookRecord.for

Finishing == \E c \in BookCalls : bookCall[c].pc = "finish"

(* A booking the record does not tell of has a call about to tell it, once a *)
(* refusal was, or is about to be, stored.                                 *)
Told ==
    /\ bookRecord.status = "booked" => underKey = bookRecord.for
    /\ underKey = bookRecord.for /\ bookRecord.for # None => 
          /\ bookRecord.status = "refused" => Finishing
          /\ (\E c \in BookCalls : bookCall[c].pc = "store") => bookRecord.status = "booked" \/ Finishing
    /\ bookRecord.status = "refused" => bookRecord.for # None

(* A record there is has an id.                                            *)
Numbered == bookRecord = NoRecord \/ bookRecord.id # 0

BookInv ==
    /\ BookTyped /\ Numbered /\ NoFalseRefusal
    /\ \A c \in BookCalls : Known(c)
    /\ ~ bookCut => Told /\ \A c \in BookCalls : Shared(c)

-----------------------------------------------------------------------------
(* Nothing runs and nothing is recorded at the start.                      *)
LEMMA BookInitIInv == BookInit => BookInv
<1> SUFFICES ASSUME BookInit PROVE BookInv
  OBVIOUS
<1>1. /\ bookRecord = NoRecord /\ underKey = None /\ bookAnswered = {} /\ bookCut = FALSE
      /\ bookCall = [c \in BookCalls |-> BookIdle]
      /\ bookUsed = [calls |-> 0, sweeps |-> 0, others |-> 0]
  BY DEF BookInit
<1>2. BookIdle \in BookCallT
  BY DEF BookIdle, BookCallT, BookPoints, None
<1>3. BookTyped
  BY <1>1, <1>2 DEF BookTyped, NoRecord, None
<1>4. \A c \in BookCalls : ~ BookRunning(c)
  BY <1>1 DEF BookRunning, BookIdle
<1>5. Told
  BY <1>1 DEF Told, NoRecord, None
<1>6. NoFalseRefusal
  BY <1>1 DEF NoFalseRefusal
<1>7. Numbered
  BY <1>1 DEF Numbered
<1> QED BY <1>3, <1>4, <1>5, <1>6, <1>7 DEF BookInv, Known, Shared

(* What a call of its own may do to the invariant: it moves on with what it *)
(* wants, or ends, and leaves the record and the booking as they are.      *)
LEMMA CallMoves ==
  ASSUME BookNamesApart, BookInv, NEW c \in BookCalls, NEW q \in BookCallT,
         bookCall' = [bookCall EXCEPT ![c] = q],
         bookRecord' = bookRecord, underKey' = underKey, bookCut' = bookCut, bookUsed' = bookUsed,
         NoFalseRefusal',
         bookCall[c].pc \notin {"idle", "finish"}, q.pc # "claimed",
         q.pc # "idle" => /\ q.for = bookCall[c].for /\ q.id = bookCall[c].id
                          /\ q.late = bookCall[c].late
                          /\ bookCall[c].pc = "claimed" => ~ FromRecord(c),
         q.pc = "store" => underKey = None,
         q.pc = "finish" => underKey = q.for
  PROVE  BookInv'
<1>1. BookTyped' /\ Numbered'
  BY DEF BookInv, BookTyped, Numbered
<1>2. \A d \in BookCalls : bookCall'[d] = IF d = c THEN q ELSE bookCall[d]
  BY DEF BookInv, BookTyped
<1>3. ASSUME NEW d \in BookCalls PROVE Known(d)'
  <2>1. Known(c) /\ Known(d)
    BY <1>3 DEF BookInv
  <2>2. CASE d # c
    BY <1>2, <2>1, <2>2 DEF Known, BookRunning
  <2>3. CASE d = c
    <3>1. bookCall[c].for \in BookTimes => bookCall[c].for # None
      BY DEF BookNamesApart
    <3>2. q.late \in BOOLEAN
      BY DEF BookCallT
    <3> QED BY <1>2, <2>1, <2>3, <3>1, <3>2 DEF Known, BookRunning
  <2> QED BY <2>2, <2>3
<1>4. ASSUME ~ bookCut', NEW d \in BookCalls PROVE Shared(d)'
  <2>1. Shared(c) /\ Shared(d)
    BY <1>4 DEF BookInv
  <2>2. CASE d # c
    BY <1>2, <2>1, <2>2 DEF Shared, BookRunning, FromRecord
  <2>3. CASE d = c
    BY <1>2, <2>1, <2>3 DEF Shared, BookRunning, FromRecord
  <2> QED BY <2>2, <2>3
<1>5. ASSUME ~ bookCut' PROVE Told'
  <2>1. Told
    BY <1>5 DEF BookInv
  <2>2. Finishing => Finishing'
    <3> SUFFICES ASSUME NEW d \in BookCalls, bookCall[d].pc = "finish" PROVE Finishing'
      BY DEF Finishing
    <3>1. d # c /\ bookCall'[d] = bookCall[d]
      BY <1>2
    <3> QED BY <3>1 DEF Finishing
  <2>3. ASSUME underKey = bookRecord.for, bookRecord.for # None, NEW d \in BookCalls, bookCall'[d].pc = "store"
        PROVE  \E e \in BookCalls : bookCall[e].pc = "store"
    BY <1>2, <2>3
  <2> QED BY <2>1, <2>2, <2>3 DEF Told
<1> QED BY <1>1, <1>3, <1>4, <1>5 DEF BookInv

(* A call's answer, when it is not a refusal told to a late one.           *)
LEMMA AnswerStands ==
  ASSUME BookInv, NEW c \in BookCalls, NEW what,
         bookAnswered' = bookAnswered \cup {[for |-> bookCall[c].for, what |-> what, late |-> bookCall[c].late]},
         what = "refused" => ~ bookCall[c].late
  PROVE  NoFalseRefusal'
  BY DEF BookInv, NoFalseRefusal

LEMMA BookIdleIsACall == BookIdle \in BookCallT /\ BookIdle.pc = "idle"
  BY DEF BookIdle, BookCallT, BookPoints, None

(* A call that answers, and leaves the rest alone.                         *)
LEMMA AnswersIInv ==
  ASSUME BookNamesApart, BookInv, NEW c \in BookCalls, NEW what, Answers(c, what),
         bookRecord' = bookRecord, underKey' = underKey, bookCut' = bookCut, bookUsed' = bookUsed,
         bookCall[c].pc \notin {"idle", "finish"},
         what = "refused" => ~ bookCall[c].late
  PROVE  BookInv'
<1>1. bookCall' = [bookCall EXCEPT ![c] = BookIdle]
  BY DEF Answers
<1>2. NoFalseRefusal'
  BY AnswerStands DEF Answers
<1> QED BY <1>1, <1>2, BookIdleIsACall, CallMoves

(* A call that goes on to its next point.                                  *)
LEMMA BookToIInv ==
  ASSUME BookNamesApart, BookInv, NEW c \in BookCalls, NEW pc \in BookPoints, BookTo(c, pc),
         bookAnswered' = bookAnswered, bookRecord' = bookRecord, underKey' = underKey, bookCut' = bookCut, bookUsed' = bookUsed,
         bookCall[c].pc \notin {"idle", "finish"}, pc \notin {"idle", "claimed"},
         bookCall[c].pc = "claimed" => ~ FromRecord(c),
         pc = "store" => underKey = None,
         pc = "finish" => underKey = bookCall[c].for
  PROVE  BookInv'
<1> DEFINE q == [bookCall[c] EXCEPT !.pc = pc]
<1>1. bookCall[c] \in BookCallT
  BY DEF BookInv, BookTyped
<1>2. q \in BookCallT /\ q.pc = pc /\ q.for = bookCall[c].for /\ q.id = bookCall[c].id /\ q.late = bookCall[c].late
  BY <1>1 DEF BookCallT
<1>3. bookCall' = [bookCall EXCEPT ![c] = q]
  BY DEF BookTo
<1>4. NoFalseRefusal'
  BY DEF BookInv, NoFalseRefusal
<1> HIDE DEF q
<1> QED BY <1>2, <1>3, <1>4, CallMoves

-----------------------------------------------------------------------------
(* The steps, one by one.                                                  *)
LEMMA BookClaimIInv ==
  ASSUME BookNamesApart, BookInv, NEW c \in BookCalls, NEW r \in BookTimes, BookClaim(c, r)
  PROVE  BookInv'
<1> DEFINE row == IF bookRecord = NoRecord
                  THEN [id |-> bookUsed.calls + 1, for |-> r, status |-> "open"] ELSE bookRecord
<1> DEFINE q == [pc |-> "claimed", for |-> r, id |-> row.id,
                 seen |-> IF row.for = r THEN row.status ELSE "reused", late |-> underKey = r]
<1>1. /\ bookRecord' = row /\ bookCall' = [bookCall EXCEPT ![c] = q]
      /\ underKey' = underKey /\ bookAnswered' = bookAnswered /\ bookCut' = bookCut
      /\ bookUsed' = [bookUsed EXCEPT !.calls = @ + 1] /\ bookCall[c].pc = "idle"
  BY DEF BookClaim
<1>2. row \in [id : Nat, for : BookTimes \cup {None}, status : {None, "open", "booked", "refused"}]
  BY DEF BookInv, BookTyped
<1>3. q \in BookCallT
  BY <1>2 DEF BookCallT, BookPoints
<1>4. BookTyped'
  BY <1>1, <1>2, <1>3 DEF BookInv, BookTyped
<1>5. \A d \in BookCalls : bookCall'[d] = IF d = c THEN q ELSE bookCall[d]
  BY <1>1 DEF BookInv, BookTyped
<1>6. NoFalseRefusal'
  BY <1>1 DEF BookInv, NoFalseRefusal
<1>7. row.id # 0 /\ Numbered'
  BY <1>1 DEF BookInv, BookTyped, NoRecord, Numbered
<1>8. ASSUME NEW d \in BookCalls PROVE Known(d)'
  <2>1. CASE d # c
    BY <1>1, <1>5, <1>8, <2>1 DEF BookInv, Known, BookRunning
  <2>2. CASE d = c
    <3>1. /\ bookCall'[d].for = r /\ bookCall'[d].id = row.id /\ bookCall'[d].pc = "claimed"
          /\ bookCall'[d].late = (underKey = r)
      BY <1>5, <2>2
    <3> QED BY <1>1, <1>7, <3>1 DEF Known
  <2> QED BY <2>1, <2>2
<1>9. CASE bookCut
  BY <1>1, <1>4, <1>6, <1>7, <1>8, <1>9 DEF BookInv
<1>10. CASE ~ bookCut /\ bookRecord = NoRecord
  <2>1. \A d \in BookCalls : ~ BookRunning(d)
    BY <1>10 DEF BookInv, Shared, Known, NoRecord
  <2>2. row = [id |-> bookUsed.calls + 1, for |-> r, status |-> "open"]
    BY <1>10
  <2>3. /\ row.status = "open" /\ row.for = r /\ q.pc = "claimed" /\ q.id = row.id /\ q.for = r
    BY <2>2
  <2>4. ASSUME NEW d \in BookCalls PROVE Shared(d)'
    BY <1>1, <1>5, <2>1, <2>3, <2>4 DEF Shared, BookRunning
  <2>5. \A d \in BookCalls : bookCall'[d].pc # "store"
    BY <1>5, <2>1, <2>3 DEF BookRunning
  <2>6. Told'
    BY <1>1, <2>3, <2>5 DEF Told
  <2> QED BY <1>1, <1>4, <1>6, <1>7, <1>8, <2>4, <2>6 DEF BookInv
<1>11. CASE ~ bookCut /\ bookRecord # NoRecord
  <2>1. row = bookRecord
    BY <1>11
  <2>2. q.seen = IF bookRecord.for = r THEN bookRecord.status ELSE "reused"
    BY <2>1
  <2>3. ASSUME NEW d \in BookCalls PROVE Shared(d)'
    <3>1. CASE d # c
      BY <1>1, <1>5, <1>11, <2>1, <2>3, <3>1 DEF BookInv, Shared, BookRunning, FromRecord
    <3>2. CASE d = c
      <4>1. /\ bookCall'[d].for = r /\ bookCall'[d].id = bookRecord.id /\ bookCall'[d].pc = "claimed"
            /\ bookCall'[d].seen = IF bookRecord.for = r THEN bookRecord.status ELSE "reused"
        BY <1>5, <2>1, <3>2
      <4> QED BY <1>1, <2>1, <4>1 DEF Shared, FromRecord
    <3> QED BY <3>1, <3>2
  <2>4. Finishing => Finishing'
    BY <1>1, <1>5 DEF Finishing
  <2>5. ASSUME NEW d \in BookCalls, bookCall'[d].pc = "store"
        PROVE  \E e \in BookCalls : bookCall[e].pc = "store"
    BY <1>5, <2>5
  <2>6. Told'
    BY <1>1, <1>11, <2>1, <2>4, <2>5 DEF BookInv, Told
  <2> QED BY <1>1, <1>4, <1>6, <1>7, <1>8, <2>3, <2>6 DEF BookInv
<1> QED BY <1>9, <1>10, <1>11

LEMMA ReplayIInv ==
  ASSUME BookNamesApart, BookInv, NEW c \in BookCalls, Replay(c)
  PROVE  BookInv'
<1>1. /\ bookRecord' = bookRecord /\ underKey' = underKey /\ bookCut' = bookCut /\ bookUsed' = bookUsed
      /\ bookCall[c].pc = "claimed"
  BY DEF Replay
<1>2. CASE FromRecord(c)
  <2>1. Answers(c, bookCall[c].seen) /\ bookCall[c].seen # "refused"
    BY <1>2 DEF Replay, FromRecord
  <2> QED BY <1>1, <2>1, AnswersIInv
<1>3. CASE ~ FromRecord(c)
  <2>1. BookTo(c, "look") /\ bookAnswered' = bookAnswered /\ "look" \in BookPoints
    BY <1>3 DEF Replay, BookPoints
  <2> QED BY <1>1, <1>3, <2>1, BookToIInv
<1> QED BY <1>2, <1>3

LEMMA LookIInv ==
  ASSUME BookNamesApart, BookInv, NEW c \in BookCalls, BookLook(c)
  PROVE  BookInv'
<1>1. /\ bookRecord' = bookRecord /\ underKey' = underKey /\ bookCut' = bookCut /\ bookUsed' = bookUsed
      /\ bookCall[c].pc = "look"
  BY DEF BookLook
<1>2. Known(c) /\ BookRunning(c)
  BY <1>1 DEF BookInv, BookRunning
<1>3. CASE underKey = bookCall[c].for
  <2>1. BookTo(c, "finish") /\ bookAnswered' = bookAnswered /\ "finish" \in BookPoints
    BY <1>3 DEF BookLook, BookPoints
  <2> QED BY <1>1, <1>3, <2>1, BookToIInv
<1>4. CASE underKey # bookCall[c].for /\ underKey # None
  <2>1. Answers(c, "reused")
    BY <1>4 DEF BookLook
  <2> QED BY <1>1, <2>1, AnswersIInv
<1>5. CASE underKey # bookCall[c].for /\ underKey = None /\ bookCall[c].seen = "refused"
  <2>1. Answers(c, "refused") /\ ~ bookCall[c].late
    BY <1>2, <1>5 DEF BookLook, Known
  <2> QED BY <1>1, <2>1, AnswersIInv
<1>6. CASE underKey # bookCall[c].for /\ underKey = None /\ bookCall[c].seen # "refused"
  <2>1. BookTo(c, "book") /\ bookAnswered' = bookAnswered /\ "book" \in BookPoints
    BY <1>6 DEF BookLook, BookPoints
  <2> QED BY <1>1, <2>1, BookToIInv
<1> QED BY <1>3, <1>4, <1>5, <1>6

LEMMA LookAgainIInv ==
  ASSUME BookNamesApart, BookInv, NEW c \in BookCalls, LookAgain(c)
  PROVE  BookInv'
<1>1. /\ bookRecord' = bookRecord /\ underKey' = underKey /\ bookCut' = bookCut /\ bookUsed' = bookUsed
      /\ bookCall[c].pc \in {"refused", "failed"}
  BY DEF LookAgain
<1>2. CASE underKey = bookCall[c].for
  <2>1. BookTo(c, "finish") /\ bookAnswered' = bookAnswered /\ "finish" \in BookPoints
    BY <1>2 DEF LookAgain, BookPoints
  <2> QED BY <1>1, <1>2, <2>1, BookToIInv
<1>3. CASE underKey # bookCall[c].for /\ underKey # None
  <2>1. Answers(c, "reused")
    BY <1>3 DEF LookAgain
  <2> QED BY <1>1, <2>1, AnswersIInv
<1>4. CASE underKey # bookCall[c].for /\ underKey = None /\ bookCall[c].pc = "failed"
  <2>1. Answers(c, "error")
    BY <1>4 DEF LookAgain
  <2> QED BY <1>1, <2>1, AnswersIInv
<1>5. CASE underKey # bookCall[c].for /\ underKey = None /\ bookCall[c].pc # "failed"
  <2>1. BookTo(c, "store") /\ bookAnswered' = bookAnswered /\ "store" \in BookPoints
    BY <1>5 DEF LookAgain, BookPoints
  <2> QED BY <1>1, <1>5, <2>1, BookToIInv
<1> QED BY <1>2, <1>3, <1>4, <1>5

(* Booking is the step that could make a refusal false: no call had begun   *)
(* late, for there was no booking, and this one is about to tell the record. *)
LEMMA BooksIInv ==
  ASSUME BookNamesApart, BookInv, NEW c \in BookCalls, bookCall[c].pc = "book", underKey = None,
         underKey' = bookCall[c].for, BookTo(c, "finish"),
         bookAnswered' = bookAnswered, bookRecord' = bookRecord, bookCut' = bookCut, bookUsed' = bookUsed
  PROVE  BookInv'
<1> DEFINE q == [bookCall[c] EXCEPT !.pc = "finish"]
<1>1. bookCall[c] \in BookCallT /\ Known(c) /\ bookCall[c].for \in BookTimes
  BY DEF BookInv, BookTyped, Known, BookRunning
<1>2. q \in BookCallT /\ q.pc = "finish" /\ q.for = bookCall[c].for /\ q.id = bookCall[c].id /\ q.late = bookCall[c].late
  BY <1>1 DEF BookCallT, BookPoints
<1>3. bookCall' = [bookCall EXCEPT ![c] = q]
  BY DEF BookTo
<1> HIDE DEF q
<1>4. \A d \in BookCalls : bookCall'[d] = IF d = c THEN q ELSE bookCall[d]
  BY <1>3 DEF BookInv, BookTyped
<1>5. BookTyped' /\ Numbered'
  BY <1>1, <1>2, <1>3 DEF BookInv, BookTyped, Numbered
<1>6. NoFalseRefusal'
  BY DEF BookInv, NoFalseRefusal
<1>7. ASSUME NEW d \in BookCalls, BookRunning(d)
      PROVE  /\ Known(d) /\ bookCall[d].for \in BookTimes /\ bookCall[d].late = FALSE
             /\ bookCall[d].pc # "finish"
  <2>1. Known(d) /\ bookCall[d].for \in BookTimes /\ bookCall[d].late \in BOOLEAN
    BY <1>7 DEF BookInv, Known, BookTyped, BookCallT
  <2>2. bookCall[d].for # None
    BY <2>1 DEF BookNamesApart
  <2> QED BY <1>7, <2>1, <2>2 DEF Known
<1>8. BookRunning(c)
  BY DEF BookRunning
<1>9. ASSUME NEW d \in BookCalls PROVE Known(d)'
  <2>1. CASE d # c
    <3>1. bookCall'[d] = bookCall[d]
      BY <1>4, <2>1
    <3>2. BookRunning(d)' => BookRunning(d)
      BY <3>1 DEF BookRunning
    <3> QED BY <1>7, <1>9, <3>1, <3>2 DEF Known, BookRunning
  <2>2. CASE d = c
    <3>1. bookCall'[d] = q
      BY <1>4, <2>2
    <3> QED BY <1>1, <1>2, <1>7, <1>8, <3>1 DEF Known, BookRunning
  <2> QED BY <2>1, <2>2
<1>10. ASSUME ~ bookCut', NEW d \in BookCalls PROVE Shared(d)'
  <2>1. Shared(c) /\ Shared(d)
    BY <1>10 DEF BookInv
  <2>2. CASE d # c
    BY <1>4, <2>1, <2>2 DEF Shared, BookRunning, FromRecord
  <2>3. CASE d = c
    BY <1>2, <1>4, <1>8, <2>1, <2>3 DEF Shared, BookRunning, FromRecord
  <2> QED BY <2>2, <2>3
<1>11. ASSUME ~ bookCut' PROVE Told'
  <2>1. Told /\ Shared(c)
    BY <1>11 DEF BookInv
  <2>2. bookCall[c].for = bookRecord.for
    BY <1>8, <2>1 DEF Shared
  <2>3. Finishing'
    BY <1>2, <1>4 DEF Finishing
  <2> QED BY <2>1, <2>2, <2>3 DEF Told
<1> QED BY <1>5, <1>6, <1>9, <1>10, <1>11 DEF BookInv

LEMMA BookIInv ==
  ASSUME BookNamesApart, BookInv, NEW c \in BookCalls, Book(c)
  PROVE  BookInv'
<1>1. /\ bookRecord' = bookRecord /\ bookCut' = bookCut /\ bookUsed' = bookUsed /\ bookCall[c].pc = "book"
  BY DEF Book
<1>2. CASE BookTo(c, "finish") /\ underKey = bookCall[c].for /\ underKey' = underKey /\ bookAnswered' = bookAnswered
  <2>1. "finish" \in BookPoints
    BY DEF BookPoints
  <2> QED BY <1>1, <1>2, <2>1, BookToIInv
<1>3. CASE underKey = None /\ underKey' = bookCall[c].for /\ BookTo(c, "finish") /\ bookAnswered' = bookAnswered
  BY <1>1, <1>3, BooksIInv
<1>4. CASE BookTo(c, "refused") /\ underKey' = underKey /\ bookAnswered' = bookAnswered
  <2>1. "refused" \in BookPoints
    BY DEF BookPoints
  <2> QED BY <1>1, <1>4, <2>1, BookToIInv
<1>5. CASE BookTo(c, "failed") /\ underKey' = underKey /\ bookAnswered' = bookAnswered
  <2>1. "failed" \in BookPoints
    BY DEF BookPoints
  <2> QED BY <1>1, <1>5, <2>1, BookToIInv
<1>6. CASE Answers(c, "error") /\ underKey' = underKey
  BY <1>1, <1>6, AnswersIInv
<1> QED BY <1>2, <1>3, <1>4, <1>5, <1>6 DEF Book

(* A refusal is stored on an open record: if a booking was made meanwhile,  *)
(* the call that made it has yet to finish.                                *)
LEMMA StoreRefusalIInv ==
  ASSUME BookNamesApart, BookInv, NEW c \in BookCalls, StoreRefusal(c)
  PROVE  BookInv'
<1>1. /\ bookRecord' = IF OnlyOpen(c) THEN [bookRecord EXCEPT !.status = "refused"] ELSE bookRecord
      /\ Answers(c, "refused") /\ bookCall[c].pc = "store"
      /\ underKey' = underKey /\ bookCut' = bookCut /\ bookUsed' = bookUsed
  BY DEF StoreRefusal
<1>2. ~ bookCall[c].late /\ BookRunning(c)
  BY <1>1 DEF BookInv, Known, BookRunning
<1>3. NoFalseRefusal'
  BY <1>1, <1>2, AnswerStands DEF Answers
<1>4. bookCall' = [bookCall EXCEPT ![c] = BookIdle]
  BY <1>1 DEF Answers
<1>5. \A d \in BookCalls : bookCall'[d] = IF d = c THEN BookIdle ELSE bookCall[d]
  BY <1>4 DEF BookInv, BookTyped
<1>6. bookRecord.id = bookRecord'.id /\ bookRecord.for = bookRecord'.for
      /\ bookRecord' \in [id : Nat, for : BookTimes \cup {None}, status : {None, "open", "booked", "refused"}]
  BY <1>1 DEF BookInv, BookTyped
<1>7. BookTyped' /\ Numbered'
  <2>1. BookTyped'
    BY <1>1, <1>4, <1>6, BookIdleIsACall DEF BookInv, BookTyped
  <2>2. CASE OnlyOpen(c)
    BY <1>2, <1>6, <2>1, <2>2 DEF BookInv, Known, Numbered, OnlyOpen
  <2>3. CASE ~ OnlyOpen(c)
    BY <1>1, <2>1, <2>3 DEF BookInv, Numbered
  <2> QED BY <2>1, <2>2, <2>3
<1>8. ASSUME NEW d \in BookCalls PROVE Known(d)'
  BY <1>1, <1>5, <1>8, BookIdleIsACall DEF BookInv, Known, BookRunning
<1>9. ASSUME ~ bookCut', NEW d \in BookCalls PROVE Shared(d)'
  <2>1. Shared(d)
    BY <1>1, <1>9 DEF BookInv
  <2>2. CASE d = c
    BY <1>5, <2>2, BookIdleIsACall DEF Shared, BookRunning
  <2>3. CASE d # c
    <3>1. bookCall'[d] = bookCall[d]
      BY <1>5, <2>3
    <3> QED BY <1>6, <2>1, <3>1 DEF Shared, BookRunning, FromRecord
  <2> QED BY <2>2, <2>3
<1>10. ASSUME ~ bookCut' PROVE Told'
  <2>1. Told /\ Shared(c)
    BY <1>1, <1>10 DEF BookInv
  <2>2. bookCall[c].for = bookRecord.for /\ bookCall[c].for \in BookTimes
    BY <1>1, <1>2, <2>1 DEF Shared, BookInv, Known
  <2>3. bookRecord.for # None
    BY <2>2 DEF BookNamesApart
  <2>4. Finishing => Finishing'
    <3> SUFFICES ASSUME NEW d \in BookCalls, bookCall[d].pc = "finish" PROVE Finishing'
      BY DEF Finishing
    <3>1. d # c /\ bookCall'[d] = bookCall[d]
      BY <1>1, <1>5
    <3> QED BY <3>1 DEF Finishing
  <2>5. underKey = bookRecord.for => bookRecord.status = "booked" \/ Finishing'
    BY <1>1, <2>1, <2>3, <2>4 DEF Told
  <2>6. bookRecord.status = "booked" => bookRecord' = bookRecord
    BY <1>1 DEF OnlyOpen
  <2>7. bookRecord'.status = "booked" => bookRecord.status = "booked"
    BY <1>1 DEF BookInv, BookTyped
  <2>8. underKey = bookRecord.for => bookRecord'.status = "booked" \/ Finishing'
    BY <2>5, <2>6
  <2>9. bookRecord'.status = "booked" => underKey = bookRecord.for
    BY <2>1, <2>7 DEF Told
  <2>10. underKey' = underKey
    BY <1>1
  <2> QED BY <1>6, <2>3, <2>8, <2>9, <2>10 DEF Told
<1> QED BY <1>3, <1>7, <1>8, <1>9, <1>10 DEF BookInv

(* A success takes the place of a refusal.                                 *)
LEMMA FinishIInv ==
  ASSUME BookNamesApart, BookInv, NEW c \in BookCalls, Finish(c)
  PROVE  BookInv'
<1>1. /\ bookRecord' = IF Replaceable(c) THEN [bookRecord EXCEPT !.status = "booked"] ELSE bookRecord
      /\ Answers(c, "booked") /\ bookCall[c].pc = "finish"
      /\ underKey' = underKey /\ bookCut' = bookCut /\ bookUsed' = bookUsed
  BY DEF Finish
<1>2. BookRunning(c)
  BY <1>1 DEF BookRunning
<1>3. NoFalseRefusal'
  BY <1>1, AnswerStands DEF Answers
<1>4. bookCall' = [bookCall EXCEPT ![c] = BookIdle]
  BY <1>1 DEF Answers
<1>5. \A d \in BookCalls : bookCall'[d] = IF d = c THEN BookIdle ELSE bookCall[d]
  BY <1>4 DEF BookInv, BookTyped
<1>6. bookRecord.id = bookRecord'.id /\ bookRecord.for = bookRecord'.for
      /\ bookRecord' \in [id : Nat, for : BookTimes \cup {None}, status : {None, "open", "booked", "refused"}]
  BY <1>1 DEF BookInv, BookTyped
<1>7. BookTyped' /\ Numbered'
  <2>1. BookTyped'
    BY <1>1, <1>4, <1>6, BookIdleIsACall DEF BookInv, BookTyped
  <2>2. CASE Replaceable(c)
    BY <1>2, <1>6, <2>1, <2>2 DEF BookInv, Known, Numbered, Replaceable
  <2>3. CASE ~ Replaceable(c)
    BY <1>1, <2>1, <2>3 DEF BookInv, Numbered
  <2> QED BY <2>1, <2>2, <2>3
<1>8. ASSUME NEW d \in BookCalls PROVE Known(d)'
  BY <1>1, <1>5, <1>8, BookIdleIsACall DEF BookInv, Known, BookRunning
<1>9. ASSUME ~ bookCut', NEW d \in BookCalls PROVE Shared(d)'
  <2>1. Shared(d)
    BY <1>1, <1>9 DEF BookInv
  <2>2. CASE d = c
    BY <1>5, <2>2, BookIdleIsACall DEF Shared, BookRunning
  <2>3. CASE d # c
    <3>1. bookCall'[d] = bookCall[d]
      BY <1>5, <2>3
    <3> QED BY <1>6, <2>1, <3>1 DEF Shared, BookRunning, FromRecord
  <2> QED BY <2>2, <2>3
<1>10. ASSUME ~ bookCut' PROVE Told'
  <2>1. Told /\ Shared(c) /\ Known(c)
    BY <1>1, <1>10 DEF BookInv
  <2>2. bookCall[c].for = bookRecord.for /\ bookCall[c].id = bookRecord.id /\ underKey = bookCall[c].for
    BY <1>1, <1>2, <2>1 DEF Shared, Known
  <2>3. bookRecord'.status = "booked"
    BY <1>1, <2>2 DEF Replaceable, BookInv, BookTyped
  <2>4. underKey' = bookRecord'.for
    BY <1>1, <1>6, <2>2
  <2> QED BY <2>3, <2>4 DEF Told
<1> QED BY <1>3, <1>7, <1>8, <1>9, <1>10 DEF BookInv

LEMMA BookDiesIInv ==
  ASSUME BookNamesApart, BookInv, NEW c \in BookCalls, BookDies(c)
  PROVE  BookInv'
<1>1. /\ bookCall' = [bookCall EXCEPT ![c] = BookIdle] /\ bookCut' = TRUE
      /\ bookRecord' = bookRecord /\ underKey' = underKey /\ bookAnswered' = bookAnswered /\ bookUsed' = bookUsed
  BY DEF BookDies
<1>2. \A d \in BookCalls : bookCall'[d] = IF d = c THEN BookIdle ELSE bookCall[d]
  BY <1>1 DEF BookInv, BookTyped
<1>3. BookTyped' /\ Numbered'
  BY <1>1, BookIdleIsACall DEF BookInv, BookTyped, Numbered
<1>4. NoFalseRefusal'
  BY <1>1 DEF BookInv, NoFalseRefusal
<1>5. ASSUME NEW d \in BookCalls PROVE Known(d)'
  BY <1>1, <1>2, <1>5, BookIdleIsACall DEF BookInv, Known, BookRunning
<1> QED BY <1>1, <1>3, <1>4, <1>5 DEF BookInv

LEMMA SweepIInv ==
  ASSUME BookNamesApart, BookInv, Sweep
  PROVE  BookInv'
<1>1. /\ bookRecord' = NoRecord /\ bookUsed' = [bookUsed EXCEPT !.sweeps = @ + 1]
      /\ bookCut' = (bookCut \/ \E c \in BookCalls : bookCall[c].pc # "idle")
      /\ underKey' = underKey /\ bookCall' = bookCall /\ bookAnswered' = bookAnswered
  BY DEF Sweep
<1>2. BookTyped' /\ Numbered'
  BY <1>1 DEF BookInv, BookTyped, Numbered, NoRecord, None
<1>3. NoFalseRefusal'
  BY <1>1 DEF BookInv, NoFalseRefusal
<1>4. ASSUME NEW d \in BookCalls PROVE Known(d)'
  BY <1>1, <1>4 DEF BookInv, Known, BookRunning
<1>5. ~ bookCut' => \A d \in BookCalls : ~ BookRunning(d)'
  BY <1>1 DEF BookRunning
<1>6. Told'
  BY <1>1 DEF Told, NoRecord, None
<1> QED BY <1>2, <1>3, <1>4, <1>5, <1>6 DEF BookInv, Shared

LEMMA OtherIInv ==
  ASSUME BookNamesApart, BookInv, NEW r \in BookTimes, OtherBooking(r)
  PROVE  BookInv'
<1>1. /\ bookRecord' = bookRecord /\ bookUsed' = [bookUsed EXCEPT !.others = @ + 1] /\ bookCut' = bookCut
      /\ underKey' = underKey /\ bookCall' = bookCall /\ bookAnswered' = bookAnswered
  BY DEF OtherBooking
<1>2. BookTyped' /\ Numbered'
  BY <1>1 DEF BookInv, BookTyped, Numbered
<1>3. NoFalseRefusal' /\ (Told <=> Told')
  BY <1>1 DEF BookInv, NoFalseRefusal, Told, Finishing
<1>4. \A d \in BookCalls : (Known(d) <=> Known(d)') /\ (Shared(d) <=> Shared(d)')
  BY <1>1 DEF Known, Shared, BookRunning, FromRecord
<1> QED BY <1>1, <1>2, <1>3, <1>4 DEF BookInv

LEMMA BookNextIInv == ASSUME BookNamesApart, BookInv, [BookNext]_bookVars PROVE BookInv'
<1>1. CASE UNCHANGED bookVars
  <2>1. /\ bookRecord' = bookRecord /\ bookUsed' = bookUsed /\ bookCut' = bookCut
        /\ underKey' = underKey /\ bookCall' = bookCall /\ bookAnswered' = bookAnswered
    BY <1>1 DEF bookVars
  <2>2. BookTyped' /\ Numbered' /\ NoFalseRefusal' /\ (Told <=> Told')
    BY <2>1 DEF BookInv, BookTyped, Numbered, NoFalseRefusal, Told, Finishing
  <2>3. \A d \in BookCalls : (Known(d) <=> Known(d)') /\ (Shared(d) <=> Shared(d)')
    BY <2>1 DEF Known, Shared, BookRunning, FromRecord
  <2> QED BY <2>1, <2>2, <2>3 DEF BookInv
<1>2. ASSUME NEW c \in BookCalls, NEW r \in BookTimes, BookClaim(c, r) PROVE BookInv'
  BY <1>2, BookClaimIInv
<1>3. ASSUME NEW c \in BookCalls, Replay(c) PROVE BookInv'
  BY <1>3, ReplayIInv
<1>4. ASSUME NEW c \in BookCalls, BookLook(c) PROVE BookInv'
  BY <1>4, LookIInv
<1>5. ASSUME NEW c \in BookCalls, Book(c) PROVE BookInv'
  BY <1>5, BookIInv
<1>6. ASSUME NEW c \in BookCalls, LookAgain(c) PROVE BookInv'
  BY <1>6, LookAgainIInv
<1>7. ASSUME NEW c \in BookCalls, StoreRefusal(c) PROVE BookInv'
  BY <1>7, StoreRefusalIInv
<1>8. ASSUME NEW c \in BookCalls, Finish(c) PROVE BookInv'
  BY <1>8, FinishIInv
<1>9. ASSUME NEW c \in BookCalls, BookDies(c) PROVE BookInv'
  BY <1>9, BookDiesIInv
<1>10. CASE Sweep
  BY <1>10, SweepIInv
<1>11. ASSUME NEW r \in BookTimes, OtherBooking(r) PROVE BookInv'
  BY <1>11, OtherIInv
<1> QED BY <1>1, <1>2, <1>3, <1>4, <1>5, <1>6, <1>7, <1>8, <1>9, <1>10, <1>11 DEF BookNext

(* The record cannot lie once all calls have ended whole: a refusal against a *)
(* booking made would have a call about to replace it.                     *)
LEMMA BookInvTells == BookInv => RecordTellsTheTruth
<1> SUFFICES ASSUME BookInv, ~ bookCut, \A c \in BookCalls : bookCall[c].pc = "idle"
             PROVE  /\ bookRecord.status = "refused" => underKey # bookRecord.for
                    /\ bookRecord.status = "booked" => underKey = bookRecord.for
  BY DEF RecordTellsTheTruth
<1>1. Told /\ ~ Finishing
  BY DEF BookInv, Finishing
<1> QED BY <1>1 DEF Told

-----------------------------------------------------------------------------
(* The strengthening holds of every behaviour (book_meeting's claim, look,   *)
(* book and store, at any number of calls).                                *)
THEOREM BookInductive == ASSUME BookNamesApart PROVE BookSpec => []BookInv
<1>1. BookInv /\ [BookNext]_bookVars => BookInv'
  BY BookNextIInv
<1> QED BY <1>1, BookInitIInv, PTL DEF BookSpec

(* A call that began with the booking made is never told that the time is    *)
(* refused (NoFalseRefusal), for any calls, times, deaths and sweeps.      *)
THEOREM NeverFalselyRefused == ASSUME BookNamesApart PROVE BookSpec => []NoFalseRefusal
<1>1. BookInv => NoFalseRefusal
  BY DEF BookInv
<1> QED BY <1>1, BookInductive, PTL

(* When the calls at one key have all ended, and none was cut off, the record *)
(* tells what happened (RecordTellsTheTruth), in whatever order they stored it. *)
THEOREM RecordIsTrue == ASSUME BookNamesApart PROVE BookSpec => []RecordTellsTheTruth
  BY BookInductive, BookInvTells, PTL

-----------------------------------------------------------------------------
(* What KeyedBooking's type invariant says besides: ids are counted, and what *)
(* is answered is one of four things.                                      *)
BookBounds == BookNamesApart /\ MaxBookCalls \in Nat

BookSaid == [for : BookTimes, late : BOOLEAN, what : {"booked", "refused", "reused", "error"}]

BookLog ==
    /\ bookUsed.calls <= MaxBookCalls /\ bookRecord.id <= bookUsed.calls
    /\ taken \subseteq BookTimes /\ bookAnswered \subseteq BookSaid

LEMMA BookAnswersSaid ==
    ASSUME BookInv, BookLog, NEW c \in BookCalls, bookCall[c].pc # "idle",
           NEW what \in {"booked", "refused", "reused", "error"}, Answers(c, what)
    PROVE  bookAnswered' \subseteq BookSaid
<1>1. bookCall[c].for \in BookTimes
  BY DEF BookInv, Known, BookRunning
<1>2. bookCall[c].late \in BOOLEAN
  BY DEF BookInv, BookTyped, BookCallT
<1>3. [for |-> bookCall[c].for, what |-> what, late |-> bookCall[c].late] \in BookSaid
  BY <1>1, <1>2 DEF BookSaid
<1> QED
  BY <1>3 DEF Answers, BookLog

LEMMA BookLogNext ==
    ASSUME BookBounds PROVE BookInv /\ BookLog /\ [BookNext]_bookVars => BookLog'
<1> SUFFICES ASSUME BookInv, BookLog, [BookNext]_bookVars PROVE BookLog'
  OBVIOUS
<1>1. /\ bookUsed \in [calls : Nat, sweeps : Nat, others : Nat] /\ bookRecord.id \in Nat
      /\ bookRecord \in [id : Nat, for : BookTimes \cup {None}, status : {None, "open", "booked", "refused"}]
  BY DEF BookInv, BookTyped
<1>2. CASE UNCHANGED bookVars
  BY <1>2 DEF bookVars, BookLog
<1>3. ASSUME NEW c \in BookCalls, NEW r \in BookTimes, BookClaim(c, r) PROVE BookLog'
  <2>1. /\ bookUsed.calls < MaxBookCalls /\ UNCHANGED <<taken, bookAnswered>>
        /\ bookUsed' = [bookUsed EXCEPT !.calls = bookUsed.calls + 1]
        /\ bookRecord' = IF bookRecord = NoRecord
                         THEN [id |-> bookUsed.calls + 1, for |-> r, status |-> "open"] ELSE bookRecord
    BY <1>3 DEF BookClaim
  <2>2. bookUsed'.calls = bookUsed.calls + 1 /\ bookRecord'.id \in {bookRecord.id, bookUsed.calls + 1}
    BY <1>1, <2>1
  <2>3. bookUsed.calls \in Nat /\ MaxBookCalls \in Nat /\ bookRecord.id <= bookUsed.calls
    BY <1>1 DEF BookBounds, BookLog
  <2>4. bookUsed'.calls <= MaxBookCalls /\ bookRecord'.id <= bookUsed'.calls
    BY <1>1, <2>1, <2>2, <2>3
  <2> QED
    BY <2>1, <2>4 DEF BookLog
<1>4. ASSUME NEW c \in BookCalls, Replay(c) \/ BookLook(c) \/ Book(c) \/ LookAgain(c) PROVE BookLog'
  <2>1. UNCHANGED <<bookRecord, taken, bookUsed>> /\ bookCall[c].pc # "idle"
    BY <1>4 DEF Replay, BookLook, Book, LookAgain
  <2>2. \/ UNCHANGED bookAnswered
        \/ \E what \in {"booked", "refused", "reused", "error"} : Answers(c, what)
    BY <1>4 DEF Replay, BookLook, Book, LookAgain, FromRecord
  <2> QED
    BY <2>1, <2>2, BookAnswersSaid DEF BookLog
<1>5. ASSUME NEW c \in BookCalls, StoreRefusal(c) \/ Finish(c) PROVE BookLog'
  <2>1. UNCHANGED <<taken, bookUsed>> /\ bookCall[c].pc # "idle"
    BY <1>5 DEF StoreRefusal, Finish
  <2>2. Answers(c, "refused") \/ Answers(c, "booked")
    BY <1>5 DEF StoreRefusal, Finish
  <2>3. bookRecord'.id = bookRecord.id
    BY <1>1, <1>5 DEF StoreRefusal, Finish
  <2> QED
    BY <2>1, <2>2, <2>3, BookAnswersSaid DEF BookLog
<1>6. ASSUME NEW c \in BookCalls, BookDies(c) PROVE BookLog'
  BY <1>6 DEF BookDies, BookLog
<1>7. CASE Sweep
  <2>1. bookRecord'.id = 0 /\ bookUsed'.calls = bookUsed.calls /\ UNCHANGED <<taken, bookAnswered>>
    BY <1>1, <1>7 DEF Sweep, NoRecord
  <2> QED
    BY <1>1, <2>1 DEF BookLog
<1>8. ASSUME NEW r \in BookTimes, OtherBooking(r) PROVE BookLog'
  <2>1. UNCHANGED <<bookRecord, bookAnswered>> /\ bookUsed'.calls = bookUsed.calls
        /\ taken' \subseteq taken \cup {r}
    BY <1>1, <1>8 DEF OtherBooking
  <2> QED
    BY <2>1 DEF BookLog
<1> QED
  BY <1>2, <1>3, <1>4, <1>5, <1>6, <1>7, <1>8 DEF BookNext

(* The record, the booking under the key and the answers are of the kinds    *)
(* the schema and the tool's contract allow.                               *)
THEOREM BookTypes == ASSUME BookBounds PROVE BookSpec => []BookTypeOK
<1>1. BookInit => BookLog
  BY DEF BookInit, BookLog, BookBounds, NoRecord
<1>2. BookInv /\ BookLog /\ [BookNext]_bookVars => BookLog'
  BY BookLogNext
<1>3. BookInv /\ BookLog => BookTypeOK
  <2> SUFFICES ASSUME BookInv, BookLog PROVE BookTypeOK
    OBVIOUS
  <2>1. /\ bookUsed.calls \in Nat /\ bookRecord.id \in Nat
        /\ bookRecord \in [id : Nat, for : BookTimes \cup {None}, status : {None, "open", "booked", "refused"}]
        /\ underKey \in BookTimes \cup {None} /\ bookCut \in BOOLEAN
    BY DEF BookInv, BookTyped
  <2>2. bookRecord.id \in 0 .. MaxBookCalls
    BY <2>1 DEF BookLog, BookBounds
  <2> QED
    BY <2>1, <2>2 DEF BookLog, BookTypeOK, BookSaid, Record
<1>4. BookSpec => []BookInv
  BY BookInductive DEF BookBounds
<1> QED
  BY <1>1, <1>2, <1>3, <1>4, PTL DEF BookSpec

-----------------------------------------------------------------------------
(***************************************************************************)
(* KeyedHold.  An answer is stored once and for all, under ids no other     *)
(* attempt opens: so the hold stored is the only one ever handed out, and   *)
(* its attempt knows it for its own when it reads it back.                 *)
(***************************************************************************)
HoldPoints == {"idle", "place", "bind", "refused", "drop", "store", "reopen", "storeAgain",
           "readBack", "undo"}
Early == {"place", "bind", "refused", "drop", "store", "reopen"}

RecordT == [id : Nat, for : HoldTimes \cup {HoldNone}, hold : Nat]
HoldT == [Numbers -> [for : HoldTimes \cup {HoldNone}, status : {HoldNone, "live", "lapsed", "back"}]]
HoldCallT == [pc : HoldPoints, n : Nat, for : HoldTimes \cup {HoldNone}, id : Nat, inserted : BOOLEAN,
          mine : SUBSET Nat, gets : Nat]

HoldTyped ==
    /\ holdRecord \in RecordT /\ hold \in HoldT /\ holdCall \in [HoldCalls -> HoldCallT]
    /\ holdUsed.calls \in Nat /\ holdUsed.calls <= MaxHoldCalls /\ holdUsed = [calls |-> holdUsed.calls, faults |-> holdUsed.faults]

HoldRunning(c) == holdCall[c].pc # "idle"

(* An id some record had.                                                  *)
Past(i) == i <= holdUsed.calls \/ (MaxHoldCalls < i /\ i <= MaxHoldCalls + holdUsed.calls)

(* Of a running attempt: its record, if it is the one there is, is for its   *)
(* time; the record it may open again is not there before it does.         *)
Own(c) ==
    HoldRunning(c) =>
        /\ holdCall[c].n # 0 /\ holdCall[c].n <= holdUsed.calls
        /\ holdCall[c].id # 0 /\ Past(holdCall[c].id) /\ holdCall[c].id \in holdCall[c].mine
        /\ holdRecord.id = holdCall[c].id => holdRecord.for = holdCall[c].for
        /\ holdCall[c].pc \in Early =>
              /\ holdRecord.id # AgainId(holdCall[c].n)
              /\ \A d \in HoldCalls : HoldRunning(d) => holdCall[d].id # AgainId(holdCall[c].n)
        /\ holdCall[c].pc = "storeAgain" =>
              /\ AgainId(holdCall[c].n) \in holdCall[c].mine
              /\ holdRecord.id = AgainId(holdCall[c].n) => holdRecord.for = holdCall[c].for

(* Of its hold: stored, it is about to be read back under a record of its    *)
(* own; about to be stored, it was not given back.                         *)
HoldKept(c) ==
    HoldRunning(c) =>
        /\ holdCall[c].pc # "readBack" => holdRecord.hold # holdCall[c].n
        /\ holdRecord.hold = holdCall[c].n => holdRecord.id \in holdCall[c].mine /\ holdRecord.for = holdCall[c].for
        /\ holdCall[c].gets # NoHold => holdCall[c].gets = holdRecord.hold
        /\ holdCall[c].pc \in {"bind", "store", "reopen", "storeAgain"} => hold[holdCall[c].n].status # "back"

CallsApart == \A c, d \in HoldCalls : HoldRunning(c) /\ HoldRunning(d) /\ c # d => holdCall[c].n # holdCall[d].n

(* One hold at most is ever handed out for a key: the one stored.          *)
OneAnswer == \A n \in holdAnswered : n # NoHold /\ n = holdRecord.hold

HoldRecorded ==
    /\ Past(holdRecord.id) /\ (holdRecord.id = 0 => holdRecord = NoHoldRecord)
    /\ holdRecord.hold <= holdUsed.calls
    /\ holdRecord.hold # NoHold => hold[holdRecord.hold].status # "back"

HoldInv ==
    /\ HoldTyped /\ CallsApart /\ OneAnswer /\ HoldRecorded
    /\ \A c \in HoldCalls : Own(c) /\ HoldKept(c)

-----------------------------------------------------------------------------
LEMMA HoldInitIInv == ASSUME MaxHoldCalls \in Nat PROVE HoldInit => HoldInv
<1> SUFFICES ASSUME HoldInit PROVE HoldInv
  OBVIOUS
<1>1. /\ holdRecord = NoHoldRecord /\ holdAnswered = {} /\ holdCall = [c \in HoldCalls |-> HoldIdle]
      /\ hold = [n \in Numbers |-> [for |-> HoldNone, status |-> HoldNone]]
      /\ holdUsed = [calls |-> 0, faults |-> 0]
  BY DEF HoldInit
<1>2. HoldIdle \in HoldCallT /\ HoldIdle.pc = "idle"
  BY DEF HoldIdle, HoldCallT, HoldPoints, NoHold
<1>3. NoHoldRecord \in RecordT /\ NoHoldRecord.hold = 0 /\ NoHoldRecord.id = 0
  BY DEF NoHoldRecord, RecordT, NoHold
<1>4. [n \in Numbers |-> [for |-> HoldNone, status |-> HoldNone]] \in HoldT
  BY DEF HoldT
<1>5. HoldTyped
  BY <1>1, <1>2, <1>3, <1>4 DEF HoldTyped
<1>6. \A c \in HoldCalls : ~ HoldRunning(c)
  BY <1>1, <1>2 DEF HoldRunning
<1>7. HoldRecorded
  BY <1>1, <1>3 DEF HoldRecorded, Past, NoHold
<1> QED BY <1>1, <1>5, <1>6, <1>7 DEF HoldInv, CallsApart, OneAnswer, Own, HoldKept

(* What IInv says of the bounds of the ids.                                *)
LEMMA Ids ==
  ASSUME MaxHoldCalls \in Nat, HoldInv, NEW c \in HoldCalls, HoldRunning(c)
  PROVE  /\ holdCall[c] \in HoldCallT /\ holdCall[c].n \in Numbers /\ holdCall[c].id \in Nat
         /\ holdRecord.id \in Nat /\ holdRecord.hold \in Nat
         /\ AgainId(holdCall[c].n) = MaxHoldCalls + holdCall[c].n /\ Past(AgainId(holdCall[c].n))
         /\ holdCall[c].n # NoHold /\ Own(c) /\ HoldKept(c)
  BY DEF HoldInv, HoldTyped, HoldCallT, RecordT, Own, Numbers, AgainId, Past, NoHold

(* A running attempt moves on, or ends, and leaves the record alone; it may  *)
(* change its own hold, and hand out the hold stored.                      *)
LEMMA SameRecord ==
  ASSUME MaxHoldCalls \in Nat, HoldInv, NEW c \in HoldCalls, NEW q \in HoldCallT, HoldRunning(c),
         holdCall' = [holdCall EXCEPT ![c] = q], holdRecord' = holdRecord,
         holdUsed' = [calls |-> holdUsed'.calls, faults |-> holdUsed'.faults], holdUsed'.calls = holdUsed.calls,
         q.pc # "idle" =>
            /\ q.n = holdCall[c].n /\ q.for = holdCall[c].for /\ q.id = holdCall[c].id /\ q.mine = holdCall[c].mine
            /\ q.pc \in Early => holdCall[c].pc \in Early
            /\ q.pc # "storeAgain"
            /\ q.pc # "readBack" => holdRecord.hold # holdCall[c].n
            /\ q.gets # NoHold => q.gets = holdRecord.hold
            /\ q.pc \in {"bind", "store", "reopen"} => hold'[holdCall[c].n].status # "back",
         hold' \in HoldT,
         \A m \in Numbers : m # holdCall[c].n => hold'[m].status = hold[m].status,
         holdRecord.hold = holdCall[c].n => hold'[holdCall[c].n].status # "back",
         \A h \in holdAnswered' : h \in holdAnswered \/ (h # NoHold /\ h = holdRecord.hold)
  PROVE  HoldInv'
<1>1. \A d \in HoldCalls : holdCall'[d] = IF d = c THEN q ELSE holdCall[d]
  BY DEF HoldInv, HoldTyped
<1>2. HoldTyped'
  BY DEF HoldInv, HoldTyped
<1>3. \A d \in HoldCalls : HoldRunning(d)' => HoldRunning(d) /\ holdCall'[d].n = holdCall[d].n /\ holdCall'[d].id = holdCall[d].id
  BY <1>1 DEF HoldRunning
<1>4. CallsApart'
  BY <1>3 DEF HoldInv, CallsApart
<1>5. OneAnswer'
  BY DEF HoldInv, OneAnswer
<1>6. \A i : Past(i)' <=> Past(i)
  BY DEF Past
<1>7. HoldRecorded'
  <2>1. holdRecord.hold # NoHold => holdRecord.hold \in Numbers
    BY DEF HoldInv, HoldTyped, RecordT, HoldRecorded, Numbers, NoHold
  <2>2. holdRecord.hold # NoHold => hold'[holdRecord.hold].status # "back"
    BY <2>1 DEF HoldInv, HoldRecorded
  <2> QED BY <1>6, <2>2 DEF HoldInv, HoldRecorded
<1>8. ASSUME NEW d \in HoldCalls PROVE Own(d)'
  <2> SUFFICES ASSUME HoldRunning(d)' PROVE Own(d)'
    BY DEF Own
  <2>1. Own(d) /\ HoldRunning(d)
    BY <1>3 DEF HoldInv
  <2>2. AgainId(holdCall[d].n)' = AgainId(holdCall[d].n)
    BY <1>3 DEF AgainId
  <2>3. holdCall'[d].pc \in Early => holdCall[d].pc \in Early
    BY <1>1 DEF HoldRunning
  <2>4. holdCall'[d].for = holdCall[d].for /\ holdCall'[d].mine = holdCall[d].mine
    BY <1>1 DEF HoldRunning
  <2>5. holdCall'[d].pc = "storeAgain" => holdCall[d].pc = "storeAgain"
    BY <1>1 DEF HoldRunning
  <2> QED BY <1>3, <1>6, <2>1, <2>2, <2>3, <2>4, <2>5 DEF Own
<1>9. ASSUME NEW d \in HoldCalls PROVE HoldKept(d)'
  <2> SUFFICES ASSUME HoldRunning(d)' PROVE HoldKept(d)'
    BY DEF HoldKept
  <2>1. HoldKept(d) /\ HoldRunning(d)
    BY <1>3 DEF HoldInv
  <2>2. CASE d = c
    <3>1. holdCall'[d] = q /\ q.pc # "idle"
      BY <1>1, <2>2 DEF HoldRunning
    <3> QED BY <2>1, <2>2, <3>1 DEF HoldKept
  <2>3. CASE d # c
    <3>1. holdCall'[d] = holdCall[d]
      BY <1>1, <2>3
    <3>2. holdCall[d].n # holdCall[c].n /\ holdCall[d].n \in Numbers
      BY <2>1, <2>3, Ids DEF HoldInv, CallsApart
    <3>3. hold'[holdCall[d].n].status = hold[holdCall[d].n].status
      BY <3>2
    <3> QED BY <2>1, <3>1, <3>3 DEF HoldKept
  <2> QED BY <2>2, <2>3
<1> QED BY <1>2, <1>4, <1>5, <1>7, <1>8, <1>9 DEF HoldInv

LEMMA HoldIdleIsACall == HoldIdle \in HoldCallT /\ HoldIdle.pc = "idle"
  BY DEF HoldIdle, HoldCallT, HoldPoints, NoHold

(* What Fault leaves of the counters.                                      *)
LEMMA Counters ==
  ASSUME HoldInv, HoldFault \/ holdUsed' = holdUsed
  PROVE  holdUsed' = [calls |-> holdUsed'.calls, faults |-> holdUsed'.faults] /\ holdUsed'.calls = holdUsed.calls
  BY DEF HoldInv, HoldTyped, HoldFault

(* An attempt ends: it hands out what is stored, or nothing; its hold is as  *)
(* it was.                                                                *)
LEMMA EndsIInv ==
  ASSUME MaxHoldCalls \in Nat, HoldInv, NEW c \in HoldCalls, HoldRunning(c), NEW h, HoldAnswers(c, h),
         h = NoHold \/ h = holdRecord.hold,
         holdRecord' = holdRecord, hold' = hold, HoldFault \/ holdUsed' = holdUsed
  PROVE  HoldInv'
<1>1. holdCall' = [holdCall EXCEPT ![c] = HoldIdle] /\ holdAnswered' = holdAnswered \cup ({h} \ {NoHold})
  BY DEF HoldAnswers
<1>2. \A m \in Numbers : m # holdCall[c].n => hold'[m].status = hold[m].status
  OBVIOUS
<1>3. hold' \in HoldT
  BY DEF HoldInv, HoldTyped
<1>4. holdRecord.hold = holdCall[c].n => hold'[holdCall[c].n].status # "back"
  BY Ids DEF HoldInv, HoldRecorded
<1> QED BY <1>1, <1>2, <1>3, <1>4, HoldIdleIsACall, Counters, SameRecord

(* An attempt goes on to its next point, its hold as it was.               *)
LEMMA HoldToIInv ==
  ASSUME MaxHoldCalls \in Nat, HoldInv, NEW c \in HoldCalls, HoldRunning(c), NEW pc \in HoldPoints, HoldTo(c, pc),
         pc \in Early => holdCall[c].pc \in Early,
         pc \notin {"idle", "storeAgain"},
         pc # "readBack" => holdRecord.hold # holdCall[c].n,
         pc \in {"bind", "store", "reopen"} => hold[holdCall[c].n].status # "back",
         holdAnswered' = holdAnswered, holdRecord' = holdRecord, hold' = hold, HoldFault \/ holdUsed' = holdUsed
  PROVE  HoldInv'
<1> DEFINE q == [holdCall[c] EXCEPT !.pc = pc]
<1>1. holdCall[c] \in HoldCallT /\ HoldKept(c)
  BY Ids
<1>2. /\ q \in HoldCallT /\ q.pc = pc /\ q.n = holdCall[c].n /\ q.for = holdCall[c].for /\ q.id = holdCall[c].id
      /\ q.mine = holdCall[c].mine /\ q.gets = holdCall[c].gets
  BY <1>1 DEF HoldCallT
<1>3. holdCall' = [holdCall EXCEPT ![c] = q]
  BY DEF HoldTo
<1> HIDE DEF q
<1>4. q.gets # NoHold => q.gets = holdRecord.hold
  BY <1>1, <1>2 DEF HoldKept
<1>5. hold' \in HoldT /\ \A m \in Numbers : m # holdCall[c].n => hold'[m].status = hold[m].status
  BY DEF HoldInv, HoldTyped
<1>6. holdRecord.hold = holdCall[c].n => hold'[holdCall[c].n].status # "back"
  BY Ids DEF HoldInv, HoldRecorded
<1> QED BY <1>2, <1>3, <1>4, <1>5, <1>6, Counters, SameRecord

(* Giving a hold back touches that hold only.                              *)
LEMMA GivenBackOnlyOwn ==
  ASSUME HoldInv, NEW n \in Numbers, hold' = GivenBack(n)
  PROVE  hold' \in HoldT /\ \A m \in Numbers : m # n => hold'[m].status = hold[m].status
<1>1. hold \in HoldT /\ hold[n].status \in {HoldNone, "live", "lapsed", "back"}
  BY DEF HoldInv, HoldTyped, HoldT
<1> DEFINE s == IF hold[n].status = "live" THEN "back" ELSE hold[n].status
<1>2. s \in {HoldNone, "live", "lapsed", "back"} /\ hold' = [hold EXCEPT ![n].status = s]
  BY <1>1 DEF GivenBack
<1> HIDE DEF s
<1> QED BY <1>1, <1>2 DEF HoldT

-----------------------------------------------------------------------------
(* The steps that leave the record alone.                                  *)
LEMMA PlaceIInv == ASSUME MaxHoldCalls \in Nat, HoldInv, NEW c \in HoldCalls, Place(c) PROVE HoldInv'
<1>1. /\ holdRecord' = holdRecord /\ holdAnswered' = holdAnswered /\ holdUsed' = holdUsed
      /\ holdCall[c].pc = "place" /\ HoldRunning(c)
  BY DEF Place, HoldRunning
<1>2. holdRecord.hold # holdCall[c].n /\ holdCall[c] \in HoldCallT /\ holdCall[c].n \in Numbers
  BY <1>1, Ids DEF HoldKept
<1>3. CASE HoldTo(c, "refused") /\ hold' = hold
  <2>1. "refused" \in HoldPoints /\ "place" \in Early
    BY DEF HoldPoints, Early
  <2> QED BY <1>1, <1>2, <1>3, <2>1, HoldToIInv
<1>4. CASE HoldTo(c, "bind") /\ hold' = [hold EXCEPT ![holdCall[c].n] = [for |-> holdCall[c].for, status |-> "live"]]
  <2> DEFINE q == [holdCall[c] EXCEPT !.pc = "bind"]
  <2>1. /\ q \in HoldCallT /\ q.pc = "bind" /\ q.n = holdCall[c].n /\ q.for = holdCall[c].for
        /\ q.id = holdCall[c].id /\ q.mine = holdCall[c].mine /\ q.gets = holdCall[c].gets
    BY <1>2 DEF HoldCallT, HoldPoints
  <2>2. holdCall' = [holdCall EXCEPT ![c] = q]
    BY <1>4 DEF HoldTo
  <2> HIDE DEF q
  <2>3. q.gets # NoHold => q.gets = holdRecord.hold
    BY <1>1, <2>1, Ids DEF HoldKept
  <2>4. hold' \in HoldT /\ \A m \in Numbers : m # holdCall[c].n => hold'[m].status = hold[m].status
    BY <1>2, <1>4 DEF HoldInv, HoldTyped, HoldT, HoldCallT
  <2>5. hold'[holdCall[c].n].status # "back"
    BY <1>2, <1>4 DEF HoldInv, HoldTyped, HoldT
  <2> QED BY <1>1, <1>2, <2>1, <2>2, <2>3, <2>4, <2>5, Counters, SameRecord DEF Early
<1> QED BY <1>3, <1>4 DEF Place

LEMMA BindIInv == ASSUME MaxHoldCalls \in Nat, HoldInv, NEW c \in HoldCalls, Bind(c) PROVE HoldInv'
<1>1. /\ holdRecord' = holdRecord /\ holdAnswered' = holdAnswered /\ holdCall[c].pc = "bind" /\ HoldRunning(c)
  BY DEF Bind, HoldRunning
<1>2. holdRecord.hold # holdCall[c].n /\ holdCall[c] \in HoldCallT /\ holdCall[c].n \in Numbers
  BY <1>1, Ids DEF HoldKept
<1>3. CASE HoldTo(c, "store") /\ hold' = hold /\ holdUsed' = holdUsed
  <2>1. "store" \in HoldPoints /\ "bind" \in Early
    BY DEF HoldPoints, Early
  <2>2. hold[holdCall[c].n].status # "back"
    BY <1>1, Ids DEF HoldKept
  <2> QED BY <1>1, <1>2, <1>3, <2>1, <2>2, HoldToIInv
<1>4. CASE HoldFault /\ hold' = GivenBack(holdCall[c].n) /\ HoldTo(c, "refused")
  <2> DEFINE q == [holdCall[c] EXCEPT !.pc = "refused"]
  <2>1. /\ q \in HoldCallT /\ q.pc = "refused" /\ q.n = holdCall[c].n /\ q.for = holdCall[c].for
        /\ q.id = holdCall[c].id /\ q.mine = holdCall[c].mine /\ q.gets = holdCall[c].gets
    BY <1>2 DEF HoldCallT, HoldPoints
  <2>2. holdCall' = [holdCall EXCEPT ![c] = q]
    BY <1>4 DEF HoldTo
  <2> HIDE DEF q
  <2>3. q.gets # NoHold => q.gets = holdRecord.hold
    BY <1>1, <2>1, Ids DEF HoldKept
  <2>4. hold' \in HoldT /\ \A m \in Numbers : m # holdCall[c].n => hold'[m].status = hold[m].status
    BY <1>2, <1>4, GivenBackOnlyOwn
  <2> QED BY <1>1, <1>2, <1>4, <2>1, <2>2, <2>3, <2>4, Counters, SameRecord DEF Early
<1> QED BY <1>3, <1>4 DEF Bind

LEMMA RefusedIInv == ASSUME MaxHoldCalls \in Nat, HoldInv, NEW c \in HoldCalls, HoldRefused(c) PROVE HoldInv'
<1>1. /\ holdRecord' = holdRecord /\ hold' = hold /\ holdUsed' = holdUsed
      /\ holdCall[c].pc = "refused" /\ HoldRunning(c)
  BY DEF HoldRefused, HoldRunning
<1>2. CASE HoldAnswers(c, holdRecord.hold)
  BY <1>1, <1>2, EndsIInv
<1>3. CASE HoldTo(c, "drop") /\ holdAnswered' = holdAnswered
  <2>1. "drop" \in HoldPoints /\ "refused" \in Early
    BY DEF HoldPoints, Early
  <2>2. holdRecord.hold # holdCall[c].n
    BY <1>1, Ids DEF HoldKept
  <2> QED BY <1>1, <1>3, <2>1, <2>2, HoldToIInv
<1>4. CASE HoldAnswers(c, NoHold)
  BY <1>1, <1>4, EndsIInv
<1> QED BY <1>2, <1>3, <1>4 DEF HoldRefused

(* What is stored and is not its own is not its own hold.                  *)
LEMMA ReadBackIsOwn ==
  ASSUME MaxHoldCalls \in Nat, HoldInv, NEW c \in HoldCalls, HoldRunning(c)
  PROVE  /\ HoldStored(c) /\ OnlyReplyLost(c) => holdRecord.hold = holdCall[c].n
         /\ HoldStored(c) /\ ~ OnlyReplyLost(c) => holdRecord.hold # holdCall[c].n
         /\ ~ HoldStored(c) => holdRecord.hold # holdCall[c].n
<1>1. HoldKept(c) /\ holdCall[c].n # NoHold
  BY Ids
<1> QED BY <1>1 DEF HoldKept, HoldStored, OnlyReplyLost

(* On the way to give its hold back an attempt remembers what to answer.   *)
LEMMA UndoesIInv ==
  ASSUME MaxHoldCalls \in Nat, HoldInv, NEW c \in HoldCalls, HoldRunning(c), NEW h \in {NoHold, holdRecord.hold},
         Undoes(c, h), holdRecord.hold # holdCall[c].n,
         holdRecord' = holdRecord, hold' = hold, holdAnswered' = holdAnswered, HoldFault \/ holdUsed' = holdUsed
  PROVE  HoldInv'
<1>1. holdCall[c] \in HoldCallT /\ h \in Nat /\ (h = NoHold \/ h = holdRecord.hold)
  BY Ids DEF NoHold
<1> DEFINE q == [[holdCall[c] EXCEPT !.pc = "undo"] EXCEPT !.gets = h]
<1>2. /\ q \in HoldCallT /\ q.pc = "undo" /\ q.n = holdCall[c].n /\ q.for = holdCall[c].for
      /\ q.id = holdCall[c].id /\ q.mine = holdCall[c].mine /\ q.gets = h
  BY <1>1 DEF HoldCallT, HoldPoints
<1>3. holdCall' = [holdCall EXCEPT ![c] = q]
  <2>1. DOMAIN holdCall = HoldCalls
    BY DEF HoldInv, HoldTyped
  <2>2. holdCall' = [[holdCall EXCEPT ![c].pc = "undo"] EXCEPT ![c].gets = h]
    BY DEF Undoes
  <2>3. [holdCall EXCEPT ![c].pc = "undo"][c] = [holdCall[c] EXCEPT !.pc = "undo"]
    BY <2>1
  <2> QED BY <2>1, <2>2, <2>3
<1> HIDE DEF q
<1>4. hold' \in HoldT /\ \A m \in Numbers : m # holdCall[c].n => hold'[m].status = hold[m].status
  BY DEF HoldInv, HoldTyped
<1> QED BY <1>1, <1>2, <1>3, <1>4, Counters, SameRecord DEF Early

LEMMA ReadBackIInv == ASSUME MaxHoldCalls \in Nat, HoldInv, NEW c \in HoldCalls, ReadBack(c) PROVE HoldInv'
<1>1. /\ holdRecord' = holdRecord /\ hold' = hold /\ holdCall[c].pc = "readBack" /\ HoldRunning(c)
  BY DEF ReadBack, HoldRunning
<1>2. CASE HoldStored(c) /\ OnlyReplyLost(c) /\ HoldAnswers(c, holdCall[c].n) /\ holdUsed' = holdUsed
  <2>1. holdRecord.hold = holdCall[c].n
    BY <1>1, <1>2, ReadBackIsOwn
  <2> QED BY <1>1, <1>2, <2>1, EndsIInv
<1>3. CASE HoldStored(c) /\ ~ OnlyReplyLost(c) /\ Undoes(c, holdRecord.hold) /\ holdAnswered' = holdAnswered /\ holdUsed' = holdUsed
  BY <1>1, <1>3, ReadBackIsOwn, UndoesIInv
<1>4. CASE ~ HoldStored(c) /\ Undoes(c, NoHold) /\ holdAnswered' = holdAnswered /\ holdUsed' = holdUsed
  BY <1>1, <1>4, ReadBackIsOwn, UndoesIInv
<1>5. CASE HoldFault /\ HoldAnswers(c, NoHold)
  BY <1>1, <1>5, EndsIInv
<1> QED BY <1>2, <1>3, <1>4, <1>5 DEF ReadBack

LEMMA UndoIInv == ASSUME MaxHoldCalls \in Nat, HoldInv, NEW c \in HoldCalls, Undo(c) PROVE HoldInv'
<1>1. /\ holdRecord' = holdRecord /\ holdCall[c].pc = "undo" /\ HoldRunning(c) /\ HoldAnswers(c, holdCall[c].gets)
      /\ HoldFault \/ holdUsed' = holdUsed
      /\ hold' = hold \/ hold' = GivenBack(holdCall[c].n)
  BY DEF Undo, HoldRunning
<1>2. /\ holdRecord.hold # holdCall[c].n /\ holdCall[c].n \in Numbers
      /\ holdCall[c].gets = NoHold \/ holdCall[c].gets = holdRecord.hold
  BY <1>1, Ids DEF HoldKept
<1>3. CASE hold' = hold
  BY <1>1, <1>2, <1>3, EndsIInv
<1>4. CASE hold' = GivenBack(holdCall[c].n)
  <2>1. holdCall' = [holdCall EXCEPT ![c] = HoldIdle] /\ holdAnswered' = holdAnswered \cup ({holdCall[c].gets} \ {NoHold})
    BY <1>1 DEF HoldAnswers
  <2>2. hold' \in HoldT /\ \A m \in Numbers : m # holdCall[c].n => hold'[m].status = hold[m].status
    BY <1>2, <1>4, GivenBackOnlyOwn
  <2> QED BY <1>1, <1>2, <2>1, <2>2, HoldIdleIsACall, Counters, SameRecord
<1> QED BY <1>1, <1>3, <1>4

LEMMA HoldDiesIInv == ASSUME MaxHoldCalls \in Nat, HoldInv, NEW c \in HoldCalls, HoldDies(c) PROVE HoldInv'
<1>1. /\ holdRecord' = holdRecord /\ hold' = hold /\ HoldRunning(c) /\ HoldFault
      /\ holdCall' = [holdCall EXCEPT ![c] = HoldIdle] /\ holdAnswered' = holdAnswered
  BY DEF HoldDies, HoldRunning
<1>2. HoldAnswers(c, NoHold)
  BY <1>1 DEF HoldAnswers
<1> QED BY <1>1, <1>2, EndsIInv

LEMMA LapseIInv == ASSUME MaxHoldCalls \in Nat, HoldInv, NEW n \in Numbers, Lapse(n) PROVE HoldInv'
<1>1. /\ holdRecord' = holdRecord /\ holdCall' = holdCall /\ holdAnswered' = holdAnswered /\ holdUsed' = holdUsed
      /\ hold' = [hold EXCEPT ![n].status = "lapsed"]
  BY DEF Lapse
<1>2. hold' \in HoldT /\ \A m \in Numbers : hold'[m].status = "back" => hold[m].status = "back"
  BY <1>1 DEF HoldInv, HoldTyped, HoldT
<1>3. HoldTyped'
  BY <1>1, <1>2 DEF HoldInv, HoldTyped
<1>4. \A c \in HoldCalls : HoldRunning(c)' <=> HoldRunning(c)
  BY <1>1 DEF HoldRunning
<1>5. CallsApart' /\ OneAnswer' /\ \A i : Past(i)' <=> Past(i)
  BY <1>1, <1>4 DEF HoldInv, CallsApart, OneAnswer, Past
<1>6. holdRecord.hold # NoHold => holdRecord.hold \in Numbers
  BY DEF HoldInv, HoldTyped, RecordT, HoldRecorded, Numbers, NoHold
<1>7. HoldRecorded'
  BY <1>1, <1>2, <1>5, <1>6 DEF HoldInv, HoldRecorded
<1>8. ASSUME NEW c \in HoldCalls PROVE Own(c)' /\ HoldKept(c)'
  <2>1. Own(c) /\ HoldKept(c) /\ (HoldRunning(c) => holdCall[c].n \in Numbers)
    BY Ids DEF HoldInv
  <2>2. Own(c)'
    BY <1>1, <1>4, <1>5, <2>1 DEF Own, AgainId
  <2>3. HoldKept(c)'
    BY <1>1, <1>2, <1>4, <2>1 DEF HoldKept
  <2> QED BY <2>2, <2>3
<1> QED BY <1>3, <1>5, <1>7, <1>8 DEF HoldInv

-----------------------------------------------------------------------------
(* The steps that change the record.                                       *)
LEMMA DropIInv == ASSUME MaxHoldCalls \in Nat, HoldInv, NEW c \in HoldCalls, Drop(c) PROVE HoldInv'
<1>1. /\ holdRecord' = IF Droppable(c) THEN NoHoldRecord ELSE holdRecord
      /\ hold' = hold /\ holdUsed' = holdUsed /\ holdCall[c].pc = "drop" /\ HoldRunning(c) /\ HoldAnswers(c, NoHold)
  BY DEF Drop, HoldRunning
<1>2. CASE ~ Droppable(c)
  BY <1>1, <1>2, EndsIInv
<1>3. CASE Droppable(c)
  <2>1. holdRecord.hold = NoHold /\ holdRecord' = NoHoldRecord
    BY <1>1, <1>3 DEF Droppable, OpenRecord
  <2>2. /\ holdCall' = [holdCall EXCEPT ![c] = HoldIdle] /\ holdAnswered' = holdAnswered
        /\ \A d \in HoldCalls : holdCall'[d] = IF d = c THEN HoldIdle ELSE holdCall[d]
    BY <1>1 DEF HoldAnswers, HoldInv, HoldTyped
  <2>3. holdAnswered' = {}
    BY <2>1, <2>2 DEF HoldInv, OneAnswer
  <2>4. NoHoldRecord \in RecordT /\ NoHoldRecord.id = 0 /\ NoHoldRecord.hold = NoHold /\ NoHold = 0
    BY DEF NoHoldRecord, RecordT, NoHold
  <2>5. HoldTyped'
    BY <1>1, <2>1, <2>2, <2>4, HoldIdleIsACall DEF HoldInv, HoldTyped
  <2>6. \A d \in HoldCalls : HoldRunning(d)' => HoldRunning(d) /\ holdCall'[d] = holdCall[d]
    BY <2>2, HoldIdleIsACall DEF HoldRunning
  <2>7. CallsApart'
    BY <2>6 DEF HoldInv, CallsApart
  <2>8. OneAnswer'
    BY <2>3 DEF OneAnswer
  <2>9. (\A i : Past(i)' <=> Past(i)) /\ Past(0)
    BY <1>1 DEF Past, HoldInv, HoldTyped
  <2>10. HoldRecorded'
    BY <1>1, <2>1, <2>4, <2>9 DEF HoldInv, HoldTyped, HoldRecorded
  <2>11. ASSUME NEW d \in HoldCalls PROVE Own(d)' /\ HoldKept(d)'
    <3> SUFFICES ASSUME HoldRunning(d)' PROVE Own(d)' /\ HoldKept(d)'
      BY DEF Own, HoldKept
    <3>1. Own(d) /\ HoldKept(d) /\ HoldRunning(d) /\ holdCall'[d] = holdCall[d] /\ holdCall[d] \in HoldCallT
      BY <2>6, Ids DEF HoldInv
    <3>2. holdCall[d].n # 0 /\ holdCall[d].id # 0 /\ 0 # AgainId(holdCall[d].n) /\ AgainId(holdCall[d].n)' = AgainId(holdCall[d].n)
      BY <3>1, Ids DEF Own, AgainId, HoldCallT
    <3>3. Own(d)'
      <4>1. holdRecord'.id # holdCall[d].id /\ holdRecord'.id # AgainId(holdCall[d].n)
        BY <2>1, <2>4, <3>2
      <4>2. Past(holdCall[d].id)'
        BY <2>9, <3>1 DEF Own
      <4>3. holdCall[d].pc \in Early => \A e \in HoldCalls : HoldRunning(e)' => holdCall'[e].id # AgainId(holdCall[d].n)
        BY <2>6, <3>1 DEF Own
      <4>4. holdUsed'.calls = holdUsed.calls
        BY <1>1
      <4> QED BY <3>1, <3>2, <4>1, <4>2, <4>3, <4>4 DEF Own
    <3>4. holdRecord'.hold = NoHold /\ holdCall[d].gets = NoHold /\ holdRecord'.hold # holdCall[d].n
      BY <2>1, <2>4, <3>1, <3>2 DEF HoldKept
    <3>5. HoldKept(d)'
      BY <1>1, <3>1, <3>4 DEF HoldKept
    <3> QED BY <3>3, <3>5
  <2> QED BY <2>5, <2>7, <2>8, <2>10, <2>11 DEF HoldInv
<1> QED BY <1>2, <1>3

(* The hold is stored on the record that was open under an id of its own:    *)
(* no other attempt takes it for its own.                                  *)
LEMMA StoredIInv ==
  ASSUME MaxHoldCalls \in Nat, HoldInv, NEW c \in HoldCalls, HoldRunning(c), holdCall[c].pc \in {"store", "storeAgain"},
         NEW id, OpenRecord(id), id # 0, id \in holdCall[c].mine, holdRecord.for = holdCall[c].for,
         holdRecord' = [holdRecord EXCEPT !.hold = holdCall[c].n], hold' = hold,
         \/ HoldAnswers(c, holdCall[c].n) /\ holdUsed' = holdUsed
         \/ HoldFault /\ HoldTo(c, "readBack") /\ holdAnswered' = holdAnswered
  PROVE  HoldInv'
<1>1. /\ holdCall[c] \in HoldCallT /\ holdCall[c].n \in Numbers /\ holdCall[c].n # NoHold /\ Own(c) /\ HoldKept(c)
      /\ holdRecord \in RecordT /\ hold[holdCall[c].n].status # "back"
  BY Ids DEF HoldInv, HoldTyped, HoldKept
<1>2. /\ holdRecord.id = id /\ holdRecord.hold = NoHold /\ holdAnswered = {}
      /\ \A d \in HoldCalls : HoldRunning(d) => holdCall[d].gets = NoHold
  BY DEF OpenRecord, HoldInv, OneAnswer, HoldKept
<1>3. /\ holdRecord' \in RecordT /\ holdRecord'.hold = holdCall[c].n /\ holdRecord'.id = id
      /\ holdRecord'.for = holdRecord.for
  BY <1>1, <1>2 DEF RecordT, Numbers, HoldInv, HoldTyped, HoldCallT
<1>4. PICK q \in HoldCallT :
         /\ holdCall' = [holdCall EXCEPT ![c] = q]
         /\ \/ q.pc = "idle"
            \/ /\ q.pc = "readBack" /\ q.n = holdCall[c].n /\ q.for = holdCall[c].for /\ q.id = holdCall[c].id
               /\ q.mine = holdCall[c].mine /\ q.gets = holdCall[c].gets
  <2>1. CASE HoldAnswers(c, holdCall[c].n)
    BY <2>1, HoldIdleIsACall DEF HoldAnswers
  <2>2. CASE HoldTo(c, "readBack")
    <3> DEFINE p == [holdCall[c] EXCEPT !.pc = "readBack"]
    <3>1. /\ p \in HoldCallT /\ p.pc = "readBack" /\ p.n = holdCall[c].n /\ p.for = holdCall[c].for
          /\ p.id = holdCall[c].id /\ p.mine = holdCall[c].mine /\ p.gets = holdCall[c].gets
      BY <1>1 DEF HoldCallT, HoldPoints
    <3>2. holdCall' = [holdCall EXCEPT ![c] = p]
      BY <2>2 DEF HoldTo
    <3> HIDE DEF p
    <3> QED BY <3>1, <3>2
  <2> QED BY <2>1, <2>2
<1>5. \A d \in HoldCalls : holdCall'[d] = IF d = c THEN q ELSE holdCall[d]
  BY <1>4 DEF HoldInv, HoldTyped
<1>6. holdUsed'.calls = holdUsed.calls /\ holdUsed' = [calls |-> holdUsed'.calls, faults |-> holdUsed'.faults]
  BY Counters
<1>7. \A h \in holdAnswered' : h = holdCall[c].n
  BY <1>2 DEF HoldAnswers
<1>8. HoldTyped'
  BY <1>3, <1>4, <1>6 DEF HoldInv, HoldTyped
<1>9. \A d \in HoldCalls : HoldRunning(d)' => HoldRunning(d) /\ holdCall'[d].n = holdCall[d].n /\ holdCall'[d].id = holdCall[d].id
  BY <1>4, <1>5 DEF HoldRunning
<1>10. CallsApart' /\ OneAnswer'
  BY <1>1, <1>3, <1>7, <1>9 DEF HoldInv, CallsApart, OneAnswer
<1>11. \A i : Past(i)' <=> Past(i)
  BY <1>6 DEF Past
<1>12. HoldRecorded'
  <2>1. holdRecord.id # 0
    BY <1>2
  <2> QED BY <1>1, <1>2, <1>3, <1>6, <1>11, <2>1 DEF HoldInv, HoldRecorded, Own
<1>13. ASSUME NEW d \in HoldCalls PROVE Own(d)' /\ HoldKept(d)'
  <2> SUFFICES ASSUME HoldRunning(d)' PROVE Own(d)' /\ HoldKept(d)'
    BY DEF Own, HoldKept
  <2>1. Own(d) /\ HoldKept(d) /\ HoldRunning(d) /\ AgainId(holdCall[d].n)' = AgainId(holdCall[d].n)
    BY <1>9 DEF HoldInv, AgainId
  <2>2. holdCall'[d].for = holdCall[d].for /\ holdCall'[d].mine = holdCall[d].mine /\ holdCall'[d].gets = holdCall[d].gets
    BY <1>4, <1>5 DEF HoldRunning
  <2>3. (holdCall'[d].pc \in Early => holdCall[d].pc \in Early) /\ (holdCall'[d].pc = "storeAgain" => holdCall[d].pc = "storeAgain")
    BY <1>4, <1>5 DEF HoldRunning, Early
  <2>4. Own(d)'
    BY <1>2, <1>3, <1>6, <1>9, <1>11, <2>1, <2>2, <2>3 DEF Own
  <2>5. CASE d = c
    <3>1. holdCall'[d].pc = "readBack"
      BY <1>4, <1>5, <2>5 DEF HoldRunning
    <3> QED BY <1>2, <1>3, <1>9, <2>2, <2>4, <2>5, <3>1, <2>1 DEF HoldKept
  <2>6. CASE d # c
    <3>1. holdCall'[d] = holdCall[d] /\ holdCall[d].n # holdCall[c].n /\ holdCall[d].gets = NoHold
      BY <1>2, <1>5, <2>1, <2>6 DEF HoldInv, CallsApart
    <3> QED BY <1>3, <2>1, <2>4, <3>1 DEF HoldKept
  <2> QED BY <2>5, <2>6
<1> QED BY <1>8, <1>10, <1>12, <1>13 DEF HoldInv

LEMMA StoreOnIInv ==
  ASSUME MaxHoldCalls \in Nat, HoldInv, NEW c \in HoldCalls, HoldRunning(c), holdCall[c].pc \in {"store", "storeAgain"},
         NEW id, OpenRecord(id) => id # 0 /\ id \in holdCall[c].mine /\ holdRecord.for = holdCall[c].for,
         NEW otherwise \in {"reopen", "readBack"}, otherwise = "reopen" => holdCall[c].pc = "store",
         StoreOn(c, id, otherwise)
  PROVE  HoldInv'
<1>1. hold' = hold
  BY DEF StoreOn
<1>2. CASE /\ OpenRecord(id) /\ holdRecord' = [holdRecord EXCEPT !.hold = holdCall[c].n]
           /\ \/ HoldAnswers(c, holdCall[c].n) /\ holdUsed' = holdUsed
              \/ HoldFault /\ HoldTo(c, "readBack") /\ holdAnswered' = holdAnswered
  BY <1>1, <1>2, StoredIInv
<1>3. CASE HoldFault /\ HoldTo(c, "readBack") /\ holdRecord' = holdRecord /\ holdAnswered' = holdAnswered
  <2>1. "readBack" \in HoldPoints /\ "readBack" \notin Early
    BY DEF HoldPoints, Early
  <2> QED BY <1>1, <1>3, <2>1, HoldToIInv
<1>4. CASE HoldTo(c, otherwise) /\ holdRecord' = holdRecord /\ holdAnswered' = holdAnswered /\ holdUsed' = holdUsed
  <2>1. otherwise \in HoldPoints /\ (otherwise \in Early => holdCall[c].pc \in Early)
    BY DEF HoldPoints, Early
  <2>2. holdRecord.hold # holdCall[c].n /\ hold[holdCall[c].n].status # "back"
    BY Ids DEF HoldKept
  <2> QED BY <1>1, <1>4, <2>1, <2>2, HoldToIInv
<1> QED BY <1>2, <1>3, <1>4 DEF StoreOn

LEMMA StoreIInv == ASSUME MaxHoldCalls \in Nat, HoldInv, NEW c \in HoldCalls, Store(c) PROVE HoldInv'
<1>1. holdCall[c].pc = "store" /\ HoldRunning(c) /\ StoreOn(c, holdCall[c].id, "reopen")
  BY DEF Store, HoldRunning
<1>2. OpenRecord(holdCall[c].id) => holdCall[c].id # 0 /\ holdCall[c].id \in holdCall[c].mine /\ holdRecord.for = holdCall[c].for
  BY <1>1, Ids DEF OpenRecord, Own
<1> QED BY <1>1, <1>2, StoreOnIInv

LEMMA StoreAgainIInv == ASSUME MaxHoldCalls \in Nat, HoldInv, NEW c \in HoldCalls, StoreAgain(c) PROVE HoldInv'
<1>1. holdCall[c].pc = "storeAgain" /\ HoldRunning(c) /\ StoreOn(c, AgainId(holdCall[c].n), "readBack")
  BY DEF StoreAgain, HoldRunning
<1>2. OpenRecord(AgainId(holdCall[c].n)) => AgainId(holdCall[c].n) # 0 /\ AgainId(holdCall[c].n) \in holdCall[c].mine /\ holdRecord.for = holdCall[c].for
  <2>1. Own(c) /\ AgainId(holdCall[c].n) = MaxHoldCalls + holdCall[c].n /\ holdCall[c].n \in Numbers
    BY <1>1, Ids
  <2> QED BY <1>1, <2>1 DEF OpenRecord, Own, Numbers
<1> QED BY <1>1, <1>2, StoreOnIInv

(* The record opened again has an id no other attempt has or will open.    *)
LEMMA OpenedAgainIInv ==
  ASSUME MaxHoldCalls \in Nat, HoldInv, NEW c \in HoldCalls, holdCall[c].pc = "reopen", holdRecord = NoHoldRecord,
         holdRecord' = Opened(AgainId(holdCall[c].n), holdCall[c].for),
         holdCall' = [holdCall EXCEPT ![c].pc = "storeAgain", ![c].mine = @ \cup {AgainId(holdCall[c].n)}],
         holdUsed' = holdUsed, hold' = hold, holdAnswered' = holdAnswered
  PROVE  HoldInv'
<1> DEFINE again == AgainId(holdCall[c].n)
<1> DEFINE q == [holdCall[c] EXCEPT !.pc = "storeAgain", !.mine = @ \cup {again}]
<1>1. /\ holdCall[c] \in HoldCallT /\ Own(c) /\ HoldKept(c) /\ HoldRunning(c) /\ holdCall[c].n \in Numbers
      /\ again = MaxHoldCalls + holdCall[c].n /\ again \in Nat /\ again # 0 /\ Past(again)
      /\ holdCall[c].pc \in Early
  BY Ids DEF HoldRunning, Numbers, HoldCallT, Early
<1>2. /\ q \in HoldCallT /\ q.pc = "storeAgain" /\ q.n = holdCall[c].n /\ q.for = holdCall[c].for
      /\ q.id = holdCall[c].id /\ q.mine = holdCall[c].mine \cup {again} /\ q.gets = holdCall[c].gets
  BY <1>1 DEF HoldCallT, HoldPoints
<1>3. holdCall' = [holdCall EXCEPT ![c] = q]
  <2>1. DOMAIN holdCall = HoldCalls
    BY DEF HoldInv, HoldTyped
  <2>2. holdCall' = [[holdCall EXCEPT ![c].pc = "storeAgain"] EXCEPT ![c].mine = holdCall[c].mine \cup {again}]
    BY <2>1
  <2>3. [holdCall EXCEPT ![c].pc = "storeAgain"][c] = [holdCall[c] EXCEPT !.pc = "storeAgain"]
    BY <2>1
  <2>4. q = [[holdCall[c] EXCEPT !.pc = "storeAgain"] EXCEPT !.mine = holdCall[c].mine \cup {again}]
    OBVIOUS
  <2> QED BY <2>1, <2>2, <2>3, <2>4
<1> HIDE DEF q
<1>4. \A d \in HoldCalls : holdCall'[d] = IF d = c THEN q ELSE holdCall[d]
  BY <1>3 DEF HoldInv, HoldTyped
<1>5. /\ holdRecord'.id = again /\ holdRecord'.for = holdCall[c].for /\ holdRecord'.hold = NoHold
      /\ holdRecord' \in RecordT /\ holdRecord.hold = NoHold
  BY <1>1 DEF Opened, RecordT, NoHold, NoHoldRecord, HoldCallT
<1>6. /\ holdAnswered = {} /\ \A d \in HoldCalls : HoldRunning(d) => holdCall[d].gets = NoHold
  BY <1>5 DEF HoldInv, OneAnswer, HoldKept
<1>7. HoldTyped'
  BY <1>2, <1>3, <1>5 DEF HoldInv, HoldTyped
<1>8. \A d \in HoldCalls : HoldRunning(d)' <=> HoldRunning(d)
  BY <1>2, <1>4, <1>1 DEF HoldRunning
<1>9. \A d \in HoldCalls : /\ holdCall'[d].n = holdCall[d].n /\ holdCall'[d].id = holdCall[d].id
                           /\ holdCall'[d].for = holdCall[d].for /\ holdCall'[d].gets = holdCall[d].gets
  BY <1>2, <1>4
<1>10. CallsApart' /\ OneAnswer'
  <2>1. CallsApart'
    <3> SUFFICES ASSUME NEW d \in HoldCalls, NEW e \in HoldCalls, HoldRunning(d)', HoldRunning(e)', d # e
                 PROVE  holdCall'[d].n # holdCall'[e].n
      BY DEF CallsApart
    <3>1. HoldRunning(d) /\ HoldRunning(e) /\ holdCall'[d].n = holdCall[d].n /\ holdCall'[e].n = holdCall[e].n
      BY <1>8, <1>9
    <3> QED BY <3>1 DEF HoldInv, CallsApart
  <2>2. OneAnswer'
    BY <1>6 DEF OneAnswer
  <2> QED BY <2>1, <2>2
<1>11. \A i : Past(i)' <=> Past(i)
  BY DEF Past
<1>12. HoldRecorded'
  BY <1>1, <1>5, <1>11 DEF HoldInv, HoldTyped, HoldRecorded, NoHold
<1>13. ASSUME NEW d \in HoldCalls PROVE Own(d)' /\ HoldKept(d)'
  <2> SUFFICES ASSUME HoldRunning(d)' PROVE Own(d)' /\ HoldKept(d)'
    BY DEF Own, HoldKept
  <2>1. /\ Own(d) /\ HoldKept(d) /\ HoldRunning(d) /\ AgainId(holdCall[d].n)' = AgainId(holdCall[d].n)
        /\ holdCall[d].id # again /\ holdCall[d] \in HoldCallT /\ holdCall[d].n \in Numbers
        /\ AgainId(holdCall[d].n) = MaxHoldCalls + holdCall[d].n
    <3>1. HoldRunning(d)
      BY <1>8
    <3>2. holdCall[d].id # again
      BY <1>1, <3>1 DEF Own
    <3>3. AgainId(holdCall[d].n)' = AgainId(holdCall[d].n)
      BY <1>9 DEF AgainId
    <3> QED BY <3>1, <3>2, <3>3, Ids
  <2>2. CASE d = c
    <3>1. holdCall'[d] = q
      BY <1>4, <2>2
    <3>2. Own(d)'
      BY <1>1, <1>2, <1>5, <1>11, <2>1, <2>2, <3>1 DEF Own, Early
    <3>3. HoldKept(d)'
      BY <1>1, <1>2, <1>5, <1>6, <2>1, <2>2, <3>1 DEF HoldKept, Numbers, NoHold
    <3> QED BY <3>2, <3>3
  <2>3. CASE d # c
    <3>1. holdCall'[d] = holdCall[d] /\ holdCall[d].n # holdCall[c].n
      BY <1>1, <1>4, <2>1, <2>3 DEF HoldInv, CallsApart
    <3>2. AgainId(holdCall[d].n) # again
      BY <1>1, <2>1, <3>1 DEF HoldCallT
    <3>3. Own(d)'
      BY <1>5, <1>8, <1>9, <1>11, <2>1, <3>1, <3>2 DEF Own
    <3>4. HoldKept(d)'
      BY <1>5, <1>6, <2>1, <3>1 DEF HoldKept, Numbers, NoHold
    <3> QED BY <3>3, <3>4
  <2> QED BY <2>2, <2>3
<1> QED BY <1>7, <1>10, <1>12, <1>13 DEF HoldInv

LEMMA ReopenIInv == ASSUME MaxHoldCalls \in Nat, HoldInv, NEW c \in HoldCalls, Reopen(c) PROVE HoldInv'
<1> DEFINE again == AgainId(holdCall[c].n)
<1> DEFINE row == IF holdRecord = NoHoldRecord THEN Opened(again, holdCall[c].for) ELSE holdRecord
<1>1. /\ holdCall[c].pc = "reopen" /\ HoldRunning(c) /\ hold' = hold /\ holdAnswered' = holdAnswered
      /\ "readBack" \in HoldPoints /\ "readBack" \notin Early
  BY DEF Reopen, HoldRunning, HoldPoints, Early
<1>2. Own(c) /\ HoldKept(c) /\ holdRecord.hold # holdCall[c].n /\ holdRecord.id # again
  BY <1>1, Ids DEF Own, HoldKept, Early
<1>3. CASE holdRecord' = holdRecord /\ HoldFault /\ HoldTo(c, "readBack")
  BY <1>1, <1>3, HoldToIInv
<1>4. CASE /\ holdRecord' = row /\ holdUsed' = holdUsed
           /\ \/ /\ row.id = again
                 /\ holdCall' = [holdCall EXCEPT ![c].pc = "storeAgain", ![c].mine = @ \cup {again}]
              \/ row.for # holdCall[c].for /\ Undoes(c, NoHold)
              \/ row.id # again /\ row.for = holdCall[c].for /\ HoldTo(c, "readBack")
  <2>1. CASE holdRecord = NoHoldRecord
    <3>1. row = Opened(again, holdCall[c].for) /\ row.id = again /\ row.for = holdCall[c].for
      BY <2>1 DEF Opened
    <3> QED BY <1>1, <1>4, <2>1, <3>1, OpenedAgainIInv
  <2>2. CASE holdRecord # NoHoldRecord
    <3>1. row = holdRecord
      BY <2>2
    <3>2. CASE Undoes(c, NoHold)
      BY <1>1, <1>2, <1>4, <3>1, <3>2, UndoesIInv
    <3>3. CASE HoldTo(c, "readBack")
      BY <1>1, <1>2, <1>4, <3>1, <3>3, HoldToIInv
    <3> QED BY <1>2, <1>4, <3>1, <3>2, <3>3
  <2> QED BY <2>1, <2>2
<1> QED BY <1>3, <1>4 DEF Reopen

(* A claim opens a record under an id never used, or finds the one there is. *)
LEMMA HoldClaimIInv == ASSUME MaxHoldCalls \in Nat, HoldInv, NEW c \in HoldCalls, NEW r \in HoldTimes, HoldClaim(c, r) PROVE HoldInv'
<1>a. PICK n : n = holdUsed.calls + 1
  OBVIOUS
<1>b. PICK row : row = IF holdRecord = NoHoldRecord THEN Opened(n, r) ELSE holdRecord
  OBVIOUS
<1>1. /\ holdCall[c].pc = "idle" /\ holdUsed.calls < MaxHoldCalls /\ holdUsed' = [holdUsed EXCEPT !.calls = @ + 1]
      /\ holdRecord' = row /\ hold' = hold
  BY <1>a, <1>b DEF HoldClaim
<1>2. holdUsed.calls \in Nat /\ n \in Nat /\ n # 0 /\ n <= MaxHoldCalls /\ MaxHoldCalls < AgainId(n) /\ NoHold = 0
  BY <1>1, <1>a DEF HoldInv, HoldTyped, AgainId, NoHold
<1>3. holdUsed'.calls = n /\ holdUsed' = [calls |-> holdUsed'.calls, faults |-> holdUsed'.faults]
  BY <1>1, <1>a DEF HoldInv, HoldTyped
<1>4. \A i \in Nat : Past(i) => Past(i)'
  <2> SUFFICES ASSUME NEW i \in Nat, Past(i) PROVE Past(i)'
    OBVIOUS
  <2> QED BY <1>2, <1>3, <1>a DEF Past
<1>5. /\ row \in RecordT /\ Past(row.id)' /\ row.id # 0 /\ row.hold = holdRecord.hold
      /\ row.hold <= holdUsed.calls /\ row.hold \in Nat
      /\ row.id # AgainId(n)
  <2>1. CASE holdRecord = NoHoldRecord
    <3>1. row = Opened(n, r) /\ holdRecord.hold = NoHold
      BY <1>b, <2>1 DEF NoHoldRecord
    <3>2. row.id = n /\ row.for = r /\ row.hold = NoHold /\ row \in RecordT
      BY <1>2, <3>1 DEF Opened, RecordT
    <3> QED BY <1>2, <1>3, <3>1, <3>2 DEF Past
  <2>2. CASE holdRecord # NoHoldRecord
    <3>1. row = holdRecord /\ row \in RecordT /\ Past(row.id) /\ row.id # 0 /\ row.hold <= holdUsed.calls
      BY <1>b, <2>2 DEF HoldInv, HoldTyped, HoldRecorded
    <3>2. row.id \in Nat /\ row.hold \in Nat
      BY <3>1 DEF RecordT
    <3>3. row.id # AgainId(n)
      BY <1>2, <1>a, <3>1, <3>2 DEF Past, AgainId
    <3> QED BY <1>4, <3>1, <3>2, <3>3
  <2> QED BY <2>1, <2>2
<1> DEFINE began == [pc |-> "place", n |-> n, for |-> r, id |-> row.id, gets |-> NoHold,
                     inserted |-> row.id = n, mine |-> {row.id}]
<1>6. row.id \in Nat
  BY <1>5 DEF RecordT
<1>7. PICK q \in HoldCallT :
         /\ holdCall' = [holdCall EXCEPT ![c] = q]
         /\ \/ q.pc = "idle"
            \/ /\ row.for = r /\ q.pc = "place" /\ q.n = n /\ q.for = r /\ q.id = row.id
               /\ q.mine = {row.id} /\ q.gets = NoHold /\ holdAnswered' = holdAnswered
  <2>1. CASE row.for # r \/ row.hold # NoHold
    <3>1. holdCall' = [holdCall EXCEPT ![c] = HoldIdle]
      BY <2>1, <1>a, <1>b DEF HoldClaim, HoldAnswers
    <3> QED BY <3>1, HoldIdleIsACall
  <2>2. CASE ~ (row.for # r \/ row.hold # NoHold)
    <3>1. holdCall' = [holdCall EXCEPT ![c] = began] /\ holdAnswered' = holdAnswered
      BY <2>2, <1>a, <1>b DEF HoldClaim
    <3>2. /\ began \in HoldCallT /\ began.pc = "place" /\ began.n = n /\ began.for = r
          /\ began.id = row.id /\ began.mine = {row.id} /\ began.gets = NoHold
      BY <1>2, <1>6 DEF HoldCallT, HoldPoints
    <3> HIDE DEF began
    <3> QED BY <2>2, <3>1, <3>2
  <2> QED BY <2>1, <2>2
<1>8. \A h \in holdAnswered' : h \in holdAnswered \/ (h # NoHold /\ h = row.hold)
  <2>1. CASE row.for # r \/ row.hold # NoHold
    <3>1. HoldAnswers(c, IF row.for = r THEN row.hold ELSE NoHold)
      BY <2>1, <1>a, <1>b DEF HoldClaim
    <3> QED BY <3>1 DEF HoldAnswers
  <2>2. CASE ~ (row.for # r \/ row.hold # NoHold)
    BY <2>2, <1>a, <1>b DEF HoldClaim
  <2> QED BY <2>1, <2>2
<1> HIDE DEF began
<1>9. \A d \in HoldCalls : holdCall'[d] = IF d = c THEN q ELSE holdCall[d]
  BY <1>7 DEF HoldInv, HoldTyped
<1>10. HoldTyped'
  BY <1>1, <1>2, <1>3, <1>5, <1>7 DEF HoldInv, HoldTyped
<1>11. OneAnswer'
  BY <1>1, <1>5, <1>8 DEF HoldInv, OneAnswer
<1>12. HoldRecorded'
  BY <1>1, <1>2, <1>3, <1>5 DEF HoldInv, HoldTyped, HoldRecorded
<1>13. \A d \in HoldCalls : d # c /\ HoldRunning(d)' => HoldRunning(d) /\ holdCall'[d] = holdCall[d]
  BY <1>9 DEF HoldRunning
<1>14. ASSUME NEW d \in HoldCalls, HoldRunning(d)
       PROVE  /\ holdCall[d].n # n /\ holdCall[d].id # n /\ holdCall[d].id # AgainId(n) /\ n # AgainId(holdCall[d].n)
  <2>1. /\ holdCall[d].n <= holdUsed.calls /\ Past(holdCall[d].id) /\ holdCall[d].n \in Nat /\ holdCall[d].id \in Nat
        /\ holdCall[d].n # 0 /\ AgainId(holdCall[d].n) = MaxHoldCalls + holdCall[d].n
    BY <1>14, Ids DEF Own, HoldCallT
  <2> QED BY <1>2, <1>3, <1>a, <2>1 DEF Past, AgainId
<1>15. CallsApart'
  <2> SUFFICES ASSUME NEW d \in HoldCalls, NEW e \in HoldCalls, HoldRunning(d)', HoldRunning(e)', d # e
               PROVE  holdCall'[d].n # holdCall'[e].n
    BY DEF CallsApart
  <2>1. HoldRunning(c)' => holdCall'[c].n = n
    BY <1>7, <1>9 DEF HoldRunning
  <2>2. d # c => HoldRunning(d) /\ holdCall'[d].n = holdCall[d].n /\ holdCall[d].n # n
    BY <1>13, <1>14
  <2>3. e # c => HoldRunning(e) /\ holdCall'[e].n = holdCall[e].n /\ holdCall[e].n # n
    BY <1>13, <1>14
  <2>4. HoldRunning(d) /\ HoldRunning(e) => holdCall[d].n # holdCall[e].n
    BY DEF HoldInv, CallsApart
  <2> QED BY <2>1, <2>2, <2>3, <2>4
<1>16. (holdRecord.id = row.id /\ holdRecord.for = row.for) \/ (row.id = n /\ row.for = r)
  BY <1>b DEF Opened
<1>17. ASSUME NEW d \in HoldCalls PROVE Own(d)' /\ HoldKept(d)'
  <2> SUFFICES ASSUME HoldRunning(d)' PROVE Own(d)' /\ HoldKept(d)'
    BY DEF Own, HoldKept
  <2>1. CASE d = c
    <3>1. /\ holdCall'[d] = q /\ row.for = r /\ q.pc = "place" /\ q.n = n /\ q.for = r /\ q.id = row.id
          /\ q.mine = {row.id} /\ q.gets = NoHold
      BY <1>7, <1>9, <2>1 DEF HoldRunning
    <3>2. \A e \in HoldCalls : HoldRunning(e)' => holdCall'[e].id # AgainId(n)
      BY <1>5, <1>9, <1>13, <1>14, <3>1
    <3>3. holdRecord'.hold # n
      BY <1>1, <1>2, <1>5, <1>a
    <3>4. AgainId(n)' = AgainId(n) /\ n \in Nat /\ n <= holdUsed'.calls
      BY <1>2, <1>3 DEF AgainId
    <3>5. Own(d)'
      BY <1>1, <1>2, <1>3, <1>5, <3>1, <3>2, <3>4 DEF Own
    <3>6. HoldKept(d)'
      BY <3>1, <3>3 DEF HoldKept
    <3> QED BY <3>5, <3>6
  <2>2. CASE d # c
    <3>1. /\ holdCall'[d] = holdCall[d] /\ HoldRunning(d) /\ Own(d) /\ HoldKept(d)
          /\ AgainId(holdCall[d].n)' = AgainId(holdCall[d].n)
      BY <1>13, <2>2 DEF HoldInv, AgainId
    <3>2. holdCall[d].id # n /\ n # AgainId(holdCall[d].n)
      BY <1>14, <3>1
    <3>3. row.id = holdCall[d].id => row.for = holdCall[d].for
      BY <1>16, <3>1, <3>2 DEF Own
    <3>4. row.id = AgainId(holdCall[d].n) => row.id = holdRecord.id /\ row.for = holdRecord.for
      BY <1>16, <3>2
    <3>5. holdCall[d].pc \in Early => \A e \in HoldCalls : HoldRunning(e)' => holdCall'[e].id # AgainId(holdCall[d].n)
      <4> SUFFICES ASSUME holdCall[d].pc \in Early, NEW e \in HoldCalls, HoldRunning(e)'
                   PROVE  holdCall'[e].id # AgainId(holdCall[d].n)
        OBVIOUS
      <4>1. CASE e = c
        <5>1. holdCall'[e].id = row.id
          BY <1>7, <1>9, <4>1 DEF HoldRunning
        <5> QED BY <3>1, <3>4, <5>1 DEF Own
      <4>2. CASE e # c
        BY <1>13, <3>1, <4>2 DEF Own
      <4> QED BY <4>1, <4>2
    <3>6. Past(holdCall[d].id)' /\ holdCall[d].n <= holdUsed'.calls
      <4>1. holdCall[d].n \in Nat /\ holdCall[d].id \in Nat
        BY <3>1, Ids DEF HoldCallT
      <4> QED BY <1>2, <1>3, <1>4, <1>a, <3>1, <4>1 DEF Own
    <3>7. Own(d)'
      BY <1>1, <3>1, <3>3, <3>4, <3>5, <3>6 DEF Own
    <3>8. row.hold = holdCall[d].n => row.id \in holdCall[d].mine /\ row.for = holdCall[d].for
      <4>1. CASE holdRecord = NoHoldRecord
        BY <1>5, <3>1, <4>1, Ids DEF NoHoldRecord, NoHold
      <4>2. CASE holdRecord # NoHoldRecord
        BY <1>b, <3>1, <4>2 DEF HoldKept
      <4> QED BY <4>1, <4>2
    <3>9. HoldKept(d)'
      BY <1>1, <1>5, <3>1, <3>8 DEF HoldKept
    <3> QED BY <3>7, <3>9
  <2> QED BY <2>1, <2>2
<1> QED BY <1>10, <1>11, <1>12, <1>15, <1>17 DEF HoldInv

LEMMA HoldNextIInv == ASSUME MaxHoldCalls \in Nat, HoldInv, [HoldNext]_holdVars PROVE HoldInv'
<1>1. CASE UNCHANGED holdVars
  <2>1. holdRecord' = holdRecord /\ hold' = hold /\ holdCall' = holdCall /\ holdAnswered' = holdAnswered /\ holdUsed' = holdUsed
    BY <1>1 DEF holdVars
  <2>2. \A c \in HoldCalls : HoldRunning(c)' <=> HoldRunning(c)
    BY <2>1 DEF HoldRunning
  <2>3. HoldTyped' /\ CallsApart' /\ OneAnswer' /\ HoldRecorded' /\ \A i : Past(i)' <=> Past(i)
    BY <2>1, <2>2 DEF HoldInv, HoldTyped, CallsApart, OneAnswer, HoldRecorded, Past
  <2>4. \A c \in HoldCalls : Own(c)' /\ HoldKept(c)'
    BY <2>1, <2>2, <2>3 DEF HoldInv, Own, HoldKept, AgainId
  <2> QED BY <2>3, <2>4 DEF HoldInv
<1>2. ASSUME NEW c \in HoldCalls, NEW r \in HoldTimes, HoldClaim(c, r) PROVE HoldInv'
  BY <1>2, HoldClaimIInv
<1>3. ASSUME NEW c \in HoldCalls, Place(c) PROVE HoldInv'
  BY <1>3, PlaceIInv
<1>4. ASSUME NEW c \in HoldCalls, Bind(c) PROVE HoldInv'
  BY <1>4, BindIInv
<1>5. ASSUME NEW c \in HoldCalls, HoldRefused(c) PROVE HoldInv'
  BY <1>5, RefusedIInv
<1>6. ASSUME NEW c \in HoldCalls, Drop(c) PROVE HoldInv'
  BY <1>6, DropIInv
<1>7. ASSUME NEW c \in HoldCalls, Store(c) PROVE HoldInv'
  BY <1>7, StoreIInv
<1>8. ASSUME NEW c \in HoldCalls, Reopen(c) PROVE HoldInv'
  BY <1>8, ReopenIInv
<1>9. ASSUME NEW c \in HoldCalls, StoreAgain(c) PROVE HoldInv'
  BY <1>9, StoreAgainIInv
<1>10. ASSUME NEW c \in HoldCalls, ReadBack(c) PROVE HoldInv'
  BY <1>10, ReadBackIInv
<1>11. ASSUME NEW c \in HoldCalls, Undo(c) PROVE HoldInv'
  BY <1>11, UndoIInv
<1>12. ASSUME NEW c \in HoldCalls, HoldDies(c) PROVE HoldInv'
  BY <1>12, HoldDiesIInv
<1>13. ASSUME NEW n \in Numbers, Lapse(n) PROVE HoldInv'
  BY <1>13, LapseIInv
<1> QED BY <1>1, <1>2, <1>3, <1>4, <1>5, <1>6, <1>7, <1>8, <1>9, <1>10, <1>11, <1>12, <1>13 DEF HoldNext

-----------------------------------------------------------------------------
(* The strengthening holds of every behaviour (keyedWrite around hold_slot). *)
THEOREM HoldInductive == ASSUME MaxHoldCalls \in Nat PROVE HoldSpec => []HoldInv
<1>1. HoldInit => HoldInv
  BY HoldInitIInv
<1>2. HoldInv /\ [HoldNext]_holdVars => HoldInv'
  BY HoldNextIInv
<1> QED BY <1>1, <1>2, PTL DEF HoldSpec

(* A hold handed out is never given back by the attempt that placed it       *)
(* (AnsweredHoldStands), whatever replies are lost and wherever one dies.  *)
THEOREM HoldStands == ASSUME MaxHoldCalls \in Nat PROVE HoldSpec => []AnsweredHoldStands
<1>1. HoldInv => AnsweredHoldStands
  BY DEF HoldInv, AnsweredHoldStands, OneAnswer, HoldRecorded
<1> QED BY <1>1, HoldInductive, PTL

(* All the attempts with one key that are told of a hold are told of the same. *)
THEOREM OneHoldPerKey == ASSUME MaxHoldCalls \in Nat
                         PROVE  HoldSpec => [](\A m, n \in holdAnswered : m = n)
<1>1. HoldInv => \A m, n \in holdAnswered : m = n
  BY DEF HoldInv, OneAnswer
<1> QED BY <1>1, HoldInductive, PTL

-----------------------------------------------------------------------------
(* NoStrayHold.  A hold that keeps a time is the one stored, or an attempt  *)
(* that has yet to store it or to give it back is under way.               *)
Undoable == {"bind", "store", "reopen", "storeAgain", "readBack", "undo"}
Backed(n) ==
    \/ holdRecord.hold = n
    \/ \E c \in HoldCalls : holdCall[c].n = n /\ holdCall[c].pc \in Undoable
Backing == holdCut \/ \A n \in Numbers : hold[n].status = "live" => Backed(n)

(* An attempt moves on, or ends: the hold it placed, or had to care for, is  *)
(* still its own care, stored or gone, and it touches no other.            *)
LEMMA BackingStep ==
  ASSUME HoldInv, Backing, NEW c \in HoldCalls, NEW q,
         holdCall' = [holdCall EXCEPT ![c] = q],
         holdCut' = holdCut, holdRecord.hold # NoHold => holdRecord'.hold = holdRecord.hold,
         \A n \in Numbers : hold'[n].status = "live" => hold[n].status = "live" \/ n = holdCall[c].n,
         ASSUME NEW n \in Numbers, n = holdCall[c].n, hold'[n].status = "live",
                holdCall[c].pc \in Undoable \/ hold[n].status # "live"
         PROVE  (q.n = n /\ q.pc \in Undoable) \/ holdRecord'.hold = n
  PROVE  Backing'
<1> SUFFICES ASSUME ~ holdCut, NEW n \in Numbers, hold'[n].status = "live" PROVE Backed(n)'
  BY DEF Backing, Numbers
<1>1. \A d \in HoldCalls : holdCall'[d] = IF d = c THEN q ELSE holdCall[d]
  BY DEF HoldInv, HoldTyped
<1>2. CASE n = holdCall[c].n /\ (holdCall[c].pc \in Undoable \/ hold[n].status # "live")
  BY <1>1, <1>2 DEF Backed
<1>3. CASE ~ (n = holdCall[c].n /\ (holdCall[c].pc \in Undoable \/ hold[n].status # "live"))
  <2>1. Backed(n)
    BY <1>3 DEF Backing
  <2>2. n # NoHold
    BY DEF Numbers, NoHold
  <2> QED BY <1>1, <1>3, <2>1, <2>2 DEF Backed
<1> QED BY <1>2, <1>3

(* An attempt that only moves on, within the steps that care for its hold, *)
(* or before it has one.                                                   *)
LEMMA BackingTo ==
  ASSUME HoldInv, Backing, NEW c \in HoldCalls, NEW q, holdCall' = [holdCall EXCEPT ![c] = q],
         holdCut' = holdCut, hold' = hold,
         holdRecord' = holdRecord \/ holdRecord.hold = NoHold,
         holdCall[c].pc \in Undoable =>
            (q.n = holdCall[c].n /\ q.pc \in Undoable) \/ holdRecord'.hold = holdCall[c].n
  PROVE  Backing'
<1>1. holdRecord.hold # NoHold => holdRecord'.hold = holdRecord.hold
  OBVIOUS
<1>2. \A n \in Numbers : hold'[n].status = "live" => hold[n].status = "live" \/ n = holdCall[c].n
  OBVIOUS
<1>3. ASSUME NEW n \in Numbers, n = holdCall[c].n, hold'[n].status = "live",
             holdCall[c].pc \in Undoable \/ hold[n].status # "live"
      PROVE  (q.n = n /\ q.pc \in Undoable) \/ holdRecord'.hold = n
  BY <1>3
<1> QED
  BY <1>1, <1>2, <1>3, BackingStep

LEMMA BackingClaim ==
  ASSUME HoldInv, Backing, NEW c \in HoldCalls, NEW r \in HoldTimes, HoldClaim(c, r)
  PROVE  Backing'
<1>1. /\ holdCall[c].pc = "idle" /\ hold' = hold /\ holdCut' = holdCut
      /\ holdRecord' = holdRecord \/ holdRecord.hold = NoHold
  BY DEF HoldClaim, NoHoldRecord
<1>2. \E q : holdCall' = [holdCall EXCEPT ![c] = q]
  BY DEF HoldClaim, HoldAnswers
<1> QED BY <1>1, <1>2, BackingTo DEF Undoable

LEMMA BackingPlace == ASSUME HoldInv, Backing, NEW c \in HoldCalls, Place(c) PROVE Backing'
<1>1. holdCall[c].pc = "place" /\ holdRecord' = holdRecord /\ holdCut' = holdCut
  BY DEF Place
<1>2. CASE HoldTo(c, "refused") /\ hold' = hold
  BY <1>1, <1>2, BackingTo DEF HoldTo, Undoable
<1>3. CASE /\ HoldTo(c, "bind")
           /\ hold' = [hold EXCEPT ![holdCall[c].n] = [for |-> holdCall[c].for, status |-> "live"]]
  <2> DEFINE q == [holdCall[c] EXCEPT !.pc = "bind"]
  <2>1. holdCall' = [holdCall EXCEPT ![c] = q]
    BY <1>3 DEF HoldTo
  <2>2. q.pc = "bind" /\ q.n = holdCall[c].n
    BY DEF HoldInv, HoldTyped, HoldCallT
  <2>3. \A n \in Numbers : n # holdCall[c].n => hold'[n] = hold[n]
    BY <1>3 DEF HoldInv, HoldTyped, HoldT
  <2> HIDE DEF q
  <2> QED BY <1>1, <2>1, <2>2, <2>3, BackingStep DEF Undoable
<1> QED BY <1>2, <1>3 DEF Place

(* The two ways a hold is given back. *)
LEMMA GivenBackIsGone ==
  ASSUME HoldInv, NEW c \in HoldCalls, hold' = GivenBack(holdCall[c].n)
  PROVE  \A n \in Numbers : /\ hold'[n].status = "live" => hold[n].status = "live"
                            /\ n = holdCall[c].n => hold'[n].status # "live"
  BY DEF GivenBack, HoldInv, HoldTyped, HoldT

LEMMA BackingBind == ASSUME HoldInv, Backing, NEW c \in HoldCalls, Bind(c) PROVE Backing'
<1>1. holdCall[c].pc = "bind" /\ holdRecord' = holdRecord /\ holdCut' = holdCut
  BY DEF Bind
<1>2. CASE HoldTo(c, "store") /\ hold' = hold
  <2>1. [holdCall[c] EXCEPT !.pc = "store"].pc = "store" /\ [holdCall[c] EXCEPT !.pc = "store"].n = holdCall[c].n
    BY DEF HoldInv, HoldTyped, HoldCallT
  <2> QED BY <1>1, <1>2, <2>1, BackingTo DEF HoldTo, Undoable
<1>3. CASE hold' = GivenBack(holdCall[c].n) /\ HoldTo(c, "refused")
  <2> DEFINE q == [holdCall[c] EXCEPT !.pc = "refused"]
  <2>1. holdCall' = [holdCall EXCEPT ![c] = q]
    BY <1>3 DEF HoldTo, HoldInv, HoldTyped
  <2> HIDE DEF q
  <2>2. \A n \in Numbers : /\ hold'[n].status = "live" => hold[n].status = "live"
                           /\ n = holdCall[c].n => hold'[n].status # "live"
    BY <1>3, GivenBackIsGone
  <2>3. ASSUME NEW n \in Numbers, n = holdCall[c].n, hold'[n].status = "live",
               holdCall[c].pc \in Undoable \/ hold[n].status # "live"
        PROVE  (q.n = n /\ q.pc \in Undoable) \/ holdRecord'.hold = n
    BY <2>2, <2>3
  <2>4. \A n \in Numbers : hold'[n].status = "live" => hold[n].status = "live" \/ n = holdCall[c].n
    BY <2>2
  <2>5. holdCut' = holdCut /\ (holdRecord.hold # NoHold => holdRecord'.hold = holdRecord.hold)
    BY <1>1
  <2> QED
    BY <2>1, <2>3, <2>4, <2>5, BackingStep
<1> QED BY <1>2, <1>3 DEF Bind

LEMMA BackingRefused ==
  ASSUME HoldInv, Backing, NEW c \in HoldCalls, HoldRefused(c) \/ Drop(c)
  PROVE  Backing'
<1>1. /\ holdCall[c].pc \in {"refused", "drop"} /\ hold' = hold /\ holdCut' = holdCut
      /\ holdRecord' = holdRecord \/ holdRecord.hold = NoHold
      /\ \E q : holdCall' = [holdCall EXCEPT ![c] = q]
  BY DEF HoldRefused, Drop, Droppable, OpenRecord, HoldAnswers, HoldTo
<1> QED BY <1>1, BackingTo DEF Undoable

(* Moving on with the hold. *)
LEMMA BackingKeeps ==
  ASSUME HoldInv, Backing, NEW c \in HoldCalls, NEW pc \in Undoable,
         HoldTo(c, pc) \/ \E h : holdCall' = [holdCall EXCEPT ![c].pc = pc, ![c].gets = h],
         holdCut' = holdCut, hold' = hold, holdRecord' = holdRecord \/ holdRecord.hold = NoHold
  PROVE  Backing'
<1>1. holdCall[c] \in HoldCallT
  BY DEF HoldInv, HoldTyped
<1>2. CASE HoldTo(c, pc)
  <2> DEFINE q == [holdCall[c] EXCEPT !.pc = pc]
  <2>1. holdCall' = [holdCall EXCEPT ![c] = q]
    BY <1>2 DEF HoldTo
  <2>2. q.n = holdCall[c].n /\ q.pc = pc
    BY <1>1 DEF HoldCallT
  <2> HIDE DEF q
  <2> QED BY <2>1, <2>2, BackingTo
<1>3. ASSUME NEW h, holdCall' = [holdCall EXCEPT ![c].pc = pc, ![c].gets = h] PROVE Backing'
  <2> DEFINE q == [holdCall[c] EXCEPT !.pc = pc, !.gets = h]
  <2>1. holdCall' = [holdCall EXCEPT ![c] = q]
    BY <1>1, <1>3 DEF HoldCallT, HoldInv, HoldTyped
  <2>2. q.n = holdCall[c].n /\ q.pc = pc
    BY <1>1 DEF HoldCallT
  <2> HIDE DEF q
  <2> QED BY <2>1, <2>2, BackingTo
<1> QED BY <1>2, <1>3

LEMMA BackingStoreOn ==
  ASSUME HoldInv, Backing, NEW c \in HoldCalls, NEW id, NEW otherwise \in Undoable, StoreOn(c, id, otherwise)
  PROVE  Backing'
<1>1. hold' = hold /\ holdCut' = holdCut
  BY DEF StoreOn
<1>2. CASE OpenRecord(id) /\ holdRecord' = [holdRecord EXCEPT !.hold = holdCall[c].n] /\ HoldAnswers(c, holdCall[c].n)
  <2>1. holdRecord'.hold = holdCall[c].n /\ holdRecord.hold = NoHold
    BY <1>2 DEF OpenRecord, HoldInv, HoldTyped, RecordT
  <2> QED BY <1>1, <1>2, <2>1, BackingTo DEF HoldAnswers
<1>3. CASE OpenRecord(id) /\ HoldTo(c, "readBack")
  BY <1>1, <1>3, BackingKeeps DEF OpenRecord, Undoable
<1>4. CASE HoldTo(c, "readBack") /\ holdRecord' = holdRecord
  BY <1>1, <1>4, BackingKeeps DEF Undoable
<1>5. CASE HoldTo(c, otherwise) /\ holdRecord' = holdRecord
  BY <1>1, <1>5, BackingKeeps
<1> QED BY <1>2, <1>3, <1>4, <1>5 DEF StoreOn

LEMMA BackingReopen == ASSUME HoldInv, Backing, NEW c \in HoldCalls, Reopen(c) PROVE Backing'
<1>1. /\ hold' = hold /\ holdCut' = holdCut
      /\ holdRecord' = holdRecord \/ holdRecord.hold = NoHold
  BY DEF Reopen, NoHoldRecord
<1>2. ASSUME NEW m, holdCall' = [holdCall EXCEPT ![c].pc = "storeAgain", ![c].mine = m] PROVE Backing'
  <2> DEFINE q == [holdCall[c] EXCEPT !.pc = "storeAgain", !.mine = m]
  <2>1. holdCall[c] \in HoldCallT /\ holdCall' = [holdCall EXCEPT ![c] = q]
    BY <1>2 DEF HoldCallT, HoldInv, HoldTyped
  <2>2. q.n = holdCall[c].n /\ q.pc = "storeAgain"
    BY <2>1 DEF HoldCallT
  <2> HIDE DEF q
  <2> QED BY <1>1, <2>1, <2>2, BackingTo DEF Undoable
<1>3. CASE Undoes(c, NoHold)
  BY <1>1, <1>3, BackingKeeps DEF Undoes, Undoable
<1>4. CASE HoldTo(c, "readBack")
  BY <1>1, <1>4, BackingKeeps DEF Undoable
<1> QED BY <1>2, <1>3, <1>4 DEF Reopen

LEMMA BackingReadBack == ASSUME HoldInv, Backing, NEW c \in HoldCalls, ReadBack(c) PROVE Backing'
<1>1. hold' = hold /\ holdRecord' = holdRecord
  BY DEF ReadBack
<1>2. CASE OnlyReplyLost(c) /\ HoldAnswers(c, holdCall[c].n) /\ holdCut' = holdCut
  BY <1>1, <1>2, BackingTo DEF OnlyReplyLost, HoldAnswers
<1>3. ASSUME NEW h, Undoes(c, h), holdCut' = holdCut PROVE Backing'
  BY <1>1, <1>3, BackingKeeps DEF Undoes, Undoable
<1>4. CASE holdCut' = TRUE
  BY <1>4 DEF Backing
<1> QED BY <1>2, <1>3, <1>4 DEF ReadBack

LEMMA BackingUndo == ASSUME HoldInv, Backing, NEW c \in HoldCalls, Undo(c) PROVE Backing'
<1>1. CASE hold' = GivenBack(holdCall[c].n) /\ holdCut' = holdCut
  BY <1>1, BackingStep, GivenBackIsGone DEF Undo, HoldAnswers
<1>2. CASE holdCut' = TRUE
  BY <1>2 DEF Backing
<1> QED BY <1>1, <1>2 DEF Undo

LEMMA BackingLapse == ASSUME HoldInv, Backing, NEW n \in Numbers, Lapse(n) PROVE Backing'
<1>1. /\ holdRecord' = holdRecord /\ holdCall' = holdCall /\ holdCut' = holdCut
      /\ \A m \in Numbers : hold'[m].status = "live" => hold[m].status = "live"
  BY DEF Lapse, HoldInv, HoldTyped, HoldT
<1> QED BY <1>1 DEF Backing, Backed, Numbers

LEMMA BackingNext == ASSUME HoldInv, Backing, [HoldNext]_holdVars PROVE Backing'
<1>1. CASE UNCHANGED holdVars
  BY <1>1 DEF holdVars, Backing, Backed, Numbers
<1>2. ASSUME NEW c \in HoldCalls, Store(c) \/ StoreAgain(c) PROVE Backing'
  BY <1>2, BackingStoreOn DEF Store, StoreAgain, Undoable
<1>3. ASSUME NEW c \in HoldCalls, HoldDies(c) PROVE Backing'
  BY <1>3 DEF HoldDies, Backing
<1> QED BY <1>1, <1>2, <1>3, BackingClaim, BackingPlace, BackingBind, BackingRefused, BackingReopen,
           BackingReadBack, BackingUndo, BackingLapse DEF HoldNext

(* A hold no attempt could hand out is given back: once none is running and *)
(* none was cut off, a hold that keeps a time is the one the key answers    *)
(* with (NoStrayHold; keyedWrite's clean-up around hold_slot).             *)
THEOREM NoHoldIsLost == ASSUME MaxHoldCalls \in Nat PROVE HoldSpec => []NoStrayHold
<1>1. HoldInit => Backing
  <2> SUFFICES ASSUME HoldInit, NEW n \in Numbers PROVE hold[n].status # "live"
    BY DEF Backing
  <2> QED BY DEF HoldInit, HoldNone
<1>2. HoldInv /\ Backing /\ [HoldNext]_holdVars => Backing'
  BY BackingNext
<1>3. Backing => NoStrayHold
  BY DEF Backing, Backed, NoStrayHold, Undoable
<1> QED BY <1>1, <1>2, <1>3, HoldInductive, PTL DEF HoldSpec

-----------------------------------------------------------------------------
(* The record's id is one some call could open, and what is handed out is a  *)
(* hold some call placed: KeyedHold's type invariant.                      *)
THEOREM HoldTypes == ASSUME MaxHoldCalls \in Nat PROVE HoldSpec => []HoldTypeOK
<1>1. HoldInit => holdCut \in BOOLEAN
  BY DEF HoldInit
<1>2. holdCut \in BOOLEAN /\ [HoldNext]_holdVars => (holdCut \in BOOLEAN)'
  <2> SUFFICES ASSUME holdCut \in BOOLEAN, [HoldNext]_holdVars PROVE holdCut' = holdCut \/ holdCut' = TRUE
    OBVIOUS
  <2>1. CASE UNCHANGED holdVars
    BY <2>1 DEF holdVars
  <2>2. ASSUME NEW c \in HoldCalls, NEW r \in HoldTimes, HoldClaim(c, r) PROVE holdCut' = holdCut
    BY <2>2 DEF HoldClaim
  <2>3. ASSUME NEW c \in HoldCalls,
               \/ Place(c) \/ Bind(c) \/ HoldRefused(c) \/ Drop(c)
               \/ Store(c) \/ Reopen(c) \/ StoreAgain(c)
        PROVE  holdCut' = holdCut
    BY <2>3 DEF Place, Bind, HoldRefused, Drop, Store, Reopen, StoreAgain, StoreOn
  <2>4. ASSUME NEW c \in HoldCalls, ReadBack(c) \/ Undo(c) \/ HoldDies(c)
        PROVE  holdCut' = holdCut \/ holdCut' = TRUE
    BY <2>4 DEF ReadBack, Undo, HoldDies
  <2>5. ASSUME NEW n \in Numbers, Lapse(n) PROVE holdCut' = holdCut
    BY <2>5 DEF Lapse
  <2> QED
    BY <2>1, <2>2, <2>3, <2>4, <2>5 DEF HoldNext
<1>3. HoldInv /\ holdCut \in BOOLEAN => HoldTypeOK
  <2> SUFFICES ASSUME HoldInv, holdCut \in BOOLEAN PROVE HoldTypeOK
    OBVIOUS
  <2>1. /\ holdRecord \in RecordT /\ hold \in HoldT
        /\ holdUsed.calls \in Nat /\ holdUsed.calls <= MaxHoldCalls
    BY DEF HoldInv, HoldTyped
  <2>2. holdRecord.id \in Nat /\ holdRecord.hold \in Nat
    BY <2>1 DEF RecordT
  <2>3. holdRecord.id \in 0 .. AgainId(MaxHoldCalls)
    BY <2>1, <2>2 DEF HoldInv, HoldRecorded, Past, AgainId
  <2>4. holdRecord.hold \in NoHold .. MaxHoldCalls
    BY <2>1, <2>2 DEF HoldInv, HoldRecorded, NoHold
  <2>5. holdAnswered \subseteq Numbers
    BY <2>2, <2>4 DEF HoldInv, OneAnswer, Numbers, NoHold
  <2> QED
    BY <2>1, <2>3, <2>4, <2>5 DEF HoldTypeOK, HoldRecord, RecordT, HoldT
<1>4. HoldSpec => []HoldInv
  BY HoldInductive
<1> QED
  BY <1>1, <1>2, <1>3, <1>4, PTL DEF HoldSpec

=============================================================================
