------------------------------ MODULE WebSession ------------------------------
(***************************************************************************)
(* The dashboard's session: one browser's cookie, the requests its tabs    *)
(* send at once, and the refreshes that keep the session going.  A request *)
(* sees the cookie it was sent with; what it sets reaches the browser with *)
(* its answer.  The identity service (IAM), which rotates refresh tokens,  *)
(* and the API, which checks access tokens, are external.  The local       *)
(* provider, which has nothing to refresh, is left out.                    *)
(***************************************************************************)
EXTENDS Naturals, Sequences

CONSTANTS
    Tabs,
    Life, Skew,  \* an access token's life, and how early the web takes it for expired
    IamGrace,    \* for how long the IAM takes a spent refresh token again
    MaxPairs, MaxSessions, MaxWebTime  \* bounds

(* A token just minted is not yet taken for expired. *)
ASSUME WebTimesAssumption ==
    /\ Life \in Nat /\ Skew \in Nat /\ Skew < Life /\ IamGrace \in Nat
    /\ MaxPairs \in Nat /\ MaxSessions \in Nat /\ MaxWebTime \in Nat

VARIABLES
    webNow,
    broken,   \* "api": it refuses every token; "iam": it mints tokens that are expired
    pair,     \* the pairs minted: the access token's expiry, when the refresh token was spent
    revoked,  \* the upstream sessions ended
    cookie,   \* the pair in the browser's jar
    tab       \* what each tab waits for, and whether it met another cookie than it was refused with

webVars == <<webNow, broken, pair, revoked, cookie, tab>>

-----------------------------------------------------------------------------
NotSpent == MaxWebTime + 1
NoSession == 0
KeepsCookie == MaxPairs + 1     \* an answer that sets no cookie

TokenPair == [session : 1 .. MaxSessions, exp : Nat, spent : 0 .. NotSpent]
Request == [pc : {"idle", "inPlace", "refresh", "logout", "answer"},
            jar : 0 .. MaxPairs, set : 0 .. KeepsCookie, other : BOOLEAN]

TabIdle == [pc |-> "idle", jar |-> NoSession, set |-> KeepsCookie, other |-> FALSE]

TabAt(p, pc) == tab[p].pc = pc
TabGoes(p, pc, jar) ==
    tab' = [tab EXCEPT ![p] = [pc |-> pc, jar |-> jar, set |-> KeepsCookie, other |-> cookie # jar]]
TabAnswers(p, set) ==
    tab' = [tab EXCEPT ![p] = [pc |-> "answer", jar |-> NoSession, set |-> set, other |-> FALSE]]
TabEnds(p) == tab' = [tab EXCEPT ![p] = TabIdle]

WebInit ==
    /\ webNow = 0
    /\ broken \in {{}, {"api"}, {"iam"}}
    /\ pair = <<>> /\ revoked = {} /\ cookie = NoSession
    /\ tab = [p \in Tabs |-> TabIdle]

-----------------------------------------------------------------------------
(* The API and the IAM. *)

MintedLife == IF "iam" \in broken THEN Skew ELSE Life

Accepts(t) == "api" \notin broken /\ webNow < pair[t].exp
AcceptsFresh == "api" \notin broken /\ MintedLife > 0

Minted(s) == [session |-> s, exp |-> webNow + MintedLife, spent |-> NotSpent]
FreshPair == Len(pair) + 1

(* The IAM takes a refresh token once, and again within the grace. *)
Spendable(t) == pair[t].session \notin revoked /\ webNow <= pair[t].spent + IamGrace

Spend(t) ==
    /\ Spendable(t) /\ Len(pair) < MaxPairs
    /\ pair' = Append([pair EXCEPT ![t].spent = IF @ = NotSpent THEN webNow ELSE @],
                       Minted(pair[t].session))

(* refreshUpstreamSession: what it learned.  The IAM may be out of reach, or *)
(* spend the token and its answer be lost.                                 *)
RefreshUpstream(t, outcome) ==
    \/ outcome = "refreshed" /\ t # NoSession /\ Spend(t)
    \/ /\ outcome = "expired" /\ UNCHANGED pair
       /\ t # NoSession => ~ Spendable(t)
    \/ /\ outcome = "unavailable" /\ t # NoSession
       /\ UNCHANGED pair \/ Spend(t)

Outcomes == {"refreshed", "expired", "unavailable"}

(* Mutant of SignsOut: an IAM that does not answer is taken for a refusal. *)
SignsOutUnlessFresh(outcome) == outcome # "refreshed"

SignsOut(outcome) == outcome = "expired"

(* accessTokenExpired *)
Expired(t) == webNow + Skew >= pair[t].exp

(* The cookie is cleared with the answer; the revoke may fail. *)
SignOutAndRedirect(p, t) ==
    /\ TabAnswers(p, NoSession)
    /\ \/ t # NoSession /\ revoked' = revoked \cup {pair[t].session}
       \/ UNCHANGED revoked

-----------------------------------------------------------------------------
(* /api/auth/callback: a new upstream session. *)
SignIn(p, s) ==
    /\ TabAt(p, "idle") /\ Len(pair) < MaxPairs
    /\ \A t \in DOMAIN pair : pair[t].session < s
    /\ pair' = Append(pair, Minted(s))
    /\ TabAnswers(p, FreshPair)
    /\ UNCHANGED <<webNow, broken, revoked, cookie>>

(* signOutAction, and the sign-out link. *)
SignOut(p) ==
    /\ TabAt(p, "idle") /\ cookie # NoSession
    /\ SignOutAndRedirect(p, cookie)
    /\ UNCHANGED <<webNow, broken, pair, cookie>>

(* A host call the API refuses: a render, which cannot set cookies, is sent *)
(* to the refresh route, an action refreshes in place.                     *)
TabRefused(p) ==
    /\ TabAt(p, "idle") /\ cookie # NoSession /\ ~ Accepts(cookie)
    /\ TabGoes(p, "refresh", cookie) \/ TabGoes(p, "inPlace", cookie)
    /\ UNCHANGED <<webNow, broken, pair, revoked, cookie>>

(* refreshOrSignOut in an action, and the one retry.  The probe for a       *)
(* writable cookie has set the old one again.                              *)
RefreshInPlace(p) ==
    LET t == tab[p].jar IN
    /\ TabAt(p, "inPlace")
    /\ \E outcome \in Outcomes :
        /\ RefreshUpstream(t, outcome)
        /\ \/ SignsOut(outcome) /\ SignOutAndRedirect(p, t)
           \/ /\ outcome = "unavailable" /\ ~ SignsOut(outcome)
              /\ TabAnswers(p, t) /\ UNCHANGED revoked
           \/ /\ outcome = "refreshed" /\ AcceptsFresh
              /\ TabAnswers(p, FreshPair) /\ UNCHANGED revoked
           \/ outcome = "refreshed" /\ ~ AcceptsFresh /\ SignOutAndRedirect(p, t)
    /\ UNCHANGED <<webNow, broken, cookie>>

(* /api/auth/refresh, with the cookie as it is on arrival.  The page it     *)
(* returns to is another request.                                          *)
RefreshRoute(p) ==
    LET t == cookie IN
    /\ TabAt(p, "refresh")
    /\ \/ /\ t # NoSession /\ ~ Expired(t)
          /\ TabGoes(p, "logout", tab[p].jar) /\ UNCHANGED pair
       \/ /\ t # NoSession => Expired(t)
          /\ \E outcome \in Outcomes :
              /\ RefreshUpstream(t, outcome)
              /\ \/ SignsOut(outcome) /\ TabGoes(p, "logout", tab[p].jar)
                 \/ outcome = "unavailable" /\ ~ SignsOut(outcome) /\ TabEnds(p)
                 \/ outcome = "refreshed" /\ MintedLife > Skew /\ TabAnswers(p, FreshPair)
                 \/ outcome = "refreshed" /\ MintedLife <= Skew /\ TabGoes(p, "logout", tab[p].jar)
    /\ UNCHANGED <<webNow, broken, revoked, cookie>>

(* /api/auth/logout *)
LogoutRoute(p) ==
    /\ TabAt(p, "logout")
    /\ SignOutAndRedirect(p, cookie)
    /\ UNCHANGED <<webNow, broken, pair, cookie>>

(* The answer arrives, in any order with the others', or never. *)
Arrives(p) ==
    /\ TabAt(p, "answer")
    /\ cookie' = IF tab[p].set = KeepsCookie THEN cookie ELSE tab[p].set
    /\ TabEnds(p)
    /\ UNCHANGED <<webNow, broken, pair, revoked>>

Lose(p) ==
    /\ TabAt(p, "answer")
    /\ TabEnds(p)
    /\ UNCHANGED <<webNow, broken, pair, revoked, cookie>>

WebTick ==
    /\ webNow < MaxWebTime
    /\ webNow' = webNow + 1
    /\ UNCHANGED <<broken, pair, revoked, cookie, tab>>

WebNext ==
    \/ \E p \in Tabs :
        \/ \E s \in 1 .. MaxSessions : SignIn(p, s)
        \/ SignOut(p) \/ TabRefused(p) \/ RefreshInPlace(p) \/ RefreshRoute(p)
        \/ LogoutRoute(p) \/ Arrives(p) \/ Lose(p)
    \/ WebTick

WebSpec == WebInit /\ [][WebNext]_webVars

-----------------------------------------------------------------------------
WebTypeOK ==
    /\ webNow \in 0 .. MaxWebTime /\ broken \subseteq {"api", "iam"}
    /\ pair \in Seq(TokenPair) /\ Len(pair) <= MaxPairs
    /\ revoked \subseteq 1 .. MaxSessions /\ cookie \in 0 .. MaxPairs
    /\ tab \in [Tabs -> Request]

(* The IAM has refused t, or would. *)
Dead(t) == t # NoSession /\ ~ Spendable(t)

(* Why p may end a session. *)
Cause(p) ==
    \/ TabAt(p, "idle")                    \* the person signs out
    \/ broken # {}                      \* what was just minted is no good
    \/ Dead(tab[p].jar)
    \/ TabAt(p, "logout") /\ tab[p].other  \* it met another cookie than it was refused with

(* A session ends for a cause only: the person leaves, the IAM refuses its  *)
(* refresh token, a token just minted is refused, or a tab that was refused *)
(* with one cookie comes to the refresh route with another, which another   *)
(* tab stored or cleared.  A token's expiry is none, nor is an IAM that     *)
(* does not answer (auth-session.ts, the refresh route).                   *)
EndsForCause ==
    \A s \in 1 .. MaxSessions :
        s \in revoked' \ revoked => \E p \in Tabs : tab'[p] # tab[p] /\ Cause(p)
EndedForCause == [][EndsForCause]_webVars
=============================================================================
