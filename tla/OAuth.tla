--------------------------------- MODULE OAuth ---------------------------------
(***************************************************************************)
(* The OAuth authorization server of the MCP connector: one table of       *)
(* artifacts (consent tickets, grants and what is shown of them, codes,    *)
(* refresh tokens), used by requests that run at once on any replica.      *)
(* oidc-provider, which calls the adapter, is external: it finds an        *)
(* artifact, refuses a spent one, consumes it, then stores the next.       *)
(* One authorization request is modelled.  Expiry and access tokens        *)
(* (signed, never stored) are left out.                                    *)
(***************************************************************************)
EXTENDS Naturals, Sequences, FiniteSets

CONSTANTS
    OAuthRequests,  \* requests that run at once
    RefreshGrace,   \* refreshGraceMs
    SpentLife,      \* how long a spent refresh token is kept
    MaxTickets, MaxGrants, MaxTokens, MaxOAuthTime, MaxDeaths  \* bounds

VARIABLES
    oauthNow,
    ticket,    \* ConsentTicket rows: "live" or "taken", and the grants each made
    answer,    \* the interaction's result
    grant,     \* Grant rows, and the GrantMeta row beside each
    token,     \* AuthorizationCode and RefreshToken rows
    oauthReq,  \* what each request has read and does next
    deaths

oauthVars == <<oauthNow, ticket, answer, grant, token, oauthReq, deaths>>

-----------------------------------------------------------------------------
Never == MaxOAuthTime + 1
Open == 0       \* no result yet
Refused == MaxGrants + 1

Token == [kind : {"code", "refresh"}, grant : 1 .. MaxGrants, row : BOOLEAN,
          spent : 0 .. Never, from : 0 .. MaxTokens, asof : 0 .. MaxOAuthTime, handed : BOOLEAN]

Idle == [pc |-> "idle", ticket |-> 0, grant |-> 0, token |-> 0, asof |-> 0]

Goes(p, r) == oauthReq' = [oauthReq EXCEPT ![p] = r]
Ends(p) == Goes(p, Idle)
At(p, pc) == oauthReq[p].pc = pc
To(p, pc) == Goes(p, [oauthReq[p] EXCEPT !.pc = pc])

OAuthInit ==
    /\ oauthNow = 0 /\ ticket = <<>> /\ answer = Open
    /\ grant = <<>> /\ token = <<>>
    /\ oauthReq = [p \in OAuthRequests |-> Idle]
    /\ deaths = 0

(* revokeOAuthGrant: every row of the grant. *)
Gone(g) == [grant EXCEPT ![g] = [row |-> FALSE, meta |-> "none"]]
Killed(g) == [t \in DOMAIN token |-> IF token[t].grant = g THEN [token[t] EXCEPT !.row = FALSE]
                                     ELSE token[t]]
Revoke(g) == grant' = Gone(g) /\ token' = Killed(g)

-----------------------------------------------------------------------------
(* Consent. *)

(* decide: a single-use ticket, while the request is unanswered. *)
DecideConsent ==
    /\ answer = Open /\ Len(ticket) < MaxTickets
    /\ ticket' = Append(ticket, [row |-> TRUE, made |-> 0])
    /\ UNCHANGED <<oauthNow, answer, grant, token, oauthReq, deaths>>

(* finish *)
FinishConsent(p, k) ==
    /\ At(p, "idle") /\ answer = Open
    /\ Goes(p, [Idle EXCEPT !.pc = "take", !.ticket = k])
    /\ UNCHANGED <<oauthNow, ticket, answer, grant, token, deaths>>

(* takeOAuthRecord: deleted and returned in one statement. *)
Take(p) ==
    LET k == oauthReq[p].ticket IN
    /\ At(p, "take")
    /\ IF ticket[k].row
       THEN ticket' = [ticket EXCEPT ![k].row = FALSE] /\ To(p, "approve")
       ELSE UNCHANGED ticket /\ Ends(p)
    /\ UNCHANGED <<oauthNow, answer, grant, token, deaths>>

(* Mutant of AfterGrant: the client is answered before the meta row is written. *)
AfterGrantAnswer == "answer"

AfterGrant == "meta"

(* grant.save, by who may still approve; else the request is refused. *)
SaveGrant(p) ==
    LET k == oauthReq[p].ticket IN
    /\ At(p, "approve")
    /\ \/ /\ Len(grant) < MaxGrants
          /\ grant' = Append(grant, [row |-> TRUE, meta |-> "none"])
          /\ ticket' = [ticket EXCEPT ![k].made = @ + 1]
          /\ Goes(p, [oauthReq[p] EXCEPT !.pc = AfterGrant, !.grant = Len(grant) + 1])
          /\ UNCHANGED answer
       \/ answer' = Refused /\ Ends(p) /\ UNCHANGED <<grant, ticket>>
    /\ UNCHANGED <<oauthNow, token, deaths>>

(* The GrantMeta row, what Connected apps shows; a grant that cannot get one *)
(* is revoked.                                                             *)
SaveMeta(p) ==
    LET g == oauthReq[p].grant IN
    /\ At(p, "meta")
    /\ \/ /\ grant' = [grant EXCEPT ![g].meta = "shown"]
          /\ To(p, "answer") /\ UNCHANGED <<answer, token>>
       \/ Revoke(g) /\ answer' = Refused /\ Ends(p)
    /\ UNCHANGED <<oauthNow, ticket, deaths>>

(* interactionFinished: the last result stands. *)
Answer(p) ==
    /\ At(p, "answer")
    /\ answer' = oauthReq[p].grant
    /\ Ends(p)
    /\ UNCHANGED <<oauthNow, ticket, grant, token, deaths>>

-----------------------------------------------------------------------------
(* Issuing: stored first, and deleted again if the grant is gone by then. *)

Issue(p, kind, g, from, asof) ==
    /\ Len(token) < MaxTokens
    /\ token' = Append(token, [kind |-> kind, grant |-> g, row |-> TRUE, spent |-> Never,
                               from |-> from, asof |-> asof, handed |-> FALSE])
    /\ Goes(p, [Idle EXCEPT !.pc = "check", !.token = Len(token) + 1, !.grant = g])

(* The authorization resumes, and destroys the interaction. *)
Resume(p) ==
    /\ At(p, "idle") /\ answer \in 1 .. MaxGrants
    /\ Issue(p, "code", answer, 0, oauthNow)
    /\ answer' = Refused
    /\ UNCHANGED <<oauthNow, ticket, grant, deaths>>

(* Mutant of Checked: the grant is not looked at again. *)
CheckedNot(g) == TRUE

Checked(g) == grant[g].row

Check(p) ==
    LET t == oauthReq[p].token IN
    /\ At(p, "check")
    /\ IF Checked(oauthReq[p].grant)
       THEN /\ token' = [token EXCEPT ![t].handed = TRUE]
            /\ \/ token[t].kind = "refresh" /\ To(p, "touch")
               \/ Ends(p)
       ELSE /\ token' = [token EXCEPT ![t].row = FALSE]
            /\ Ends(p)
    /\ UNCHANGED <<oauthNow, ticket, answer, grant, deaths>>

(* noteUse, touchGrant: read, then written back by upsert. *)
Touch(p) ==
    /\ At(p, "touch")
    /\ IF grant[oauthReq[p].grant].meta = "none" THEN Ends(p) ELSE To(p, "touching")
    /\ UNCHANGED <<oauthNow, ticket, answer, grant, token, deaths>>

(* A row gone meanwhile comes back, with no account to show it to. *)
Touching(p) ==
    /\ At(p, "touching")
    /\ grant' = [grant EXCEPT ![oauthReq[p].grant].meta = IF @ = "none" THEN "nobody's" ELSE @]
    /\ Ends(p)
    /\ UNCHANGED <<oauthNow, ticket, answer, token, deaths>>

-----------------------------------------------------------------------------
(* A code or a refresh token is presented. *)

InGrace(t) ==
    token[t].kind = "refresh" /\ RefreshGrace > 0 /\ oauthNow - token[t].spent <= RefreshGrace

ReadsSpent(t) == token[t].spent # Never /\ ~ InGrace(t)

(* find: a spent one, past any grace, ends its whole grant. *)
Present(p, t) ==
    /\ At(p, "idle") /\ token[t].handed
    /\ token[t].row /\ grant[token[t].grant].row
    /\ IF ReadsSpent(t)
       THEN Revoke(token[t].grant) /\ UNCHANGED oauthReq
       ELSE /\ Goes(p, [Idle EXCEPT !.pc = "consume", !.token = t])
            /\ UNCHANGED <<grant, token>>
    /\ UNCHANGED <<oauthNow, ticket, answer, deaths>>

(* Mutant of Claimable: whoever asks spends it. *)
ClaimableAlways(t) == token[t].row

Claimable(t) == token[t].row /\ token[t].spent = Never

(* consume: claimOAuthRecord, spent by one caller only. *)
Consume(p) ==
    LET t == oauthReq[p].token IN
    /\ At(p, "consume")
    /\ IF Claimable(t)
       THEN /\ token' = [token EXCEPT ![t].spent = oauthNow]
            /\ Goes(p, [oauthReq[p] EXCEPT !.pc = "issue", !.asof = oauthNow])
       ELSE UNCHANGED token /\ To(p, "lost")
    /\ UNCHANGED <<oauthNow, ticket, answer, grant, deaths>>

(* Mutant of SpentAgain: the replay counts as the token's use. *)
SpentAgainNow(t) == [token EXCEPT ![t].spent = oauthNow]

SpentAgain(t) == token

(* Spent meanwhile: a retry within the grace, or a second use. *)
Lost(p) ==
    LET t == oauthReq[p].token IN
    /\ At(p, "lost")
    /\ \/ /\ ~ token[t].row
          /\ Ends(p) /\ UNCHANGED <<grant, token>>
       \/ /\ token[t].row /\ token[t].spent # Never /\ InGrace(t)
          /\ token' = SpentAgain(t)
          /\ Goes(p, [oauthReq[p] EXCEPT !.pc = "issue", !.asof = oauthNow]) /\ UNCHANGED grant
       \/ /\ token[t].row /\ ~ (token[t].spent # Never /\ InGrace(t))
          /\ Revoke(token[t].grant) /\ Ends(p)
    /\ UNCHANGED <<oauthNow, ticket, answer, deaths>>

Rotate(p) ==
    LET t == oauthReq[p].token IN
    /\ At(p, "issue")
    /\ Issue(p, "refresh", token[t].grant, t, oauthReq[p].asof)
    /\ UNCHANGED <<oauthNow, ticket, answer, grant, deaths>>

-----------------------------------------------------------------------------
(* Revoked from the dashboard by whose row says so (revokeGrant), or by the *)
(* client, presenting a refresh token (destroy).                           *)
Disconnect ==
    \E g \in DOMAIN grant :
        /\ \/ grant[g].meta = "shown"
           \/ \E t \in DOMAIN token : /\ token[t].grant = g /\ token[t].kind = "refresh"
                                      /\ token[t].row /\ token[t].handed
        /\ Revoke(g)
        /\ UNCHANGED <<oauthNow, ticket, answer, oauthReq, deaths>>

(* purgeOAuthRecords *)
Purgeable(t) ==
    token[t].kind = "refresh" /\ token[t].spent # Never /\ token[t].spent + SpentLife < oauthNow

Purge ==
    /\ \E t \in DOMAIN token : token[t].row /\ Purgeable(t)
    /\ token' = [t \in DOMAIN token |-> IF Purgeable(t) THEN [token[t] EXCEPT !.row = FALSE]
                                        ELSE token[t]]
    /\ UNCHANGED <<oauthNow, ticket, answer, grant, oauthReq, deaths>>

(* The process of a request dies. *)
RequestDies(p) ==
    /\ ~ At(p, "idle") /\ deaths < MaxDeaths
    /\ deaths' = deaths + 1
    /\ Ends(p)
    /\ UNCHANGED <<oauthNow, ticket, answer, grant, token>>

OAuthTick ==
    /\ oauthNow < MaxOAuthTime
    /\ oauthNow' = oauthNow + 1
    /\ UNCHANGED <<ticket, answer, grant, token, oauthReq, deaths>>

OAuthNext ==
    \/ DecideConsent \/ Disconnect \/ Purge \/ OAuthTick
    \/ \E p \in OAuthRequests :
        \/ \E k \in DOMAIN ticket : FinishConsent(p, k)
        \/ Take(p) \/ SaveGrant(p) \/ SaveMeta(p) \/ Answer(p)
        \/ Resume(p) \/ Check(p) \/ Touch(p) \/ Touching(p)
        \/ \E t \in DOMAIN token : Present(p, t)
        \/ Consume(p) \/ Lost(p) \/ Rotate(p)
        \/ RequestDies(p)

OAuthSpec == OAuthInit /\ [][OAuthNext]_oauthVars

-----------------------------------------------------------------------------
(* Properties. *)

OAuthTypeOK ==
    /\ oauthNow \in 0 .. MaxOAuthTime
    /\ ticket \in Seq([row : BOOLEAN, made : Nat]) /\ answer \in Open .. Refused
    /\ grant \in Seq([row : BOOLEAN, meta : {"none", "shown", "nobody's"}])
    /\ token \in Seq(Token)
    /\ deaths \in 0 .. MaxDeaths

(* A code yields one refresh token, and a consent ticket one grant, however *)
(* many requests present it at once.                                       *)
UsedOnce ==
    /\ \A t, u \in DOMAIN token :
           t # u /\ token[t].from = token[u].from /\ token[t].from # 0
               => token[token[t].from].kind = "refresh"
    /\ \A k \in DOMAIN ticket : ticket[k].made <= 1

(* The grace runs from a refresh token's first use: what it yields later is *)
(* asked for within it, so that replaying inside the grace extends nothing. *)
GraceFromFirstUse ==
    \A t, u \in DOMAIN token :
        token[t].from = token[u].from /\ token[t].from # 0
            => token[t].asof <= token[u].asof + RefreshGrace

(* Nothing a client was given outlives its grant, whichever of the          *)
(* revocation and the issuing comes first; and nothing else does, but what *)
(* a request is still to look at or left when it died.                     *)
NothingOutlivesItsGrant ==
    \A t \in DOMAIN token :
        token[t].row /\ ~ grant[token[t].grant].row =>
            /\ ~ token[t].handed
            /\ deaths > 0 \/ \E p \in OAuthRequests : At(p, "check") /\ oauthReq[p].token = t

(* A connection somebody holds a code or a refresh token of can be seen, and *)
(* so disconnected, though the process died before all of it was written.  *)
NoHiddenConnection ==
    \A t \in DOMAIN token : token[t].row /\ token[t].handed => grant[token[t].grant].meta = "shown"
=============================================================================
