----------------------------- MODULE OAuthGrants -----------------------------
(* What connectors hold for their users: remembered approvals, authorization   *)
(* codes and token pairs (internal/store/oauth.go, and the token endpoint of   *)
(* internal/server/oauth_token.go).                                            *)
(*                                                                             *)
(* A grant is a client and a user.  An access token and the refresh token      *)
(* minted with it are one pair.  Ending a grant is an UPDATE of the refresh    *)
(* tokens its statement saw, each locked and looked at again in turn, then of  *)
(* the access tokens, then the DELETEs; the writes appear at the commit.       *)
EXTENDS Integers, FiniteSets

CONSTANTS Client, User, Code, Pair, Request, NoOne

ASSUME OAuthAssumption == NoOne \notin Pair \cup Code \cup Client

VARIABLES
    disabled,       \* clients that were revoked
    approved,       \* grants whose approval is remembered
    code,           \* the state of each authorization code
    codeFor,        \* and the grant it is for
    refresh,        \* the state of each refresh token
    access,         \* and of the access token minted with it
    holder,         \* the grant of each pair
    origin,         \* the code its family began with
    parent,         \* the pair it replaced
    at,             \* where each request is
    about,          \* the grant, code or pair it works on
    held,           \* refresh tokens its transaction has locked
    saw,            \* refresh tokens its UPDATE has still to look at
    old             \* history: pairs there were when it began to end a grant

grants == <<disabled, approved>>
codes == <<code, codeFor>>
tokens == <<refresh, access, holder, origin, parent>>
oauthRequests == <<at, about, held, saw, old>>
oauthVars == <<grants, codes, tokens, oauthRequests>>

Grant == Client \X User
NoGrant == <<NoOne, NoOne>>
Nothing == [grant |-> NoGrant, code |-> NoOne, pair |-> NoOne]

OAuthInit ==
    /\ disabled = {} /\ approved = {}
    /\ code = [k \in Code |-> "none"] /\ codeFor = [k \in Code |-> NoGrant]
    /\ refresh = [t \in Pair |-> "none"] /\ access = [t \in Pair |-> "none"]
    /\ holder = [t \in Pair |-> NoGrant]
    /\ origin = [t \in Pair |-> NoOne] /\ parent = [t \in Pair |-> NoOne]
    /\ at = [r \in Request |-> "idle"] /\ about = [r \in Request |-> Nothing]
    /\ held = [r \in Request |-> {}] /\ saw = [r \in Request |-> {}]
    /\ old = [r \in Request |-> {}]

Live(g) == {t \in Pair : holder[t] = g /\ refresh[t] = "live"}
Usable(g) == {t \in Pair : holder[t] = g /\ access[t] = "live"}
Replaced(t) == \E n \in Pair : parent[n] = t
Free(r, t) == \A q \in Request \ {r} : t \notin held[q]

\* A replayed code stays locked while its grant is ended; so do the codes of a
\* client that is being disabled.
Ending == {"disconnect", "disable", "replay", "revoke"}
CodeFree(r, k) ==
    \A q \in Request \ {r} : at[q] \in Ending => about[q].code # k
ClientFree(r, c) ==
    \A q \in Request \ {r} : at[q] = "disable" => about[q].grant[1] # c

Goto(r, label, subject) ==
    /\ at' = [at EXCEPT ![r] = label]
    /\ about' = [about EXCEPT ![r] = subject]

Rest(r) ==
    /\ Goto(r, "idle", Nothing)
    /\ held' = [held EXCEPT ![r] = {}]
    /\ saw' = [saw EXCEPT ![r] = {}]
    /\ old' = [old EXCEPT ![r] = {}]

-------------------------------------------------------------------------------
(* Approving a connector *)

\* CreateOAuthAuthorizationCode remembers the approval and mints a code.  The
\* client was enabled when the authorize endpoint resolved it.
Resolve(r, g) ==
    /\ at[r] = "idle" /\ g[1] \notin disabled
    /\ Goto(r, "consent", [Nothing EXCEPT !.grant = g])
    /\ UNCHANGED <<grants, codes, tokens, held, saw, old>>

Approve(r, k) ==
    /\ at[r] = "consent" /\ code[k] = "none"
    /\ ClientFree(r, about[r].grant[1])
    /\ approved' = approved \cup {about[r].grant}
    /\ code' = [code EXCEPT ![k] = "fresh"]
    /\ codeFor' = [codeFor EXCEPT ![k] = about[r].grant]
    /\ Rest(r)
    /\ UNCHANGED <<disabled, tokens>>

ExpireCode(k) ==
    /\ code[k] = "fresh"
    /\ code' = [code EXCEPT ![k] = "expired"]
    /\ UNCHANGED <<grants, codeFor, tokens, oauthRequests>>

ExpireAccess(t) ==
    /\ access[t] = "live"
    /\ access' = [access EXCEPT ![t] = "expired"]
    /\ UNCHANGED <<grants, codes, refresh, holder, origin, parent, oauthRequests>>

-------------------------------------------------------------------------------
(* The token endpoint *)

\* A client that is not disabled proves its secret first.
Authenticate(r, c) ==
    /\ at[r] = "idle" /\ c \notin disabled
    /\ Goto(r, "authenticated", [Nothing EXCEPT !.grant = <<c, NoOne>>])
    /\ UNCHANGED <<grants, codes, tokens, held, saw, old>>

\* Mutant: the code's row is read without asking whether it was consumed.
ConsumableAgain(k) == code[k] \in {"fresh", "consumed"}

Consumable(k) == code[k] = "fresh"

\* ConsumeOAuthAuthorizationCode claims the code in a transaction of its own.
Consume(r, k) ==
    /\ at[r] = "authenticated" /\ codeFor[k][1] = about[r].grant[1]
    /\ CodeFree(r, k) /\ ClientFree(r, codeFor[k][1])
    /\ Consumable(k)
    /\ code' = [code EXCEPT ![k] = "consumed"]
    /\ Goto(r, "exchange", [grant |-> codeFor[k], code |-> k, pair |-> NoOne])
    /\ UNCHANGED <<grants, codeFor, tokens, held, saw, old>>

\* The redirect URI or the PKCE verifier is wrong: the code stays spent.
Mismatch(r) ==
    /\ at[r] = "exchange"
    /\ Rest(r)
    /\ UNCHANGED <<grants, codes, tokens>>

\* issueOAuthTokens mints a pair.  It clears codes long expired on its way.
Mint(t, g, k, from) ==
    /\ refresh[t] = "none"
    /\ holder' = [holder EXCEPT ![t] = g]
    /\ access' = [access EXCEPT ![t] = "live"]
    /\ origin' = [origin EXCEPT ![t] = k]
    /\ parent' = [parent EXCEPT ![t] = from]

Purge ==
    \E gone \in {{}, {k \in Code : code[k] = "expired"}} :
      code' = [k \in Code |-> IF k \in gone THEN "gone" ELSE code[k]]

IssueTokens(r, t) ==
    /\ at[r] = "exchange"
    /\ Mint(t, about[r].grant, about[r].code, NoOne)
    /\ refresh' = [refresh EXCEPT ![t] = "live"]
    /\ Purge
    /\ Rest(r)
    /\ UNCHANGED <<grants, codeFor>>

\* Mutant: the refresh token is read without FOR UPDATE and not looked at again.
RotatableUnlocked(r, t) == refresh[t] = "live" \/ \E n \in Pair : parent[n] = t

Rotatable(r, t) == Free(r, t) /\ refresh[t] = "live" /\ ~Replaced(t)

\* RotateOAuthRefreshToken locks the token it is shown, finds it live, and reads
\* that its client is enabled, without a lock on the client.
BeginRotation(r, t) ==
    /\ at[r] = "authenticated" /\ holder[t][1] = about[r].grant[1]
    /\ Rotatable(r, t)
    /\ holder[t][1] \notin disabled
    /\ Goto(r, "rotate", [grant |-> holder[t], code |-> NoOne, pair |-> t])
    /\ held' = [held EXCEPT ![r] = {t}]
    /\ UNCHANGED <<grants, codes, tokens, saw, old>>

Rotate(r, n) ==
    /\ at[r] = "rotate"
    /\ LET t == about[r].pair IN
         /\ Mint(n, about[r].grant, origin[t], t)
         /\ refresh' = [refresh EXCEPT ![t] = "revoked", ![n] = "live"]
    /\ Purge
    /\ Rest(r)
    /\ UNCHANGED <<grants, codeFor>>

-------------------------------------------------------------------------------
(* Ending grants *)

Ended(r) ==
    IF at[r] = "disable" THEN {g \in Grant : g[1] = about[r].grant[1]}
                         ELSE {about[r].grant}

\* The UPDATE of refresh tokens begins: it sees the tokens that are live now.
BeginEnd(r, label, subject, gs, locked) ==
    /\ Goto(r, label, subject)
    /\ held' = [held EXCEPT ![r] = locked]
    /\ saw' = [saw EXCEPT ![r] = UNION {Live(g) : g \in gs}]
    /\ old' = [old EXCEPT ![r] = {t \in Pair : holder[t] \in gs}]
    /\ UNCHANGED <<grants, codes, tokens>>

\* DisconnectOAuthGrantForUser: the user ends what a connector holds for them.
Disconnect(r, g) ==
    /\ at[r] = "idle"
    /\ g \in approved \/ Live(g) # {} \/ Usable(g) # {}
    /\ BeginEnd(r, "disconnect", [Nothing EXCEPT !.grant = g], {g}, {})

\* DisableOAuthClientForUser: its owner revokes a client.
Disable(r, c) ==
    /\ at[r] = "idle" /\ c \notin disabled /\ ClientFree(r, c)
    /\ \A k \in Code : codeFor[k][1] = c => CodeFree(r, k)
    /\ BeginEnd(r, "disable", [Nothing EXCEPT !.grant = <<c, NoOne>>],
                {g \in Grant : g[1] = c}, {})

\* A code that was consumed before was replayed: its grant is revoked.
ReplayCode(r, k) ==
    /\ at[r] = "authenticated" /\ codeFor[k][1] = about[r].grant[1]
    /\ CodeFree(r, k) /\ ClientFree(r, codeFor[k][1])
    /\ code[k] = "consumed"
    /\ BeginEnd(r, "replay", [grant |-> codeFor[k], code |-> k, pair |-> NoOne],
                {codeFor[k]}, {})

\* So was a refresh token that has been replaced.
ReplayRefresh(r, t) ==
    /\ at[r] = "authenticated" /\ holder[t][1] = about[r].grant[1]
    /\ Free(r, t) /\ Replaced(t)
    /\ BeginEnd(r, "replay", [Nothing EXCEPT !.grant = holder[t]],
                {holder[t]}, {t})

\* RevokeOAuthToken of a refresh token ends the grant, in whatever state it is.
RevokeRefresh(r, t) ==
    /\ at[r] = "authenticated" /\ holder[t][1] = about[r].grant[1]
    /\ refresh[t] # "none"
    /\ BeginEnd(r, "revoke", [Nothing EXCEPT !.grant = holder[t]], {holder[t]}, {})

RevokeAccess(r, t) ==
    /\ at[r] = "authenticated" /\ holder[t][1] = about[r].grant[1]
    /\ access[t] = "live"
    /\ access' = [access EXCEPT ![t] = "revoked"]
    /\ Rest(r)
    /\ UNCHANGED <<grants, codes, refresh, holder, origin, parent>>

\* A token the UPDATE waited for is skipped when it is no longer live.
LockToken(r, t) ==
    /\ at[r] \in Ending /\ t \in saw[r] /\ Free(r, t)
    /\ saw' = [saw EXCEPT ![r] = @ \ {t}]
    /\ held' = [held EXCEPT ![r] = IF refresh[t] = "live" THEN @ \cup {t} ELSE @]
    /\ UNCHANGED <<grants, codes, tokens, at, about, old>>

\* The UPDATE of access tokens has a snapshot of its own.
\* Mutant: it revokes only the access tokens of the refresh tokens it revoked.
RevokesAccessOfHeld(r, t) == t \in held[r]

RevokesAccess(r, t) == holder[t] \in Ended(r)

RevokeAll(r) ==
    /\ refresh' = [t \in Pair |->
         IF t \in held[r] /\ refresh[t] = "live" THEN "revoked" ELSE refresh[t]]
    /\ access' = [t \in Pair |->
         IF access[t] = "live" /\ RevokesAccess(r, t) THEN "revoked" ELSE access[t]]
    /\ UNCHANGED <<holder, origin, parent>>

\* revokeOAuthGrants leaves the approval and the codes as they are.
CommitRevocation(r) ==
    /\ at[r] \in {"replay", "revoke"} /\ saw[r] = {}
    /\ RevokeAll(r)
    /\ Rest(r)
    /\ UNCHANGED <<grants, codes>>

\* endOAuthGrant and disableOAuthClient drop them.
Drop(r) ==
    /\ approved' = approved \ Ended(r)
    /\ code' = [k \in Code |-> IF codeFor[k] \in Ended(r) THEN "gone" ELSE code[k]]

CommitEnd(r) ==
    /\ at[r] \in {"disconnect", "disable"} /\ saw[r] = {}
    /\ \A k \in Code : codeFor[k] \in Ended(r) => CodeFree(r, k)
    /\ RevokeAll(r)
    /\ Drop(r)
    /\ disabled' = IF at[r] = "disable" THEN disabled \cup {about[r].grant[1]}
                                        ELSE disabled
    /\ Rest(r)
    /\ UNCHANGED codeFor

\* A request stops: it fails, is cancelled, or its transaction is the one a
\* deadlock rolls back.
Abort(r) ==
    /\ at[r] # "idle"
    /\ Rest(r)
    /\ UNCHANGED <<grants, codes, tokens>>

-------------------------------------------------------------------------------
OAuthStep(r) ==
    \/ \E g \in Grant : Resolve(r, g) \/ Disconnect(r, g)
    \/ \E c \in Client : Authenticate(r, c) \/ Disable(r, c)
    \/ \E k \in Code : Approve(r, k) \/ Consume(r, k) \/ ReplayCode(r, k)
    \/ \E t \in Pair :
         \/ IssueTokens(r, t) \/ BeginRotation(r, t) \/ Rotate(r, t)
         \/ ReplayRefresh(r, t) \/ RevokeRefresh(r, t) \/ RevokeAccess(r, t)
         \/ LockToken(r, t)
    \/ Mismatch(r) \/ CommitRevocation(r) \/ CommitEnd(r) \/ Abort(r)

OAuthNext ==
    \/ \E r \in Request : OAuthStep(r)
    \/ \E k \in Code : ExpireCode(k)
    \/ \E t \in Pair : ExpireAccess(t)

OAuthSpec == OAuthInit /\ [][OAuthNext]_oauthVars

-------------------------------------------------------------------------------
OAuthTypeOK ==
    /\ disabled \subseteq Client /\ approved \subseteq Grant
    /\ code \in [Code -> {"none", "fresh", "expired", "consumed", "gone"}]
    /\ codeFor \in [Code -> Grant \cup {NoGrant}]
    /\ refresh \in [Pair -> {"none", "live", "revoked"}]
    /\ access \in [Pair -> {"none", "live", "revoked", "expired"}]
    /\ holder \in [Pair -> Grant \cup {NoGrant}]
    /\ origin \in [Pair -> Code \cup {NoOne}]
    /\ parent \in [Pair -> Pair \cup {NoOne}]
    /\ at \in [Request -> Ending \cup {"idle", "consent", "authenticated",
                                       "exchange", "rotate"}]
    /\ held \in [Request -> SUBSET Pair]
    /\ saw \in [Request -> SUBSET Pair]
    /\ old \in [Request -> SUBSET Pair]

\* However many exchanges and refreshes race, all the tokens that descend from
\* one authorization code have at most one refresh token that still works
\* (FOR UPDATE in ConsumeOAuthAuthorizationCode and RotateOAuthRefreshToken).
OneLiveRefresh ==
    \A t, n \in Pair :
      /\ refresh[t] = "live" /\ refresh[n] = "live"
      /\ origin[t] = origin[n]
      => t = n

\* A disconnect, revocation or detected replay leaves no working token of those
\* that existed when it began, whatever was refreshed meanwhile (endOAuthGrant,
\* disableOAuthClient and revokeOAuthGrants).
EndsAllItFound ==
    [][\A r \in Request :
         (CommitEnd(r) \/ CommitRevocation(r)) =>
           \A t \in old[r] : refresh'[t] # "live" /\ access'[t] # "live"]_oauthVars

\* Once the approval is forgotten, nothing is left that works in its name.
\* OAUTH.md says that disconnecting a connector revokes its tokens and
\* forgets the approval.
ForgottenHoldsNothing ==
    \A g \in Grant \ approved : Live(g) = {} /\ Usable(g) = {}
===============================================================================
