-------------------------- MODULE OAuthGrantsProofs --------------------------
(* Proofs about OAuthGrants: any number of clients, users, codes, tokens and   *)
(* concurrent requests.                                                        *)
EXTENDS OAuthGrants, TLAPS

-------------------------------------------------------------------------------
(* What is true between the transactions *)

Subject == [grant : (Client \cup {NoOne}) \X (User \cup {NoOne}),
            code : Code \cup {NoOne}, pair : Pair \cup {NoOne}]

\* Every request works on what its step says.
SubjectsTyped ==
    /\ about \in [Request -> Subject]
    /\ \A r \in Request :
         /\ at[r] = "consent" => about[r].grant \in Grant
         /\ at[r] \in {"authenticated", "disable"} => about[r].grant \in Client \X {NoOne}
         /\ at[r] \in Ending \ {"disable"} => about[r].grant \in Grant
         /\ at[r] = "exchange" => about[r].grant \in Grant /\ about[r].code \in Code
         /\ at[r] = "rotate" => about[r].grant \in Grant /\ about[r].pair \in Pair

\* A code has its grant, a token its grant and a code that was consumed.
Used(k) == code[k] \in {"consumed", "gone"}
RowsAgree ==
    /\ \A k \in Code : code[k] # "none" => codeFor[k] \in Grant
    /\ \A t \in Pair :
         IF refresh[t] = "none"
           THEN holder[t] = NoGrant
           ELSE holder[t] \in Grant /\ origin[t] \in Code /\ Used(origin[t])

\* A rotation has locked the live token it replaces, and locks exclude.
LocksExclude ==
    /\ \A r, q \in Request : r # q => held[r] \cap held[q] = {}
    /\ \A r \in Request :
         at[r] = "rotate" => about[r].pair \in held[r] /\ refresh[about[r].pair] = "live"

\* An exchange is the only one of its code, and nothing was issued for it.
ExchangedOnce ==
    \A r \in Request :
      at[r] = "exchange" =>
        /\ Used(about[r].code)
        /\ \A q \in Request : at[q] = "exchange" /\ about[q].code = about[r].code => q = r
        /\ \A t \in Pair : refresh[t] # "none" => origin[t] # about[r].code

\* What a request that ends grants found, and has not locked, it has still to see.
FoundStaysFound ==
    \A r \in Request :
      at[r] \in Ending =>
        \A t \in old[r] :
          /\ refresh[t] # "none" /\ holder[t] \in Ended(r)
          /\ refresh[t] = "live" => t \in held[r] \cup saw[r]

OAuthInv ==
    /\ OAuthTypeOK /\ SubjectsTyped /\ RowsAgree
    /\ LocksExclude /\ ExchangedOnce /\ OneLiveRefresh /\ FoundStaysFound

LEMMA OAuthInvInit == OAuthInit => OAuthInv
  BY OAuthAssumption
  DEF OAuthInit, OAuthInv, OAuthTypeOK, SubjectsTyped, RowsAgree, LocksExclude, ExchangedOnce,
      OneLiveRefresh, FoundStaysFound, Subject, Nothing, NoGrant, Ending

-------------------------------------------------------------------------------
(* Parts of steps *)

\* Where a request goes; the others stay where they are.
LEMMA GotoDoes ==
    ASSUME OAuthInv, NEW r \in Request, NEW label, NEW subject, Goto(r, label, subject)
    PROVE  /\ at'[r] = label /\ about'[r] = subject
           /\ \A q \in Request \ {r} : at'[q] = at[q] /\ about'[q] = about[q]
           /\ DOMAIN at' = Request /\ DOMAIN about' = Request
  BY DEF Goto, OAuthInv, OAuthTypeOK, SubjectsTyped

\* A request that ends lets go of everything.
LEMMA RestDoes ==
    ASSUME OAuthInv, NEW r \in Request, Rest(r)
    PROVE  /\ at'[r] = "idle" /\ about'[r] = Nothing
           /\ held'[r] = {} /\ saw'[r] = {} /\ old'[r] = {}
           /\ \A q \in Request \ {r} :
                /\ at'[q] = at[q] /\ about'[q] = about[q]
                /\ held'[q] = held[q] /\ saw'[q] = saw[q] /\ old'[q] = old[q]
           /\ at' \in [Request -> Ending \cup {"idle", "consent", "authenticated",
                                               "exchange", "rotate"}]
           /\ about' \in [Request -> Subject]
           /\ held' \in [Request -> SUBSET Pair]
           /\ saw' \in [Request -> SUBSET Pair]
           /\ old' \in [Request -> SUBSET Pair]
<1>1. Nothing \in Subject
  BY DEF Nothing, NoGrant, Subject
<1> QED
  BY <1>1 DEF Rest, Goto, OAuthInv, OAuthTypeOK, SubjectsTyped

\* How the rows may change while the other requests are under way: a code
\* that was used stays so, a token keeps its grant and never works again, the
\* ones that are being replaced still work, and no code gets tokens that another
\* request is exchanging.
RowsMove(others) ==
    /\ disabled' \subseteq Client /\ approved' \subseteq Grant
    /\ code' \in [Code -> {"none", "fresh", "expired", "consumed", "gone"}]
    /\ codeFor' \in [Code -> Grant \cup {NoGrant}]
    /\ refresh' \in [Pair -> {"none", "live", "revoked"}]
    /\ access' \in [Pair -> {"none", "live", "revoked", "expired"}]
    /\ holder' \in [Pair -> Grant \cup {NoGrant}]
    /\ origin' \in [Pair -> Code \cup {NoOne}]
    /\ parent' \in [Pair -> Pair \cup {NoOne}]
    /\ RowsAgree' /\ OneLiveRefresh'
    /\ \A k \in Code : Used(k) => Used(k)'
    /\ \A t \in Pair : refresh[t] # "none" =>
         /\ refresh'[t] # "none" /\ holder'[t] = holder[t]
         /\ refresh'[t] = "live" => refresh[t] = "live"
    /\ \A q \in others :
         /\ at[q] = "rotate" => refresh'[about[q].pair] = "live"
         /\ at[q] = "exchange" =>
              \A t \in Pair : refresh'[t] # "none" => origin'[t] # about[q].code

LEMMA RestKeeps ==
    ASSUME OAuthInv, NEW r \in Request, Rest(r), RowsMove(Request \ {r}) PROVE OAuthInv'
<1> DEFINE Rested ==
      /\ at'[r] = "idle" /\ about'[r] = Nothing
      /\ held'[r] = {} /\ saw'[r] = {} /\ old'[r] = {}
      /\ \A q \in Request \ {r} :
           /\ at'[q] = at[q] /\ about'[q] = about[q]
           /\ held'[q] = held[q] /\ saw'[q] = saw[q] /\ old'[q] = old[q]
<1>1. Rested /\ about' \in [Request -> Subject]
  BY RestDoes
<1>2. OAuthTypeOK'
  BY RestDoes DEF RowsMove, OAuthTypeOK
<1>3. SubjectsTyped'
  BY <1>1 DEF OAuthInv, SubjectsTyped, Ending
<1>4. LocksExclude'
  BY <1>1 DEF OAuthInv, LocksExclude, RowsMove
<1>5. ExchangedOnce'
  <2> SUFFICES ASSUME NEW q \in Request, at'[q] = "exchange"
               PROVE  /\ Used(about[q].code)'
                      /\ \A o \in Request :
                           at'[o] = "exchange" /\ about'[o].code = about'[q].code => o = q
                      /\ \A t \in Pair : refresh'[t] # "none" => origin'[t] # about'[q].code
    BY DEF ExchangedOnce
  <2>1. q # r /\ at[q] = "exchange" /\ about'[q] = about[q] /\ about[q].code \in Code
    BY <1>1 DEF OAuthInv, SubjectsTyped
  <2>2. Used(about[q].code)'
    BY <2>1 DEF RowsMove, OAuthInv, ExchangedOnce, Used
  <2>3. \A o \in Request : at'[o] = "exchange" /\ about'[o].code = about'[q].code => o = q
    BY <1>1, <2>1 DEF OAuthInv, ExchangedOnce
  <2> QED
    BY <2>1, <2>2, <2>3 DEF RowsMove
<1>6. FoundStaysFound'
  <2> SUFFICES ASSUME NEW q \in Request, at'[q] \in Ending, NEW t \in old'[q]
               PROVE  /\ refresh'[t] # "none" /\ holder'[t] \in Ended(q)'
                      /\ refresh'[t] = "live" => t \in held'[q] \cup saw'[q]
    BY DEF FoundStaysFound
  <2>1. q # r /\ at'[q] = at[q] /\ about'[q] = about[q] /\ held'[q] = held[q]
        /\ saw'[q] = saw[q] /\ old'[q] = old[q]
    BY <1>1 DEF Ending
  <2>2. t \in Pair /\ refresh[t] # "none" /\ holder[t] \in Ended(q)
        /\ (refresh[t] = "live" => t \in held[q] \cup saw[q])
    BY <2>1 DEF OAuthInv, FoundStaysFound, OAuthTypeOK
  <2>3. Ended(q)' = Ended(q)
    BY <2>1 DEF Ended
  <2> QED
    BY <2>1, <2>2, <2>3 DEF RowsMove
<1> QED
  BY <1>2, <1>3, <1>4, <1>5, <1>6 DEF OAuthInv, RowsMove

\* Nothing changes but the requests.
LEMMA RowsStay ==
    ASSUME OAuthInv, UNCHANGED <<grants, codes, tokens>> PROVE RowsMove(Request)
<1> USE DEF grants, codes, tokens
<1>1. RowsAgree' /\ OneLiveRefresh' /\ \A k \in Code : Used(k) => Used(k)'
  BY DEF OAuthInv, RowsAgree, OneLiveRefresh, Used
<1>2. \A q \in Request : at[q] = "rotate" => refresh[about[q].pair] = "live"
  BY DEF OAuthInv, LocksExclude
<1>3. \A q \in Request : at[q] = "exchange" =>
        \A t \in Pair : refresh[t] # "none" => origin[t] # about[q].code
  BY DEF OAuthInv, ExchangedOnce
<1> QED
  BY <1>1, <1>2, <1>3 DEF RowsMove, OAuthInv, OAuthTypeOK

\* A request goes on to a step that neither exchanges, rotates nor ends.
LEMMA GotoKeeps ==
    ASSUME OAuthInv, NEW r \in Request, NEW label \in {"consent", "authenticated"},
           NEW subject \in Subject, Goto(r, label, subject),
           label = "consent" => subject.grant \in Grant,
           label = "authenticated" => subject.grant \in Client \X {NoOne},
           UNCHANGED <<grants, codes, tokens, held, saw, old>>
    PROVE  OAuthInv'
<1> USE DEF grants, codes, tokens
<1>1. /\ at'[r] = label /\ about'[r] = subject
      /\ \A q \in Request \ {r} : at'[q] = at[q] /\ about'[q] = about[q]
  BY GotoDoes
<1>2. OAuthTypeOK'
  BY DEF Goto, OAuthInv, OAuthTypeOK
<1>3. SubjectsTyped'
  <2>1. about' \in [Request -> Subject]
    BY DEF Goto, OAuthInv, SubjectsTyped
  <2> QED
    BY <1>1, <2>1 DEF OAuthInv, SubjectsTyped, Ending
<1>4. RowsAgree' /\ OneLiveRefresh'
  BY DEF OAuthInv, RowsAgree, OneLiveRefresh, Used
<1>5. LocksExclude'
  BY <1>1 DEF OAuthInv, LocksExclude
<1>6. ExchangedOnce'
  BY <1>1 DEF OAuthInv, ExchangedOnce, Used
<1>7. FoundStaysFound'
  <2> SUFFICES ASSUME NEW q \in Request, at'[q] \in Ending, NEW t \in old'[q]
               PROVE  /\ refresh'[t] # "none" /\ holder'[t] \in Ended(q)'
                      /\ refresh'[t] = "live" => t \in held'[q] \cup saw'[q]
    BY DEF FoundStaysFound
  <2>1. q # r
    BY <1>1 DEF Ending
  <2>2. Ended(q)' = Ended(q)
    BY <2>1, <1>1 DEF Ended
  <2> QED
    BY <2>1, <2>2, <1>1 DEF OAuthInv, FoundStaysFound
<1> QED
  BY <1>2, <1>3, <1>4, <1>5, <1>6, <1>7 DEF OAuthInv

\* A request begins to end the grants gs: what it may find is all of them.
LEMMA BeginEndKeeps ==
    ASSUME OAuthInv, NEW r \in Request, NEW label \in Ending, NEW subject \in Subject,
           NEW gs \in SUBSET Grant, NEW locked \in SUBSET Pair,
           \A t \in locked : Free(r, t),
           label = "disable" => subject.grant \in Client \X {NoOne},
           gs = IF label = "disable" THEN {g \in Grant : g[1] = subject.grant[1]}
                                     ELSE {subject.grant},
           BeginEnd(r, label, subject, gs, locked)
    PROVE  OAuthInv'
<1> USE DEF grants, codes, tokens
<1>0. Goto(r, label, subject) /\ UNCHANGED <<grants, codes, tokens>>
  BY DEF BeginEnd
<1>1. /\ at'[r] = label /\ about'[r] = subject
      /\ \A q \in Request \ {r} : at'[q] = at[q] /\ about'[q] = about[q]
  BY <1>0, GotoDoes
<1>2. /\ held'[r] = locked /\ saw'[r] = UNION {Live(g) : g \in gs}
      /\ old'[r] = {t \in Pair : holder[t] \in gs}
      /\ \A q \in Request \ {r} : held'[q] = held[q] /\ saw'[q] = saw[q] /\ old'[q] = old[q]
  BY DEF BeginEnd, OAuthInv, OAuthTypeOK
<1>3. OAuthTypeOK'
  <2>1. UNION {Live(g) : g \in gs} \in SUBSET Pair
    BY DEF Live
  <2>2. /\ at' \in [Request -> Ending \cup {"idle", "consent", "authenticated",
                                            "exchange", "rotate"}]
        /\ held' \in [Request -> SUBSET Pair]
        /\ saw' \in [Request -> SUBSET Pair]
        /\ old' \in [Request -> SUBSET Pair]
    BY <2>1 DEF BeginEnd, Goto, OAuthInv, OAuthTypeOK
  <2> QED
    BY <1>0, <2>2 DEF OAuthInv, OAuthTypeOK
<1>4. SubjectsTyped'
  <2>1. about' \in [Request -> Subject]
    BY <1>0 DEF Goto, OAuthInv, SubjectsTyped
  <2> QED
    BY <1>1, <2>1 DEF OAuthInv, SubjectsTyped, Ending
<1>5. RowsAgree' /\ OneLiveRefresh'
  BY <1>0 DEF OAuthInv, RowsAgree, OneLiveRefresh, Used
<1>6. LocksExclude'
  <2>1. \A q \in Request \ {r} : locked \cap held[q] = {}
    BY DEF Free
  <2> QED
    BY <1>0, <1>1, <1>2, <2>1 DEF OAuthInv, LocksExclude, Ending
<1>7. ExchangedOnce'
  BY <1>0, <1>1 DEF OAuthInv, ExchangedOnce, Used, Ending
<1>8. FoundStaysFound'
  <2> SUFFICES ASSUME NEW q \in Request, at'[q] \in Ending, NEW t \in old'[q]
               PROVE  /\ refresh'[t] # "none" /\ holder'[t] \in Ended(q)'
                      /\ refresh'[t] = "live" => t \in held'[q] \cup saw'[q]
    BY DEF FoundStaysFound
  <2>1. CASE q = r
    <3>1. t \in Pair /\ holder[t] \in gs /\ Ended(q)' = gs
      BY <2>1, <1>1, <1>2 DEF Ended
    <3>2. NoGrant \notin gs
      BY OAuthAssumption DEF NoGrant, Grant
    <3>3. refresh[t] # "none"
      BY <3>1, <3>2 DEF OAuthInv, RowsAgree
    <3>4. refresh[t] = "live" => t \in saw'[r]
      BY <1>2, <3>1 DEF Live
    <3> QED
      BY <2>1, <3>1, <3>3, <3>4, <1>0
  <2>2. CASE q # r
    <3>1. Ended(q)' = Ended(q)
      BY <2>2, <1>1 DEF Ended
    <3> QED
      BY <2>2, <3>1, <1>0, <1>1, <1>2 DEF OAuthInv, FoundStaysFound
  <2> QED
    BY <2>1, <2>2
<1> QED
  BY <1>3, <1>4, <1>5, <1>6, <1>7, <1>8 DEF OAuthInv
\* The rows change and no request does.
LEMMA RowsOnlyKeep ==
    ASSUME OAuthInv, UNCHANGED oauthRequests, RowsMove(Request) PROVE OAuthInv'
<1> USE DEF oauthRequests
<1>1. OAuthTypeOK' /\ SubjectsTyped'
  BY DEF OAuthInv, OAuthTypeOK, SubjectsTyped, RowsMove
<1>2. LocksExclude'
  BY DEF OAuthInv, LocksExclude, RowsMove
<1>3. ExchangedOnce'
  <2>1. \A q \in Request : at[q] = "exchange" => about[q].code \in Code
    BY DEF OAuthInv, SubjectsTyped
  <2>2. \A q \in Request : at[q] = "exchange" => Used(about[q].code)'
    BY <2>1 DEF RowsMove, OAuthInv, ExchangedOnce, Used
  <2> QED
    BY <2>2 DEF RowsMove, OAuthInv, ExchangedOnce
<1>4. FoundStaysFound'
  <2>1. \A q \in Request : Ended(q)' = Ended(q)
    BY DEF Ended
  <2> QED
    BY <2>1 DEF RowsMove, OAuthInv, FoundStaysFound, OAuthTypeOK
<1> QED
  BY <1>1, <1>2, <1>3, <1>4 DEF OAuthInv, RowsMove

\* What a request takes up when all it knows is a grant.
LEMMA SubjectOfGrant ==
    ASSUME NEW g \in (Client \cup {NoOne}) \X (User \cup {NoOne})
    PROVE  /\ [Nothing EXCEPT !.grant = g] \in Subject
           /\ [Nothing EXCEPT !.grant = g].grant = g
  BY DEF Nothing, Subject

LEMMA GrantIsSubject == \A g \in Grant : g \in (Client \cup {NoOne}) \X (User \cup {NoOne})
  BY DEF Grant

-------------------------------------------------------------------------------
(* Approving, exchanging and rotating *)

LEMMA ResolveKeeps ==
    ASSUME OAuthInv, NEW r \in Request, NEW g \in Grant, Resolve(r, g) PROVE OAuthInv'
  BY SubjectOfGrant, GrantIsSubject, GotoKeeps DEF Resolve

LEMMA AuthenticateKeeps ==
    ASSUME OAuthInv, NEW r \in Request, NEW c \in Client, Authenticate(r, c) PROVE OAuthInv'
<1>1. <<c, NoOne>> \in (Client \cup {NoOne}) \X (User \cup {NoOne})
  OBVIOUS
<1> DEFINE subject == [Nothing EXCEPT !.grant = <<c, NoOne>>]
<1>2. subject \in Subject /\ subject.grant \in Client \X {NoOne}
  BY <1>1, SubjectOfGrant
<1>3. Goto(r, "authenticated", subject) /\ UNCHANGED <<grants, codes, tokens, held, saw, old>>
  BY DEF Authenticate
<1> HIDE DEF subject
<1> QED
  BY <1>2, <1>3, GotoKeeps

LEMMA ApproveKeeps ==
    ASSUME OAuthInv, NEW r \in Request, NEW k \in Code, Approve(r, k) PROVE OAuthInv'
<1>1. /\ code' = [code EXCEPT ![k] = "fresh"] /\ code[k] = "none"
      /\ codeFor' = [codeFor EXCEPT ![k] = about[r].grant] /\ about[r].grant \in Grant
      /\ approved' = approved \cup {about[r].grant}
      /\ UNCHANGED <<disabled, refresh, access, holder, origin, parent>>
      /\ Rest(r)
  BY DEF Approve, tokens, OAuthInv, SubjectsTyped
<1>2. \A j \in Code : Used(j) => Used(j)'
  BY <1>1 DEF Used, OAuthInv, OAuthTypeOK
<1>3. RowsAgree' /\ OneLiveRefresh'
  BY <1>1, <1>2 DEF OAuthInv, RowsAgree, OneLiveRefresh, OAuthTypeOK
<1>4. RowsMove(Request \ {r})
  BY <1>1, <1>2, <1>3 DEF RowsMove, OAuthInv, OAuthTypeOK, LocksExclude, ExchangedOnce
<1> QED
  BY <1>1, <1>4, RestKeeps

LEMMA ConsumeKeeps ==
    ASSUME OAuthInv, NEW r \in Request, NEW k \in Code, Consume(r, k) PROVE OAuthInv'
<1> DEFINE subject == [grant |-> codeFor[k], code |-> k, pair |-> NoOne]
<1>1. /\ code' = [code EXCEPT ![k] = "consumed"] /\ code[k] = "fresh"
      /\ Goto(r, "exchange", subject)
      /\ UNCHANGED <<disabled, approved, codeFor, refresh, access, holder, origin, parent,
                     held, saw, old>>
  BY DEF Consume, Consumable, tokens, grants
<1>2. codeFor[k] \in Grant
  BY <1>1 DEF OAuthInv, RowsAgree
<1>3. subject \in Subject /\ subject.grant \in Grant /\ subject.code = k
  BY <1>2, GrantIsSubject DEF Subject
<1> HIDE DEF subject
<1>4. /\ at'[r] = "exchange" /\ about'[r] = subject
      /\ \A q \in Request \ {r} : at'[q] = at[q] /\ about'[q] = about[q]
  BY <1>1, GotoDoes
<1>5. \A j \in Code : Used(j) => Used(j)'
  BY <1>1 DEF Used, OAuthInv, OAuthTypeOK
<1>6. OAuthTypeOK'
  BY <1>1 DEF Goto, OAuthInv, OAuthTypeOK
<1>7. SubjectsTyped'
  <2>1. about' \in [Request -> Subject]
    BY <1>1, <1>3 DEF Goto, OAuthInv, SubjectsTyped
  <2> QED
    BY <1>3, <1>4, <2>1 DEF OAuthInv, SubjectsTyped, Ending
<1>8. RowsAgree' /\ OneLiveRefresh'
  BY <1>1, <1>2, <1>5 DEF OAuthInv, RowsAgree, OneLiveRefresh, OAuthTypeOK
<1>9. LocksExclude'
  BY <1>1, <1>4 DEF OAuthInv, LocksExclude
<1>10. ExchangedOnce'
  <2>1. ~Used(k) /\ Used(k)'
    BY <1>1 DEF Used, OAuthInv, OAuthTypeOK
  <2>2. \A q \in Request \ {r} : at[q] = "exchange" => about[q].code # k /\ about[q].code \in Code
    BY <2>1 DEF OAuthInv, ExchangedOnce, SubjectsTyped
  <2>3. \A t \in Pair : refresh[t] # "none" => origin[t] # k
    BY <2>1 DEF OAuthInv, RowsAgree
  <2> QED
    BY <1>1, <1>3, <1>4, <1>5, <2>1, <2>2, <2>3 DEF OAuthInv, ExchangedOnce
<1>11. FoundStaysFound'
  <2>1. \A q \in Request \ {r} : Ended(q)' = Ended(q)
    BY <1>4 DEF Ended
  <2> QED
    BY <1>1, <1>4, <2>1 DEF OAuthInv, FoundStaysFound, Ending
<1> QED
  BY <1>6, <1>7, <1>8, <1>9, <1>10, <1>11 DEF OAuthInv
\* Codes long expired are cleared on the way.
LEMMA PurgeKeepsUsed ==
    ASSUME OAuthInv, Purge
    PROVE  /\ code' \in [Code -> {"none", "fresh", "expired", "consumed", "gone"}]
           /\ \A k \in Code : (Used(k) => Used(k)') /\ (code'[k] # "none" => code[k] # "none")
  BY DEF Purge, Used, OAuthInv, OAuthTypeOK

LEMMA IssueTokensKeeps ==
    ASSUME OAuthInv, NEW r \in Request, NEW t \in Pair, IssueTokens(r, t) PROVE OAuthInv'
<1> DEFINE k == about[r].code
           g == about[r].grant
<1>1. /\ refresh[t] = "none" /\ refresh' = [refresh EXCEPT ![t] = "live"]
      /\ holder' = [holder EXCEPT ![t] = g] /\ origin' = [origin EXCEPT ![t] = k]
      /\ access' = [access EXCEPT ![t] = "live"] /\ parent' = [parent EXCEPT ![t] = NoOne]
      /\ UNCHANGED <<disabled, approved, codeFor>> /\ Rest(r) /\ Purge
      /\ at[r] = "exchange"
  BY DEF IssueTokens, Mint, grants
<1>2. /\ k \in Code /\ g \in Grant /\ Used(k)
      /\ \A n \in Pair : refresh[n] # "none" => origin[n] # k
      /\ \A q \in Request \ {r} : at[q] = "exchange" => about[q].code # k
  BY <1>1 DEF OAuthInv, SubjectsTyped, ExchangedOnce
<1> HIDE DEF k, g
<1>3. RowsAgree'
  BY <1>1, <1>2, PurgeKeepsUsed DEF OAuthInv, RowsAgree, OAuthTypeOK
<1>4. OneLiveRefresh'
  BY <1>1, <1>2 DEF OAuthInv, OneLiveRefresh, OAuthTypeOK
<1>5. \A q \in Request \ {r} :
        /\ at[q] = "rotate" => refresh'[about[q].pair] = "live"
        /\ at[q] = "exchange" =>
             \A n \in Pair : refresh'[n] # "none" => origin'[n] # about[q].code
  BY <1>1, <1>2 DEF OAuthInv, LocksExclude, ExchangedOnce, OAuthTypeOK, SubjectsTyped
<1>6. RowsMove(Request \ {r})
  BY <1>1, <1>2, <1>3, <1>4, <1>5, PurgeKeepsUsed DEF RowsMove, OAuthInv, OAuthTypeOK
<1> QED
  BY <1>1, <1>6, RestKeeps

LEMMA BeginRotationKeeps ==
    ASSUME OAuthInv, NEW r \in Request, NEW t \in Pair, BeginRotation(r, t) PROVE OAuthInv'
<1> DEFINE subject == [grant |-> holder[t], code |-> NoOne, pair |-> t]
<1>1. /\ Goto(r, "rotate", subject) /\ held' = [held EXCEPT ![r] = {t}]
      /\ refresh[t] = "live" /\ \A q \in Request \ {r} : t \notin held[q]
      /\ UNCHANGED <<disabled, approved, code, codeFor, refresh, access, holder, origin, parent,
                     saw, old>>
  BY DEF BeginRotation, Rotatable, Free, grants, codes, tokens
<1>2. holder[t] \in Grant
  BY <1>1 DEF OAuthInv, RowsAgree
<1>3. subject \in Subject /\ subject.grant \in Grant /\ subject.pair = t
  BY <1>2, GrantIsSubject DEF Subject
<1> HIDE DEF subject
<1>4. /\ at'[r] = "rotate" /\ about'[r] = subject /\ held'[r] = {t}
      /\ \A q \in Request \ {r} : at'[q] = at[q] /\ about'[q] = about[q] /\ held'[q] = held[q]
  BY <1>1, GotoDoes DEF OAuthInv, OAuthTypeOK
<1>5. OAuthTypeOK'
  BY <1>1 DEF Goto, OAuthInv, OAuthTypeOK
<1>6. SubjectsTyped'
  <2>1. about' \in [Request -> Subject]
    BY <1>1, <1>3 DEF Goto, OAuthInv, SubjectsTyped
  <2> QED
    BY <1>3, <1>4, <2>1 DEF OAuthInv, SubjectsTyped, Ending
<1>7. RowsAgree' /\ OneLiveRefresh'
  BY <1>1 DEF OAuthInv, RowsAgree, OneLiveRefresh, Used
<1>8. LocksExclude'
  BY <1>1, <1>3, <1>4 DEF OAuthInv, LocksExclude
<1>9. ExchangedOnce'
  BY <1>1, <1>4 DEF OAuthInv, ExchangedOnce, Used
<1>10. FoundStaysFound'
  <2>1. \A q \in Request \ {r} : Ended(q)' = Ended(q)
    BY <1>4 DEF Ended
  <2> QED
    BY <1>1, <1>4, <2>1 DEF OAuthInv, FoundStaysFound, Ending
<1> QED
  BY <1>5, <1>6, <1>7, <1>8, <1>9, <1>10 DEF OAuthInv

LEMMA RotateKeeps ==
    ASSUME OAuthInv, NEW r \in Request, NEW n \in Pair, Rotate(r, n) PROVE OAuthInv'
<1> DEFINE t == about[r].pair
           g == about[r].grant
<1>1. /\ refresh[n] = "none" /\ refresh' = [refresh EXCEPT ![t] = "revoked", ![n] = "live"]
      /\ holder' = [holder EXCEPT ![n] = g] /\ origin' = [origin EXCEPT ![n] = origin[t]]
      /\ access' = [access EXCEPT ![n] = "live"] /\ parent' = [parent EXCEPT ![n] = t]
      /\ UNCHANGED <<disabled, approved, codeFor>> /\ Rest(r) /\ Purge
      /\ at[r] = "rotate"
  BY DEF Rotate, Mint, grants
<1>2. /\ t \in Pair /\ g \in Grant /\ refresh[t] = "live" /\ t \in held[r] /\ t # n
      /\ origin[t] \in Code /\ Used(origin[t])
  BY <1>1 DEF OAuthInv, SubjectsTyped, LocksExclude, RowsAgree
<1> HIDE DEF t, g
<1>3. RowsAgree'
  BY <1>1, <1>2, PurgeKeepsUsed DEF OAuthInv, RowsAgree, OAuthTypeOK
<1>4. OneLiveRefresh'
  BY <1>1, <1>2 DEF OAuthInv, OneLiveRefresh, OAuthTypeOK
<1>5. ASSUME NEW q \in Request \ {r}, at[q] = "rotate" PROVE refresh'[about[q].pair] = "live"
  <2>1. about[q].pair \in held[q] /\ refresh[about[q].pair] = "live" /\ about[q].pair \in Pair
    BY <1>5 DEF OAuthInv, LocksExclude, SubjectsTyped
  <2>2. about[q].pair # t /\ about[q].pair # n
    BY <1>1, <1>2, <2>1 DEF OAuthInv, LocksExclude
  <2> QED
    BY <1>1, <2>1, <2>2 DEF OAuthInv, OAuthTypeOK
<1>6. ASSUME NEW q \in Request \ {r}, at[q] = "exchange", NEW m \in Pair, refresh'[m] # "none"
      PROVE  origin'[m] # about[q].code
  <2>1. \A o \in Pair : refresh[o] # "none" => origin[o] # about[q].code
    BY <1>6 DEF OAuthInv, ExchangedOnce
  <2> QED
    BY <1>1, <1>2, <1>6, <2>1 DEF OAuthInv, OAuthTypeOK
<1>7. RowsMove(Request \ {r})
  BY <1>1, <1>2, <1>3, <1>4, <1>5, <1>6, PurgeKeepsUsed DEF RowsMove, OAuthInv, OAuthTypeOK
<1> QED
  BY <1>1, <1>7, RestKeeps

-------------------------------------------------------------------------------
(* Ending *)

LEMMA LockTokenKeeps ==
    ASSUME OAuthInv, NEW r \in Request, NEW t \in Pair, LockToken(r, t) PROVE OAuthInv'
<1>1. /\ saw' = [saw EXCEPT ![r] = @ \ {t}] /\ at[r] \in Ending
      /\ held' = [held EXCEPT ![r] = IF refresh[t] = "live" THEN @ \cup {t} ELSE @]
      /\ \A q \in Request \ {r} : t \notin held[q]
      /\ UNCHANGED <<disabled, approved, code, codeFor, refresh, access, holder, origin, parent,
                     at, about, old>>
  BY DEF LockToken, Free, grants, codes, tokens
<1>2. /\ held'[r] = IF refresh[t] = "live" THEN held[r] \cup {t} ELSE held[r]
      /\ saw'[r] = saw[r] \ {t}
      /\ \A q \in Request \ {r} : held'[q] = held[q] /\ saw'[q] = saw[q]
  BY <1>1 DEF OAuthInv, OAuthTypeOK
<1>3. OAuthTypeOK' /\ SubjectsTyped'
  BY <1>1 DEF OAuthInv, OAuthTypeOK, SubjectsTyped
<1>4. RowsAgree' /\ OneLiveRefresh' /\ ExchangedOnce'
  BY <1>1 DEF OAuthInv, RowsAgree, OneLiveRefresh, ExchangedOnce, Used
<1>5. LocksExclude'
  BY <1>1, <1>2 DEF OAuthInv, LocksExclude, Ending
<1>6. FoundStaysFound'
  <2>1. \A q \in Request : Ended(q)' = Ended(q)
    BY <1>1 DEF Ended
  <2> QED
    BY <1>1, <1>2, <2>1 DEF OAuthInv, FoundStaysFound
<1> QED
  BY <1>3, <1>4, <1>5, <1>6 DEF OAuthInv

\* Revoking what a request has locked leaves what the others have locked.
LEMMA RevokeAllMoves ==
    ASSUME OAuthInv, NEW r \in Request, RevokeAll(r), at[r] \in Ending,
           disabled' \subseteq Client, approved' \subseteq Grant, UNCHANGED codeFor,
           code' \in [Code -> {"none", "fresh", "expired", "consumed", "gone"}],
           \A k \in Code : (Used(k) => Used(k)') /\ (code'[k] # "none" => codeFor[k] \in Grant)
    PROVE  RowsMove(Request \ {r})
<1>1. /\ refresh' = [t \in Pair |->
           IF t \in held[r] /\ refresh[t] = "live" THEN "revoked" ELSE refresh[t]]
      /\ access' = [t \in Pair |->
           IF access[t] = "live" /\ RevokesAccess(r, t) THEN "revoked" ELSE access[t]]
      /\ UNCHANGED <<holder, origin, parent>>
  BY DEF RevokeAll
<1>2. \A t \in Pair : /\ refresh'[t] = "none" <=> refresh[t] = "none"
                      /\ refresh'[t] = "live" => refresh[t] = "live"
  BY <1>1
<1>3. RowsAgree' /\ OneLiveRefresh'
  BY <1>1, <1>2 DEF OAuthInv, RowsAgree, OneLiveRefresh
<1>4. ASSUME NEW q \in Request \ {r}, at[q] = "rotate" PROVE refresh'[about[q].pair] = "live"
  <2>1. about[q].pair \in held[q] /\ refresh[about[q].pair] = "live" /\ about[q].pair \in Pair
    BY <1>4 DEF OAuthInv, LocksExclude, SubjectsTyped
  <2> QED
    BY <1>1, <2>1 DEF OAuthInv, LocksExclude
<1>5. ASSUME NEW q \in Request \ {r}, at[q] = "exchange", NEW t \in Pair, refresh'[t] # "none"
      PROVE  origin'[t] # about[q].code
  BY <1>1, <1>2, <1>5 DEF OAuthInv, ExchangedOnce
<1>6. /\ refresh' \in [Pair -> {"none", "live", "revoked"}]
      /\ access' \in [Pair -> {"none", "live", "revoked", "expired"}]
  BY <1>1 DEF OAuthInv, OAuthTypeOK
<1> QED
  BY <1>1, <1>2, <1>3, <1>4, <1>5, <1>6 DEF RowsMove, OAuthInv, OAuthTypeOK

LEMMA CommitRevocationKeeps ==
    ASSUME OAuthInv, NEW r \in Request, CommitRevocation(r) PROVE OAuthInv'
<1>1. /\ RevokeAll(r) /\ Rest(r) /\ at[r] \in Ending
      /\ UNCHANGED <<disabled, approved, code, codeFor>>
  BY DEF CommitRevocation, grants, codes, Ending
<1>2. RowsMove(Request \ {r})
  BY <1>1, RevokeAllMoves DEF OAuthInv, OAuthTypeOK, RowsAgree, Used
<1> QED
  BY <1>1, <1>2, RestKeeps

LEMMA CommitEndKeeps ==
    ASSUME OAuthInv, NEW r \in Request, CommitEnd(r) PROVE OAuthInv'
<1>1. /\ RevokeAll(r) /\ Rest(r) /\ at[r] \in Ending /\ UNCHANGED codeFor
      /\ approved' = approved \ Ended(r)
      /\ code' = [k \in Code |-> IF codeFor[k] \in Ended(r) THEN "gone" ELSE code[k]]
      /\ disabled' = IF at[r] = "disable" THEN disabled \cup {about[r].grant[1]} ELSE disabled
  BY DEF CommitEnd, Drop, Ending
<1>2. disabled' \subseteq Client /\ approved' \subseteq Grant
  BY <1>1 DEF OAuthInv, OAuthTypeOK, SubjectsTyped
<1>3. /\ code' \in [Code -> {"none", "fresh", "expired", "consumed", "gone"}]
      /\ \A k \in Code : Used(k) => Used(k)'
  BY <1>1 DEF OAuthInv, OAuthTypeOK, Used
<1>4. \A k \in Code : code'[k] # "none" => codeFor[k] \in Grant
  <2>1. Ended(r) \subseteq Grant
    BY <1>1 DEF Ended, OAuthInv, SubjectsTyped
  <2> QED
    BY <1>1, <2>1 DEF OAuthInv, RowsAgree
<1>5. RowsMove(Request \ {r})
  BY <1>1, <1>2, <1>3, <1>4, RevokeAllMoves
<1> QED
  BY <1>1, <1>5, RestKeeps

LEMMA DisconnectKeeps ==
    ASSUME OAuthInv, NEW r \in Request, NEW g \in Grant, Disconnect(r, g) PROVE OAuthInv'
<1> DEFINE subject == [Nothing EXCEPT !.grant = g]
<1>1. subject \in Subject /\ subject.grant = g
  BY SubjectOfGrant, GrantIsSubject
<1>2. BeginEnd(r, "disconnect", subject, {g}, {})
  BY DEF Disconnect
<1> HIDE DEF subject
<1> QED
  BY <1>1, <1>2, BeginEndKeeps DEF Ending

LEMMA DisableKeeps ==
    ASSUME OAuthInv, NEW r \in Request, NEW c \in Client, Disable(r, c) PROVE OAuthInv'
<1> DEFINE subject == [Nothing EXCEPT !.grant = <<c, NoOne>>]
           gs == {g \in Grant : g[1] = c}
<1>1. subject \in Subject /\ subject.grant = <<c, NoOne>>
  BY SubjectOfGrant
<1>2. BeginEnd(r, "disable", subject, gs, {})
  BY DEF Disable
<1> HIDE DEF subject
<1>3. gs = {g \in Grant : g[1] = subject.grant[1]} /\ gs \in SUBSET Grant
  <2>1. subject.grant[1] = c
    BY <1>1
  <2> QED
    BY <2>1
<1>4. subject.grant \in Client \X {NoOne}
  BY <1>1
<1> HIDE DEF gs
<1> QED
  BY <1>1, <1>2, <1>3, <1>4, BeginEndKeeps DEF Ending

\* An authenticated request only ends a grant of its client.
LEMMA OfItsClient ==
    ASSUME OAuthInv, NEW r \in Request, at[r] = "authenticated",
           NEW g \in Grant \cup {NoGrant}, g[1] = about[r].grant[1]
    PROVE  g \in Grant
  BY OAuthAssumption DEF OAuthInv, SubjectsTyped, NoGrant

LEMMA ReplayCodeKeeps ==
    ASSUME OAuthInv, NEW r \in Request, NEW k \in Code, ReplayCode(r, k) PROVE OAuthInv'
<1> DEFINE subject == [grant |-> codeFor[k], code |-> k, pair |-> NoOne]
<1>1. BeginEnd(r, "replay", subject, {codeFor[k]}, {})
  BY DEF ReplayCode
<1>2. codeFor[k] \in Grant
  BY OfItsClient DEF ReplayCode, OAuthInv, OAuthTypeOK
<1>3. subject \in Subject /\ subject.grant = codeFor[k]
  BY <1>2, GrantIsSubject DEF Subject
<1> HIDE DEF subject
<1> QED
  BY <1>1, <1>2, <1>3, BeginEndKeeps DEF Ending

\* A request ends the grant of the token it is shown.
LEMMA EndHolderKeeps ==
    ASSUME OAuthInv, NEW r \in Request, NEW t \in Pair, NEW label \in {"replay", "revoke"},
           NEW locked \in SUBSET Pair, \A n \in locked : Free(r, n),
           at[r] = "authenticated", holder[t][1] = about[r].grant[1],
           BeginEnd(r, label, [Nothing EXCEPT !.grant = holder[t]], {holder[t]}, locked)
    PROVE  OAuthInv'
<1> DEFINE subject == [Nothing EXCEPT !.grant = holder[t]]
<1>1. holder[t] \in Grant
  BY OfItsClient DEF OAuthInv, OAuthTypeOK
<1>2. subject \in Subject /\ subject.grant = holder[t]
  BY <1>1, SubjectOfGrant, GrantIsSubject
<1>3. BeginEnd(r, label, subject, {holder[t]}, locked)
  OBVIOUS
<1> HIDE DEF subject
<1> QED
  BY <1>1, <1>2, <1>3, BeginEndKeeps DEF Ending

LEMMA ReplayRefreshKeeps ==
    ASSUME OAuthInv, NEW r \in Request, NEW t \in Pair, ReplayRefresh(r, t) PROVE OAuthInv'
  BY EndHolderKeeps DEF ReplayRefresh

LEMMA RevokeRefreshKeeps ==
    ASSUME OAuthInv, NEW r \in Request, NEW t \in Pair, RevokeRefresh(r, t) PROVE OAuthInv'
  BY EndHolderKeeps DEF RevokeRefresh

\* Access tokens and codes that run out or are revoked one by one.
LEMMA AccessMoves ==
    ASSUME OAuthInv, UNCHANGED <<disabled, approved, code, codeFor, refresh, holder, origin, parent>>,
           access' \in [Pair -> {"none", "live", "revoked", "expired"}]
    PROVE  RowsMove(Request)
<1>1. RowsAgree' /\ OneLiveRefresh' /\ \A k \in Code : Used(k) => Used(k)'
  BY DEF OAuthInv, RowsAgree, OneLiveRefresh, Used
<1>2. \A q \in Request : at[q] = "rotate" => refresh[about[q].pair] = "live"
  BY DEF OAuthInv, LocksExclude
<1>3. \A q \in Request : at[q] = "exchange" =>
        \A t \in Pair : refresh[t] # "none" => origin[t] # about[q].code
  BY DEF OAuthInv, ExchangedOnce
<1> QED
  BY <1>1, <1>2, <1>3 DEF RowsMove, OAuthInv, OAuthTypeOK

LEMMA RevokeAccessKeeps ==
    ASSUME OAuthInv, NEW r \in Request, NEW t \in Pair, RevokeAccess(r, t) PROVE OAuthInv'
<1>1. /\ access' = [access EXCEPT ![t] = "revoked"] /\ Rest(r)
      /\ UNCHANGED <<disabled, approved, code, codeFor, refresh, holder, origin, parent>>
  BY DEF RevokeAccess, grants, codes
<1>2. RowsMove(Request)
  BY <1>1, AccessMoves DEF OAuthInv, OAuthTypeOK
<1>3. RowsMove(Request \ {r})
  BY <1>2 DEF RowsMove
<1> QED
  BY <1>1, <1>3, RestKeeps

LEMMA ExpireAccessKeeps ==
    ASSUME OAuthInv, NEW t \in Pair, ExpireAccess(t) PROVE OAuthInv'
<1>1. /\ access' = [access EXCEPT ![t] = "expired"]
      /\ UNCHANGED <<disabled, approved, code, codeFor, refresh, holder, origin, parent>>
      /\ UNCHANGED oauthRequests
  BY DEF ExpireAccess, grants, codes
<1>2. RowsMove(Request)
  BY <1>1, AccessMoves DEF OAuthInv, OAuthTypeOK
<1> QED
  BY <1>1, <1>2, RowsOnlyKeep

LEMMA ExpireCodeKeeps ==
    ASSUME OAuthInv, NEW k \in Code, ExpireCode(k) PROVE OAuthInv'
<1>1. /\ code' = [code EXCEPT ![k] = "expired"] /\ code[k] = "fresh"
      /\ UNCHANGED <<disabled, approved, codeFor, refresh, access, holder, origin, parent>>
      /\ UNCHANGED oauthRequests
  BY DEF ExpireCode, grants, tokens
<1>2. \A j \in Code : Used(j) => Used(j)'
  BY <1>1 DEF Used, OAuthInv, OAuthTypeOK
<1>3. RowsAgree' /\ OneLiveRefresh'
  BY <1>1, <1>2 DEF OAuthInv, RowsAgree, OneLiveRefresh, OAuthTypeOK
<1>4. RowsMove(Request)
  BY <1>1, <1>2, <1>3 DEF RowsMove, OAuthInv, OAuthTypeOK, LocksExclude, ExchangedOnce
<1> QED
  BY <1>1, <1>4, RowsOnlyKeep

\* A request that stops leaves the rows as they are.
LEMMA StopKeeps ==
    ASSUME OAuthInv, NEW r \in Request, Rest(r), UNCHANGED <<grants, codes, tokens>>
    PROVE  OAuthInv'
<1>1. RowsMove(Request)
  BY RowsStay
<1>2. RowsMove(Request \ {r})
  BY <1>1 DEF RowsMove
<1> QED
  BY <1>2, RestKeeps

-------------------------------------------------------------------------------
LEMMA OAuthInvStep == OAuthInv /\ [OAuthNext]_oauthVars => OAuthInv'
<1> SUFFICES ASSUME OAuthInv, [OAuthNext]_oauthVars PROVE OAuthInv'
  OBVIOUS
<1>1. ASSUME NEW r \in Request, OAuthStep(r) PROVE OAuthInv'
  <2>1. CASE \E g \in Grant : Resolve(r, g) \/ Disconnect(r, g)
    BY <2>1, ResolveKeeps, DisconnectKeeps
  <2>2. CASE \E c \in Client : Authenticate(r, c) \/ Disable(r, c)
    BY <2>2, AuthenticateKeeps, DisableKeeps
  <2>3. CASE \E k \in Code : Approve(r, k) \/ Consume(r, k) \/ ReplayCode(r, k)
    BY <2>3, ApproveKeeps, ConsumeKeeps, ReplayCodeKeeps
  <2>4. CASE \E t \in Pair : IssueTokens(r, t) \/ BeginRotation(r, t) \/ Rotate(r, t)
    BY <2>4, IssueTokensKeeps, BeginRotationKeeps, RotateKeeps
  <2>5. CASE \E t \in Pair : \/ ReplayRefresh(r, t) \/ RevokeRefresh(r, t)
                             \/ RevokeAccess(r, t) \/ LockToken(r, t)
    BY <2>5, ReplayRefreshKeeps, RevokeRefreshKeeps, RevokeAccessKeeps, LockTokenKeeps
  <2>6. CASE Mismatch(r) \/ Abort(r)
    BY <2>6, StopKeeps DEF Mismatch, Abort
  <2>7. CASE CommitRevocation(r) \/ CommitEnd(r)
    BY <2>7, CommitRevocationKeeps, CommitEndKeeps
  <2> QED
    BY <1>1, <2>1, <2>2, <2>3, <2>4, <2>5, <2>6, <2>7 DEF OAuthStep
<1>2. ASSUME NEW k \in Code, ExpireCode(k) PROVE OAuthInv'
  BY <1>2, ExpireCodeKeeps
<1>3. ASSUME NEW t \in Pair, ExpireAccess(t) PROVE OAuthInv'
  BY <1>3, ExpireAccessKeeps
<1>4. CASE UNCHANGED oauthVars
  <2>1. UNCHANGED <<grants, codes, tokens>> /\ UNCHANGED oauthRequests
    BY <1>4 DEF oauthVars
  <2> QED
    BY <2>1, RowsStay, RowsOnlyKeep
<1> QED
  BY <1>1, <1>2, <1>3, <1>4 DEF OAuthNext

-------------------------------------------------------------------------------
\* The inductive invariant of the connectors' rows and the transactions on them
\* (internal/store/oauth.go).
THEOREM OAuthInvAlways == OAuthSpec => []OAuthInv
<1> QED
  BY OAuthInvInit, OAuthInvStep, PTL DEF OAuthSpec

\* However many exchanges, refreshes, replays and disconnects race, one
\* authorization code never has two refresh tokens that work.
THEOREM FamiliesStayLinear == OAuthSpec => []OneLiveRefresh
<1>1. OAuthInv => OneLiveRefresh
  BY DEF OAuthInv
<1> QED
  BY OAuthInvAlways, <1>1, PTL

\* Ending a grant leaves nothing of what it found, even what was locked by a
\* rotation when its UPDATE began.
THEOREM EndingEndsAllItFound == OAuthSpec => EndsAllItFound
<1> DEFINE A == \A r \in Request :
                  (CommitEnd(r) \/ CommitRevocation(r)) =>
                    \A t \in old[r] : refresh'[t] # "live" /\ access'[t] # "live"
<1>1. OAuthInv => A
  <2> SUFFICES ASSUME OAuthInv, NEW r \in Request, CommitEnd(r) \/ CommitRevocation(r),
                      NEW t \in old[r]
               PROVE  refresh'[t] # "live" /\ access'[t] # "live"
    OBVIOUS
  <2>1. at[r] \in Ending /\ saw[r] = {} /\ RevokeAll(r)
    BY DEF CommitEnd, CommitRevocation, Ending
  <2>2. t \in Pair /\ holder[t] \in Ended(r) /\ (refresh[t] = "live" => t \in held[r])
    BY <2>1 DEF OAuthInv, OAuthTypeOK, FoundStaysFound
  <2> QED
    BY <2>1, <2>2 DEF RevokeAll, RevokesAccess
<1> HIDE DEF A
<1>2. OAuthSpec => [][A]_oauthVars
  BY OAuthInvAlways, <1>1, PTL DEF OAuthSpec
<1> QED
  BY <1>2 DEF A, EndsAllItFound
===============================================================================
