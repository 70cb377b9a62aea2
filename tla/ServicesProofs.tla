----------------------------- MODULE ServicesProofs ----------------------------
(* Proofs about SignInMethods, Sessions and RateLimiter: an account under any  *)
(* number of concurrent requests, with any number of passkeys, tickets and     *)
(* sessions; and any number of keys and of sign-ins in flight, any limit,      *)
(* capacity and window.  Proofs about Realtime and GitHubLinks: any number of  *)
(* clients, events, links and workers.  And that the services of one run are   *)
(* each their own component.                                                   *)
EXTENDS MCServices, OAuthGrantsProofs, FiniteSetTheorems, TLAPS

-------------------------------------------------------------------------------
(* The last passkey *)

\* Of a set that counts more than one, something is left without any one member.
LEMMA MoreThanOne ==
    ASSUME NEW S, NEW x \in S, ~(Cardinality(S) <= 1) PROVE \E y \in S : y # x
<1> SUFFICES ASSUME S = {x} PROVE FALSE
  OBVIOUS
<1>1. Cardinality({x}) = 1
  BY FS_Singleton
<1> QED
  BY <1>1

\* What a revocation decides under the account's lock.
RevokesAs(r, last) ==
    /\ visit' = [visit EXCEPT ![r] = [visit[r] EXCEPT !.at = "revoking", !.last = last]]
    /\ last => password # "none"
    /\ ~last => \E k \in Active : k # visit[r].key

LEMMA BeginRevokeDecides ==
    ASSUME NEW r \in Visit, BeginRevoke(r) PROVE \E last \in BOOLEAN : RevokesAs(r, last)
<1>1. ~(Cardinality(Active) <= 1) => \E k \in Active : k # visit[r].key
  BY MoreThanOne DEF BeginRevoke
<1>2. RevokesAs(r, Cardinality(Active) <= 1)
  BY <1>1, Zenon DEF BeginRevoke, Turn, RevokesAs
<1>3. (Cardinality(Active) <= 1) \in BOOLEAN
  OBVIOUS
<1> QED
  BY <1>2, <1>3, Zenon

-------------------------------------------------------------------------------
(* Types *)

LEMMA SignInTypeInit == SignInInit => SignInTypeOK
  BY SignInAssumption DEF SignInInit, SignInTypeOK, Idle, Locking

LEMMA SignInTypeStep == SignInTypeOK /\ [SignInNext]_signInVars => SignInTypeOK'
<1> SUFFICES ASSUME SignInTypeOK, [SignInNext]_signInVars PROVE SignInTypeOK'
  OBVIOUS
<1> USE SignInAssumption
    DEF SignInTypeOK, Idle, Locking, Active
<1>1. ASSUME NEW r \in Visit, VerifyUserPassword(r)
      PROVE  SignInTypeOK'
  BY <1>1 DEF VerifyUserPassword, Turn
<1>2. ASSUME NEW r \in Visit, UpdatePasskeyCredentialUsage(r)
      PROVE  SignInTypeOK'
  BY <1>2 DEF UpdatePasskeyCredentialUsage, Turn
<1>3. ASSUME NEW r \in Visit, EnablePassword(r)
      PROVE  SignInTypeOK'
  BY <1>3 DEF EnablePassword, Turn, Changed, Unlocked
<1>4. ASSUME NEW r \in Visit, BeginDisable(r)
      PROVE  SignInTypeOK'
  BY <1>4 DEF BeginDisable, Turn, Unlocked
<1>5. ASSUME NEW r \in Visit, CommitDisable(r)
      PROVE  SignInTypeOK'
  BY <1>5 DEF CommitDisable, Turn, Changed
<1>6. ASSUME NEW r \in Visit, BeginRevoke(r)
      PROVE  SignInTypeOK'
  <2>1. PICK last \in BOOLEAN : RevokesAs(r, last)
    BY <1>6, BeginRevokeDecides
  <2>2. UNCHANGED <<password, passkey, ticket, spent, proofOf, changes>>
    BY <1>6 DEF BeginRevoke
  <2>3. visit' = [visit EXCEPT ![r] = [visit[r] EXCEPT !.at = "revoking", !.last = last]]
    BY <2>1 DEF RevokesAs
  <2> QED
    BY <2>2, <2>3
<1>7. ASSUME NEW r \in Visit, CommitRevoke(r)
      PROVE  SignInTypeOK'
  BY <1>7 DEF CommitRevoke, Turn, Changed
<1>8. ASSUME NEW r \in Visit, GiveUp(r)
      PROVE  SignInTypeOK'
  BY <1>8 DEF GiveUp, Turn
<1>9. ASSUME NEW r \in Visit, NEW t \in Ticket, CreatePasskeyReauthToken(r, t)
      PROVE  SignInTypeOK'
  BY <1>9 DEF CreatePasskeyReauthToken, Turn, Write
<1>10. ASSUME NEW r \in Visit, NEW t \in Ticket, BeginAdd(r, t)
      PROVE  SignInTypeOK'
  BY <1>10 DEF BeginAdd, Turn, Write
<1>11. ASSUME NEW r \in Visit, NEW t \in Ticket, FinishAdd(r, t)
      PROVE  SignInTypeOK'
  BY <1>11 DEF FinishAdd, Turn, Spend, TicketGood
<1>12. ASSUME NEW r \in Visit, NEW t \in Ticket,
             NEW goal \in {"options", "enable", "disable", "revoke"},
             NEW k \in Active \cup {Null}, UseProof(r, t, goal, k)
      PROVE  SignInTypeOK'
  BY <1>12 DEF UseProof, Turn, Spend, TicketGood
<1>13. ASSUME NEW r \in Visit, NEW t \in Ticket, NEW k \in Passkey,
             FinishReauth(r, t, k)
      PROVE  SignInTypeOK'
  BY <1>13 DEF FinishReauth, Turn, Spend, TicketGood
<1>14. ASSUME NEW r \in Visit, NEW k \in Passkey, AddPasskeyCredential(r, k)
      PROVE  SignInTypeOK'
  BY <1>14 DEF AddPasskeyCredential, Turn, Changed
<1>15. ASSUME NEW t \in Ticket, BeginReauth(t) PROVE SignInTypeOK'
  BY <1>15 DEF BeginReauth, Write
<1>16. ASSUME NEW t \in Ticket, ExpireTicket(t) PROVE SignInTypeOK'
  BY <1>16 DEF ExpireTicket
<1>17. CASE UNCHANGED signInVars
  BY <1>17 DEF signInVars
<1> QED
  BY <1>1, <1>2, <1>3, <1>4, <1>5, <1>6, <1>7, <1>8, <1>9, <1>10, <1>11,
     <1>12, <1>13, <1>14, <1>15, <1>16, <1>17
  DEF SignInNext, SignInStep

\* The account's methods are always well typed.
THEOREM SignInTyped == SignInSpec => []SignInTypeOK
<1> QED
  BY SignInTypeInit, SignInTypeStep, PTL DEF SignInSpec

-------------------------------------------------------------------------------
(* A way in.  A transaction decides on what it reads under the account's lock; *)
(* until it commits, that must stay true.                                      *)

OneLocks == \A r, q \in Visit : visit[r].at \in Locking /\ visit[q].at \in Locking => r = q

\* The password is only turned off while there is a passkey.
PasskeyInstead == \A r \in Visit : visit[r].at = "disabling" => Active # {}

\* A passkey is only revoked while there is another, or a password to turn on.
OtherWayStays ==
    \A r \in Visit : visit[r].at = "revoking" =>
      /\ visit[r].last => password # "none"
      /\ ~visit[r].last => \E k \in Active : k # visit[r].key

WayInInv == OneLocks /\ PasskeyInstead /\ OtherWayStays /\ AlwaysAWayIn

LEMMA WayInInit == SignInInit => WayInInv
  BY DEF SignInInit, WayInInv, OneLocks, PasskeyInstead, OtherWayStays, AlwaysAWayIn,
         Idle, Locking, Active

LEMMA WayInStep == SignInTypeOK /\ WayInInv /\ [SignInNext]_signInVars => WayInInv'
<1> SUFFICES ASSUME SignInTypeOK, WayInInv, [SignInNext]_signInVars PROVE WayInInv'
  OBVIOUS
<1> USE SignInAssumption
    DEF SignInTypeOK, WayInInv, OneLocks, PasskeyInstead,
        OtherWayStays, AlwaysAWayIn, Idle, Locking, Active
<1>1. ASSUME NEW r \in Visit, VerifyUserPassword(r)
      PROVE  WayInInv'
  BY <1>1 DEF VerifyUserPassword, Turn
<1>2. ASSUME NEW r \in Visit, UpdatePasskeyCredentialUsage(r)
      PROVE  WayInInv'
  BY <1>2 DEF UpdatePasskeyCredentialUsage, Turn
<1>3. ASSUME NEW r \in Visit, EnablePassword(r)
      PROVE  WayInInv'
  BY <1>3 DEF EnablePassword, Turn, Changed, Unlocked
<1>4. ASSUME NEW r \in Visit, BeginDisable(r)
      PROVE  WayInInv'
  BY <1>4 DEF BeginDisable, Turn, Unlocked
<1>5. ASSUME NEW r \in Visit, CommitDisable(r)
      PROVE  WayInInv'
  BY <1>5 DEF CommitDisable, Turn, Changed
<1>6. ASSUME NEW r \in Visit, BeginRevoke(r)
      PROVE  WayInInv'
  <2>1. PICK last \in BOOLEAN : RevokesAs(r, last)
    BY <1>6, BeginRevokeDecides
  <2> QED
    BY <1>6, <2>1 DEF BeginRevoke, Unlocked, RevokesAs
<1>7. ASSUME NEW r \in Visit, CommitRevoke(r)
      PROVE  WayInInv'
  BY <1>7 DEF CommitRevoke, Turn, Changed
<1>8. ASSUME NEW r \in Visit, GiveUp(r)
      PROVE  WayInInv'
  BY <1>8 DEF GiveUp, Turn
<1>9. ASSUME NEW r \in Visit, NEW t \in Ticket, CreatePasskeyReauthToken(r, t)
      PROVE  WayInInv'
  BY <1>9 DEF CreatePasskeyReauthToken, Turn, Write
<1>10. ASSUME NEW r \in Visit, NEW t \in Ticket, BeginAdd(r, t)
      PROVE  WayInInv'
  BY <1>10 DEF BeginAdd, Turn, Write
<1>11. ASSUME NEW r \in Visit, NEW t \in Ticket, FinishAdd(r, t)
      PROVE  WayInInv'
  BY <1>11 DEF FinishAdd, Turn, Spend, TicketGood
<1>12. ASSUME NEW r \in Visit, NEW t \in Ticket,
             NEW goal \in {"options", "enable", "disable", "revoke"},
             NEW k \in Active \cup {Null}, UseProof(r, t, goal, k)
      PROVE  WayInInv'
  BY <1>12 DEF UseProof, Turn, Spend, TicketGood
<1>13. ASSUME NEW r \in Visit, NEW t \in Ticket, NEW k \in Passkey,
             FinishReauth(r, t, k)
      PROVE  WayInInv'
  BY <1>13 DEF FinishReauth, Turn, Spend, TicketGood
<1>14. ASSUME NEW r \in Visit, NEW k \in Passkey, AddPasskeyCredential(r, k)
      PROVE  WayInInv'
  BY <1>14 DEF AddPasskeyCredential, Turn, Changed
<1>15. ASSUME NEW t \in Ticket, BeginReauth(t) PROVE WayInInv'
  BY <1>15 DEF BeginReauth, Write
<1>16. ASSUME NEW t \in Ticket, ExpireTicket(t) PROVE WayInInv'
  BY <1>16 DEF ExpireTicket
<1>17. CASE UNCHANGED signInVars
  BY <1>17 DEF signInVars
<1> QED
  BY <1>1, <1>2, <1>3, <1>4, <1>5, <1>6, <1>7, <1>8, <1>9, <1>10, <1>11,
     <1>12, <1>13, <1>14, <1>15, <1>16, <1>17
  DEF SignInNext, SignInStep

\* Whatever races, an account keeps its password, turned on, or a passkey: no
\* series of changes, at any number of requests at once, locks its owner out.
THEOREM NeverLockedOut == SignInSpec => []AlwaysAWayIn
<1>1. WayInInv => AlwaysAWayIn
  BY DEF WayInInv
<1> QED
  BY SignInTyped, WayInInit, WayInStep, <1>1, PTL DEF SignInSpec

-------------------------------------------------------------------------------
(* One change for each proof.  A proof moves from its ticket to the request    *)
(* that spent it, perhaps to a ceremony that adds a passkey and to the request *)
(* that finishes it, and to the change; it is never in two of these places.    *)

Pending == {t \in Ticket : ticket[t] = "add" /\ t \notin spent /\ proofOf[t] # Null}

CountedOnce == changes \in [Ticket -> {0, 1}]

BackedBySpent == \A t \in Ticket : changes[t] = 1 => t \in spent

InOneRequest ==
    \A r \in Visit : visit[r].proof # Null =>
      /\ visit[r].proof \in spent /\ changes[visit[r].proof] = 0
      /\ \A q \in Visit : visit[q].proof = visit[r].proof => q = r
      /\ \A t \in Pending : proofOf[t] # visit[r].proof

InOneCeremony ==
    \A t \in Pending :
      /\ proofOf[t] \in spent /\ changes[proofOf[t]] = 0
      /\ \A u \in Pending : proofOf[u] = proofOf[t] => u = t

ProofInv == CountedOnce /\ BackedBySpent /\ InOneRequest /\ InOneCeremony

LEMMA ProofInit == SignInInit => ProofInv
  BY DEF SignInInit, ProofInv, CountedOnce, BackedBySpent, InOneRequest, InOneCeremony,
         Pending, Idle

\* What a change adds to the count of its proof.
ChangesCounted(r) ==
    /\ changes' \in [Ticket -> {0, 1}]
    /\ \A t \in Ticket : changes'[t] = IF t = visit[r].proof THEN 1 ELSE changes[t]

LEMMA ChangeCounts ==
    ASSUME SignInTypeOK, ProofInv, NEW r \in Visit, Changed(r) PROVE ChangesCounted(r)
<1>1. CASE visit[r].proof = Null
  <2>1. changes' = changes
    BY <1>1, SignInAssumption DEF Changed, ProofInv, CountedOnce
  <2> QED
    BY <1>1, <2>1, SignInAssumption DEF ProofInv, CountedOnce, ChangesCounted
<1>2. CASE visit[r].proof # Null
  <2>1. visit[r].proof \in Ticket /\ changes[visit[r].proof] = 0
    BY <1>2 DEF SignInTypeOK, ProofInv, InOneRequest
  <2> QED
    BY <2>1 DEF Changed, ProofInv, CountedOnce, ChangesCounted
<1> QED
  BY <1>1, <1>2

LEMMA ProofStep == SignInTypeOK /\ ProofInv /\ [SignInNext]_signInVars => ProofInv'
<1> SUFFICES ASSUME SignInTypeOK, ProofInv, [SignInNext]_signInVars PROVE ProofInv'
  OBVIOUS
<1> USE SignInAssumption
    DEF SignInTypeOK, ProofInv, CountedOnce, BackedBySpent, InOneRequest,
        InOneCeremony, Pending, Idle, Active
<1>1. ASSUME NEW r \in Visit, VerifyUserPassword(r)
      PROVE  ProofInv'
  BY <1>1 DEF VerifyUserPassword, Turn
<1>2. ASSUME NEW r \in Visit, UpdatePasskeyCredentialUsage(r)
      PROVE  ProofInv'
  BY <1>2 DEF UpdatePasskeyCredentialUsage, Turn
<1>3. ASSUME NEW r \in Visit, EnablePassword(r)
      PROVE  ProofInv'
  <2>1. ChangesCounted(r)
    BY <1>3, ChangeCounts DEF EnablePassword
  <2> QED
    BY <1>3, <2>1 DEF EnablePassword, Turn, ChangesCounted
<1>4. ASSUME NEW r \in Visit, BeginDisable(r)
      PROVE  ProofInv'
  BY <1>4 DEF BeginDisable, Turn, Unlocked
<1>5. ASSUME NEW r \in Visit, CommitDisable(r)
      PROVE  ProofInv'
  <2>1. ChangesCounted(r)
    BY <1>5, ChangeCounts DEF CommitDisable
  <2> QED
    BY <1>5, <2>1 DEF CommitDisable, Turn, ChangesCounted
<1>6. ASSUME NEW r \in Visit, BeginRevoke(r)
      PROVE  ProofInv'
  <2>1. PICK last \in BOOLEAN : RevokesAs(r, last)
    BY <1>6, BeginRevokeDecides
  <2>2. UNCHANGED <<password, passkey, ticket, spent, proofOf, changes>>
    BY <1>6 DEF BeginRevoke
  <2>3. visit' = [visit EXCEPT ![r] = [visit[r] EXCEPT !.at = "revoking", !.last = last]]
    BY <2>1 DEF RevokesAs
  <2> QED
    BY <2>2, <2>3
<1>7. ASSUME NEW r \in Visit, CommitRevoke(r)
      PROVE  ProofInv'
  <2>1. ChangesCounted(r)
    BY <1>7, ChangeCounts DEF CommitRevoke
  <2> QED
    BY <1>7, <2>1 DEF CommitRevoke, Turn, ChangesCounted
<1>8. ASSUME NEW r \in Visit, GiveUp(r)
      PROVE  ProofInv'
  BY <1>8 DEF GiveUp, Turn
<1>9. ASSUME NEW r \in Visit, NEW t \in Ticket, CreatePasskeyReauthToken(r, t)
      PROVE  ProofInv'
  BY <1>9 DEF CreatePasskeyReauthToken, Turn, Write
<1>10. ASSUME NEW r \in Visit, NEW t \in Ticket, BeginAdd(r, t)
      PROVE  ProofInv'
  BY <1>10 DEF BeginAdd, Turn, Write
<1>11. ASSUME NEW r \in Visit, NEW t \in Ticket, FinishAdd(r, t)
      PROVE  ProofInv'
  BY <1>11 DEF FinishAdd, Turn, Spend, TicketGood
<1>12. ASSUME NEW r \in Visit, NEW t \in Ticket,
             NEW goal \in {"options", "enable", "disable", "revoke"},
             NEW k \in Active \cup {Null}, UseProof(r, t, goal, k)
      PROVE  ProofInv'
  BY <1>12 DEF UseProof, Turn, Spend, TicketGood
<1>13. ASSUME NEW r \in Visit, NEW t \in Ticket, NEW k \in Passkey,
             FinishReauth(r, t, k)
      PROVE  ProofInv'
  BY <1>13 DEF FinishReauth, Turn, Spend, TicketGood
<1>14. ASSUME NEW r \in Visit, NEW k \in Passkey, AddPasskeyCredential(r, k)
      PROVE  ProofInv'
  <2>1. ChangesCounted(r)
    BY <1>14, ChangeCounts DEF AddPasskeyCredential
  <2> QED
    BY <1>14, <2>1 DEF AddPasskeyCredential, Turn, ChangesCounted
<1>15. ASSUME NEW t \in Ticket, BeginReauth(t) PROVE ProofInv'
  BY <1>15 DEF BeginReauth, Write
<1>16. ASSUME NEW t \in Ticket, ExpireTicket(t) PROVE ProofInv'
  BY <1>16 DEF ExpireTicket
<1>17. CASE UNCHANGED signInVars
  BY <1>17 DEF signInVars
<1> QED
  BY <1>1, <1>2, <1>3, <1>4, <1>5, <1>6, <1>7, <1>8, <1>9, <1>10, <1>11,
     <1>12, <1>13, <1>14, <1>15, <1>16, <1>17
  DEF SignInNext, SignInStep

\* However tokens and ceremonies are replayed by however many requests, each time
\* the user proves who they are backs at most one change.
THEOREM ProofBacksOneChange == SignInSpec => []OneChangePerProof
<1>1. ProofInv => OneChangePerProof
  BY DEF ProofInv, CountedOnce, OneChangePerProof
<1> QED
  BY SignInTyped, ProofInit, ProofStep, <1>1, PTL DEF SignInSpec

-------------------------------------------------------------------------------
(* Sessions.  A change that settles late must not undo what a newer one did.   *)

\* What has been written is no newer than the password there is.
WrittenInOrder == \A r \in Device : doing[r].wrote <= word

SessionsInv == SessionsTypeOK /\ WrittenInOrder /\ SignedOutByChange

LEMMA SessionsInvInit == SessionsInit => SessionsInv
  BY SessionsAssumption DEF SessionsInit, SessionsInv, SessionsTypeOK, WrittenInOrder,
     SignedOutByChange, Open, Resting

LEMMA SessionsInvStep == SessionsInv /\ [SessionsNext]_sessionVars => SessionsInv'
<1> SUFFICES ASSUME SessionsInv, [SessionsNext]_sessionVars PROVE SessionsInv'
  OBVIOUS
<1> USE SessionsAssumption DEF SessionsInv, SessionsTypeOK, WrittenInOrder,
        SignedOutByChange, Open, Resting
<1>1. ASSUME NEW r \in Device, AuthenticatePassword(r) PROVE SessionsInv'
  BY <1>1 DEF AuthenticatePassword, Does
<1>2. ASSUME NEW r \in Device, NEW s \in Session, CreateAuthToken(r, s) PROVE SessionsInv'
  BY <1>2 DEF CreateAuthToken, Does
<1>3. ASSUME NEW r \in Device, NEW caller \in Open \cup {NoSession},
             BeginChangePassword(r, caller) PROVE SessionsInv'
  BY <1>3 DEF BeginChangePassword, Does
<1>4. ASSUME NEW r \in Device, WritePassword(r) PROVE SessionsInv'
  <2>1. /\ word' = word + 1 /\ word + 1 \in 0..Passwords /\ word \in Nat
        /\ UNCHANGED <<session, opened, settled, keeper>>
    BY <1>4 DEF WritePassword
  <2>2. doing' = [doing EXCEPT ![r] = [doing[r] EXCEPT !.at = "written", !.wrote = word + 1]]
    BY <1>4 DEF WritePassword, Does
  <2>3. SessionsTypeOK'
    <3>1. /\ opened' \in [Session -> 0..word'] /\ settled' \in 0..word' /\ word' \in 0..Passwords
      BY <2>1
    <3> QED
      BY <2>1, <2>2, <3>1
  <2>4. WrittenInOrder'
    BY <2>1, <2>2
  <2> QED
    BY <2>1, <2>3, <2>4
<1>5. ASSUME NEW r \in Device, RevokeOtherSessions(r) PROVE SessionsInv'
  <2>1. /\ session' = [s \in Session |->
                         IF session[s] = "live" /\ s # doing[r].by THEN "ended" ELSE session[s]]
        /\ doing' = [doing EXCEPT ![r] = Resting]
        /\ UNCHANGED <<word, opened>>
    BY <1>5 DEF RevokeOtherSessions, Does, Close, RevokesOther
  <2>2. \/ /\ doing[r].wrote > settled
           /\ settled' = doing[r].wrote /\ keeper' = doing[r].by
        \/ UNCHANGED <<settled, keeper>>
    BY <1>5 DEF RevokeOtherSessions
  <2>3. doing[r].wrote \in 0..word /\ doing[r].by \in Session \cup {NoSession} /\ word \in Nat
    OBVIOUS
  <2>4. SessionsTypeOK'
    BY <2>1, <2>2, <2>3
  <2>5. WrittenInOrder'
    BY <2>1, <2>3
  <2>6. \A s \in Session : session'[s] = "live" => session[s] = "live" /\ s = doing[r].by
    BY <2>1
  <2>7. SignedOutByChange'
    BY <2>1, <2>2, <2>6
  <2> QED
    BY <2>4, <2>5, <2>7
<1>6. ASSUME RevokeAllSessions PROVE SessionsInv'
  BY <1>6 DEF RevokeAllSessions, Close
<1>7. ASSUME NEW s \in Session, EndSession(s) PROVE SessionsInv'
  BY <1>7 DEF EndSession, Close
<1>8. ASSUME NEW r \in Device, Fail(r) PROVE SessionsInv'
  BY <1>8 DEF Fail, Does
<1>9. CASE UNCHANGED sessionVars
  BY <1>9 DEF sessionVars
<1> QED
  BY <1>1, <1>2, <1>3, <1>4, <1>5, <1>6, <1>7, <1>8, <1>9 DEF SessionsNext

\* However password changes race with each other and with people signing in, a
\* change that has ended leaves no older session but the one it was made in.
THEOREM ChangeSignsOut == SessionsSpec => []SignedOutByChange
<1>1. SessionsInv => SignedOutByChange
  BY DEF SessionsInv
<1> QED
  BY SessionsInvInit, SessionsInvStep, <1>1, PTL DEF SessionsSpec

-------------------------------------------------------------------------------
(* The limiter of failed sign-ins *)

LimiterTyped ==
    /\ count \in [Key -> 0..Limit] /\ left \in [Key -> 0..Window]
    /\ guess \in [Guesser -> Username \cup {Nobody}]
    /\ tries \in [Key -> Nat]

\* What the table says of a key and what was tried: an entry that is live counts
\* no more than was tried and, below the limit, no less; the table only forgets
\* a key with its window.
TableTellsTries ==
    \A k \in Key :
      /\ count[k] = 0 => left[k] = 0
      /\ left[k] = 0 => tries[k] = 0
      /\ left[k] > 0 => tries[k] >= count[k]
      /\ count[k] < Limit => tries[k] <= count[k]

TableBounded == IsFiniteSet(entries) /\ Cardinality(entries) <= Capacity

\* The attempts of a username, and the sign-ins that may still add one.
InFlight(k) == {g \in Guesser : guess[g] = k}
FlightsBounded ==
    /\ \A k \in Username : tries[k] + Cardinality(InFlight(k)) <= Limit - 1 + Cardinality(Guesser)
    /\ \A k \in Account : tries[k] <= Limit

LimiterInv == LimiterTyped /\ TableTellsTries /\ TableBounded /\ FlightsBounded

-------------------------------------------------------------------------------
(* Counting an attempt *)

LEMMA FlightsFinite ==
    ASSUME NEW S \in SUBSET Guesser, NEW T \in SUBSET S
    PROVE  /\ IsFiniteSet(S) /\ Cardinality(S) \in Nat /\ Cardinality(Guesser) \in Nat
           /\ Cardinality(S) <= Cardinality(Guesser)
           /\ Cardinality(T) \in Nat /\ Cardinality(T) <= Cardinality(S)
<1>1. IsFiniteSet(S) /\ Cardinality(S) <= Cardinality(Guesser)
  BY LimiterAssumption, FS_Subset
<1>2. IsFiniteSet(T) /\ Cardinality(T) <= Cardinality(S)
  BY <1>1, FS_Subset
<1> QED
  BY <1>1, <1>2, LimiterAssumption, FS_CardinalityType

\* A key that is not live gets an entry of its own; Room keeps the table bounded.
LEMMA RoomMade ==
    ASSUME TableBounded, NEW k, NEW gone \in Room(k), NEW kept,
           kept \subseteq (entries \ gone) \cup {k}
    PROVE  IsFiniteSet(kept) /\ Cardinality(kept) <= Capacity
<1> USE DEF TableBounded
<1>1. Cardinality(entries) \in Nat /\ Capacity \in Nat
  BY FS_CardinalityType, LimiterAssumption
<1>2. CASE k \in entries
  <2>1. kept \in SUBSET entries
    BY <1>2
  <2> QED
    BY <2>1, <1>1, FS_Subset, FS_CardinalityType
<1>3. CASE k \notin entries /\ Cardinality(entries) < Capacity
  <2>1. kept \in SUBSET (entries \cup {k})
    OBVIOUS
  <2>2. IsFiniteSet(entries \cup {k}) /\ Cardinality(entries \cup {k}) = Cardinality(entries) + 1
    BY <1>3, FS_AddElement
  <2> QED
    BY <2>1, <2>2, <1>1, <1>3, FS_Subset, FS_CardinalityType
<1>4. CASE k \notin entries /\ Cardinality(entries) >= Capacity
  <2>1. PICK j \in entries : j \in gone
    BY <1>4 DEF Room, Expired
  <2>2. /\ IsFiniteSet(entries \ {j})
        /\ Cardinality(entries \ {j}) = Cardinality(entries) - 1
    BY FS_RemoveElement
  <2>3. /\ IsFiniteSet((entries \ {j}) \cup {k})
        /\ Cardinality((entries \ {j}) \cup {k}) = Cardinality(entries)
    BY <2>2, <1>1, <1>4, FS_AddElement
  <2>4. kept \in SUBSET ((entries \ {j}) \cup {k})
    BY <2>1
  <2> QED
    BY <2>3, <2>4, <1>1, FS_Subset, FS_CardinalityType
<1> QED
  BY <1>1, <1>2, <1>3, <1>4

\* What counting an attempt of one key does to all the keys.
CountedFor(k) ==
    /\ count' \in [Key -> 0..Limit] /\ left' \in [Key -> 0..Window] /\ tries' \in [Key -> Nat]
    /\ TableTellsTries' /\ TableBounded'
    /\ tries'[k] <= tries[k] + 1 /\ (left[k] = 0 \/ count[k] < Limit => tries'[k] <= Limit)
    /\ \A j \in Key \ {k} : tries'[j] <= tries[j]

LEMMA CountKeeps ==
    ASSUME LimiterTyped, TableTellsTries, TableBounded, NEW k \in Key, ~Spent(k), Count(k)
    PROVE  CountedFor(k)
<1> USE LimiterAssumption DEF LimiterTyped, TableTellsTries
<1>1. CASE k \in entries \ Expired
  <2>1. count[k] > 0 /\ left[k] > 0 /\ count[k] < Limit
    BY <1>1 DEF Spent, entries, Expired
  <2>2. /\ count' = [count EXCEPT ![k] = @ + 1] /\ tries' = [tries EXCEPT ![k] = @ + 1]
        /\ left' = left
    BY <1>1 DEF Count
  <2>3. entries' = entries
    BY <2>1, <2>2 DEF entries
  <2> QED
    BY <2>1, <2>2, <2>3 DEF CountedFor, TableBounded
<1>2. CASE k \notin entries \ Expired
  <2>1. PICK gone \in Room(k) :
          /\ count' = [j \in Key |-> IF j = k THEN 1 ELSE IF j \in gone THEN 0 ELSE count[j]]
          /\ left' = [j \in Key |-> IF j = k THEN Window ELSE IF j \in gone THEN 0 ELSE left[j]]
          /\ tries' = [j \in Key |-> IF j = k THEN 1 ELSE IF j \in gone THEN 0 ELSE tries[j]]
    BY <1>2 DEF Count
  <2>2. left[k] = 0 /\ tries[k] = 0
    BY <1>2 DEF entries, Expired
  <2>3. entries' \subseteq (entries \ gone) \cup {k}
    BY <2>1 DEF entries
  <2>4. TableBounded'
    BY <2>3, RoomMade DEF TableBounded
  <2> QED
    BY <2>1, <2>2, <2>4 DEF CountedFor
<1> QED
  BY <1>1, <1>2

-------------------------------------------------------------------------------
LEMMA LimiterInvInit == LimiterInit => LimiterInv
<1> SUFFICES ASSUME LimiterInit PROVE LimiterInv
  OBVIOUS
<1> USE LimiterAssumption DEF LimiterInit
<1>1. entries = {}
  BY DEF entries
<1>2. \A k \in Username : Cardinality(InFlight(k)) = 0
  <2>1. \A k \in Username : InFlight(k) = {}
    BY DEF InFlight
  <2> QED
    BY <2>1, FS_EmptySet
<1>3. Cardinality(Guesser) \in Nat
  BY FS_CardinalityType
<1> QED
  BY <1>1, <1>2, <1>3, FS_EmptySet
  DEF LimiterInv, LimiterTyped, TableTellsTries, TableBounded, FlightsBounded, Key

LEMMA LimiterInvStep == LimiterInv /\ [LimiterNext]_limiterVars => LimiterInv'
<1> SUFFICES ASSUME LimiterInv, [LimiterNext]_limiterVars PROVE LimiterInv'
  OBVIOUS
<1> USE LimiterAssumption DEF LimiterInv
<1>1. ASSUME NEW k \in Account, Attempt(k) PROVE LimiterInv'
  <2>1. k \in Key /\ k \notin Username
    BY DEF Key
  <2>2. CountedFor(k) /\ guess' = guess
    BY <1>1, <2>1, CountKeeps DEF Attempt, Admits
  <2>3. left[k] = 0 \/ count[k] < Limit
    BY <1>1, <2>1 DEF Attempt, Admits, Spent, entries, Expired, LimiterTyped, TableTellsTries
  <2>4. \A j \in Username : /\ InFlight(j)' = InFlight(j) /\ tries'[j] <= tries[j]
                           /\ tries[j] \in Nat /\ tries'[j] \in Nat
                           /\ Cardinality(InFlight(j)) \in Nat
    BY <2>1, <2>2, FlightsFinite DEF InFlight, CountedFor, Key, LimiterTyped
  <2>5. FlightsBounded'
    <3>1. Cardinality(Guesser) \in Nat
      BY FlightsFinite
    <3>2. \A j \in Account : tries'[j] <= Limit
      BY <2>2, <2>3 DEF CountedFor, FlightsBounded, Key, LimiterTyped
    <3> QED
      BY <2>4, <3>1, <3>2 DEF FlightsBounded
  <2> QED
    BY <2>2, <2>5 DEF CountedFor, LimiterTyped
<1>2. ASSUME NEW g \in Guesser, NEW k \in Username, BeginGuess(g, k) PROVE LimiterInv'
  <2>1. guess' = [guess EXCEPT ![g] = k] /\ guess[g] = Nobody /\ UNCHANGED <<count, left, tries>>
    BY <1>2 DEF BeginGuess
  <2>2. tries[k] <= Limit - 1 /\ tries[k] \in Nat
    BY <1>2 DEF BeginGuess, Spent, entries, Expired, LimiterTyped, TableTellsTries, Key
  <2>3. Cardinality(InFlight(k)') <= Cardinality(Guesser) /\ Cardinality(InFlight(k)') \in Nat
    BY FlightsFinite DEF InFlight
  <2>4. \A j \in Username \ {k} : InFlight(j)' = InFlight(j)
    BY <2>1 DEF InFlight, LimiterTyped
  <2>5. FlightsBounded'
    <3>1. Cardinality(Guesser) \in Nat
      BY FlightsFinite
    <3> QED
      BY <2>1, <2>2, <2>3, <2>4, <3>1 DEF FlightsBounded
  <2>6. TableTellsTries' /\ TableBounded'
    BY <2>1 DEF TableTellsTries, TableBounded, entries
  <2> QED
    BY <2>1, <2>5, <2>6 DEF LimiterTyped
<1>3. ASSUME NEW g \in Guesser, FailGuess(g) PROVE LimiterInv'
  <2>0. PICK k \in Username : k = guess[g]
    BY <1>3 DEF FailGuess, LimiterTyped
  <2>1. k \in Username /\ k \in Key /\ k \notin Account /\ guess' = [guess EXCEPT ![g] = Nobody]
    BY <1>3 DEF FailGuess, Key
  <2>2. /\ Cardinality(InFlight(k)') = Cardinality(InFlight(k)) - 1
        /\ Cardinality(InFlight(k)) \in Nat
    <3>1. InFlight(k)' = InFlight(k) \ {g} /\ g \in InFlight(k)
      BY <2>0, <2>1 DEF InFlight, LimiterTyped
    <3>2. InFlight(k) \in SUBSET Guesser
      BY DEF InFlight
    <3>3. IsFiniteSet(InFlight(k)) /\ Cardinality(InFlight(k)) \in Nat
      BY <3>2, FlightsFinite
    <3> QED
      BY <3>1, <3>3, FS_RemoveElement
  <2>3. \A j \in Username \ {k} : InFlight(j)' = InFlight(j)
    BY <2>0, <2>1 DEF InFlight, LimiterTyped
  <2>4. /\ count' \in [Key -> 0..Limit] /\ left' \in [Key -> 0..Window] /\ tries' \in [Key -> Nat]
        /\ TableTellsTries' /\ TableBounded'
        /\ tries'[k] <= tries[k] + 1
        /\ \A j \in Key \ {k} : tries'[j] <= tries[j]
    <3>1. CASE Admits(k)
      BY <1>3, <2>0, <2>1, <3>1, CountKeeps DEF FailGuess, Admits, CountedFor
    <3>2. CASE ~Admits(k)
      <4>1. /\ tries' = [tries EXCEPT ![k] = @ + 1] /\ UNCHANGED <<count, left>>
            /\ count[k] >= Limit /\ left[k] # 0
        BY <1>3, <2>0, <3>2 DEF FailGuess, Refuse, Admits, Spent, entries, Expired
      <4> QED
        BY <2>1, <4>1 DEF LimiterTyped, TableTellsTries, TableBounded, entries
    <3> QED
      BY <3>1, <3>2
  <2>5. FlightsBounded'
    <3>1. Cardinality(Guesser) \in Nat /\ \A j \in Username : Cardinality(InFlight(j)) \in Nat
      BY FlightsFinite DEF InFlight
    <3>2. \A j \in Key : tries[j] \in Nat /\ tries'[j] \in Nat
      BY <2>4 DEF LimiterTyped
    <3>3. \A j \in Account : tries'[j] <= tries[j]
      BY <2>1, <2>4 DEF Key
    <3>4. ASSUME NEW j \in Username
          PROVE  tries'[j] + Cardinality(InFlight(j)') <= tries[j] + Cardinality(InFlight(j))
      <4>1. CASE j = k
        BY <4>1, <2>2, <2>4, <3>1, <3>2 DEF Key
      <4>2. CASE j # k
        <5>1. InFlight(j)' = InFlight(j) /\ tries'[j] <= tries[j]
          BY <4>2, <2>3, <2>4 DEF Key
        <5> QED
          BY <5>1, <3>1, <3>2 DEF Key
      <4> QED
        BY <4>1, <4>2
    <3>5. \A j \in Username : Cardinality(InFlight(j)') \in Nat
      BY FlightsFinite DEF InFlight
    <3> QED
      BY <3>1, <3>2, <3>3, <3>4, <3>5 DEF FlightsBounded, Key
  <2> QED
    BY <2>1, <2>4, <2>5 DEF LimiterTyped
<1>4. ASSUME NEW g \in Guesser, Succeed(g) PROVE LimiterInv'
  <2>1. guess' = [guess EXCEPT ![g] = Nobody] /\ UNCHANGED <<count, left, tries>>
    BY <1>4 DEF Succeed
  <2>2. \A j \in Username :
          /\ Cardinality(InFlight(j)') <= Cardinality(InFlight(j))
          /\ Cardinality(InFlight(j)) \in Nat /\ Cardinality(InFlight(j)') \in Nat
    <3>1. \A j \in Username : InFlight(j)' \in SUBSET InFlight(j) /\ InFlight(j) \in SUBSET Guesser
      BY <2>1 DEF InFlight, LimiterTyped
    <3> QED
      BY <3>1, FlightsFinite
  <2>3. FlightsBounded'
    <3>1. Cardinality(Guesser) \in Nat /\ \A j \in Key : tries[j] \in Nat
      BY FlightsFinite DEF LimiterTyped
    <3> QED
      BY <2>1, <2>2, <3>1 DEF FlightsBounded, Key
  <2>4. TableTellsTries' /\ TableBounded'
    BY <2>1 DEF TableTellsTries, TableBounded, entries
  <2> QED
    BY <2>1, <2>3, <2>4 DEF LimiterTyped
<1>5. ASSUME Tick PROVE LimiterInv'
  <2>1. /\ left' = [k \in Key |-> IF left[k] > 0 THEN left[k] - 1 ELSE 0]
        /\ tries' = [k \in Key |-> IF left[k] = 1 THEN 0 ELSE tries[k]]
        /\ UNCHANGED <<count, guess>>
    BY <1>5 DEF Tick
  <2>2. TableTellsTries' /\ TableBounded' /\ LimiterTyped'
    BY <2>1 DEF TableTellsTries, TableBounded, LimiterTyped, entries
  <2>3. FlightsBounded'
    <3>1. \A k \in Key : tries'[k] <= tries[k] /\ tries[k] \in Nat /\ tries'[k] \in Nat
      BY <2>1 DEF LimiterTyped
    <3>2. Cardinality(Guesser) \in Nat
      BY FlightsFinite
    <3>3. \A j \in Username : InFlight(j)' = InFlight(j) /\ Cardinality(InFlight(j)) \in Nat
      BY <2>1, FlightsFinite DEF InFlight
    <3> QED
      BY <3>1, <3>2, <3>3 DEF FlightsBounded, Key
  <2> QED
    BY <2>2, <2>3
<1>6. CASE UNCHANGED limiterVars
  BY <1>6 DEF limiterVars, LimiterTyped, TableTellsTries, TableBounded, FlightsBounded,
              InFlight, entries
<1> QED
  BY <1>1, <1>2, <1>3, <1>4, <1>5, <1>6 DEF LimiterNext

-------------------------------------------------------------------------------
\* The inductive invariant of the limiter, for any limit, capacity, window, keys
\* and number of sign-ins at once (internal/server/auth_rate_limit.go).
THEOREM LimiterInvAlways == LimiterSpec => []LimiterInv
<1> QED
  BY LimiterInvInit, LimiterInvStep, PTL DEF LimiterSpec

\* The table never holds more keys than its capacity, no key counts past the
\* limit, and what the history counts is bounded too.
THEOREM LimiterStaysTyped == LimiterSpec => []LimiterTypeOK
<1>1. LimiterInv => LimiterTypeOK
  <2> SUFFICES ASSUME LimiterInv PROVE LimiterTypeOK
    OBVIOUS
  <2>1. Cardinality(Guesser) \in Nat /\ \A k \in Username : Cardinality(InFlight(k)) \in Nat
    BY FlightsFinite DEF InFlight
  <2>2. \A k \in Key : tries[k] <= Limit + Cardinality(Guesser)
    BY <2>1, LimiterAssumption DEF LimiterInv, LimiterTyped, FlightsBounded, Key
  <2> QED
    BY <2>1, <2>2, LimiterAssumption DEF LimiterInv, LimiterTyped, TableBounded, LimiterTypeOK
<1> QED
  BY LimiterInvAlways, <1>1, PTL

\* However many sign-ins pass the check before one of them has failed, no more
\* passwords for one username fail in a window than the limit and the other
\* sign-ins in flight.
THEOREM GuessesStayBounded == LimiterSpec => []GuessesBounded
<1>1. LimiterInv => GuessesBounded
  <2> SUFFICES ASSUME LimiterInv PROVE GuessesBounded
    OBVIOUS
  <2>1. Cardinality(Guesser) \in Nat /\ \A k \in Username : Cardinality(InFlight(k)) \in Nat
    BY FlightsFinite DEF InFlight
  <2> QED
    BY <2>1, LimiterAssumption DEF LimiterInv, LimiterTyped, FlightsBounded, GuessesBounded, Key
<1> QED
  BY LimiterInvAlways, <1>1, PTL

\* A key that is refused has spent its own limit in its window, however many
\* other keys fill the table and whichever of them it evicts.
THEOREM OnlySpentKeysRefused == LimiterSpec => []FloodHarmsNobody
<1>1. LimiterInv => FloodHarmsNobody
  BY LimiterAssumption
  DEF LimiterInv, LimiterTyped, TableTellsTries, FloodHarmsNobody, Admits, Spent, entries, Expired
<1> QED
  BY LimiterInvAlways, <1>1, PTL

-------------------------------------------------------------------------------
(* Sequences as sets *)

LEMMA AppendElements ==
    ASSUME NEW S, NEW s \in Seq(S), NEW x
    PROVE  ToSet(Append(s, x)) = ToSet(s) \cup {x}
<1>1. ASSUME NEW y \in ToSet(s) PROVE y \in ToSet(Append(s, x))
  BY <1>1 DEF ToSet
<1>2. x \in ToSet(Append(s, x))
  <2>1. Append(s, x)[Len(s) + 1] = x /\ Len(s) + 1 \in DOMAIN Append(s, x)
    OBVIOUS
  <2> QED
    BY <2>1 DEF ToSet
<1>3. ASSUME NEW y \in ToSet(Append(s, x)) PROVE y = x \/ y \in ToSet(s)
  BY <1>3 DEF ToSet
<1> QED
  BY <1>1, <1>2, <1>3

LEMMA TailElements ==
    ASSUME NEW S, NEW s \in Seq(S), s # <<>>
    PROVE  ToSet(s) = ToSet(Tail(s)) \cup {Head(s)}
<1>1. ASSUME NEW i \in DOMAIN Tail(s) PROVE Tail(s)[i] \in ToSet(s)
  BY <1>1 DEF ToSet
<1>2. Head(s) \in ToSet(s)
  BY DEF ToSet
<1>3. ASSUME NEW i \in DOMAIN s PROVE s[i] = Head(s) \/ s[i] \in ToSet(Tail(s))
  <2>1. CASE i = 1
    BY <2>1
  <2>2. CASE i # 1
    <3>1. i - 1 \in DOMAIN Tail(s) /\ Tail(s)[i - 1] = s[i]
      BY <2>2
    <3> QED
      BY <3>1 DEF ToSet
  <2> QED
    BY <2>1, <2>2
<1> QED
  BY <1>1, <1>2, <1>3 DEF ToSet

-------------------------------------------------------------------------------
(* The realtime feed *)

RealtimeTyped ==
    /\ sent \in 0..Events /\ listener \in {"down", "listening", "up"}
    /\ notified \in Seq(1..Events)
    /\ stage \in [Watcher -> {"open", "authorized", "subscribed", "closed"}]
    /\ pump \in [Watcher -> {"top", "wait", "resync"}]
    /\ queue \in [Watcher -> Seq(1..Events)]
    /\ \A c \in Watcher : Len(queue[c]) <= SendBuffer
    /\ control \in [Watcher -> BOOLEAN] /\ leaving \in [Watcher -> BOOLEAN]
    /\ missing \in [Watcher -> SUBSET (1..sent)]
    /\ late \in [Watcher -> Nat]

\* The write pump looks at the urgent channels before it waits for an event, so
\* only a client that was already waiting when it was told to leave writes one.
LeavesAfterOne ==
    \A c \in Watcher :
      /\ late[c] <= 1
      /\ ~leaving[c] \/ pump[c] = "wait" => late[c] = 0

RealtimeInv == RealtimeTyped /\ NoSilentGap /\ LeavesAfterOne

LEMMA RealtimeInvInit == RealtimeInit => RealtimeInv
  BY RealtimeAssumption DEF RealtimeInit, RealtimeInv, RealtimeTyped, NoSilentGap, LeavesAfterOne,
     Subscribed

LEMMA RealtimeTypedStep == RealtimeTyped /\ [RealtimeNext]_realtimeVars => RealtimeTyped'
<1> SUFFICES ASSUME RealtimeTyped, [RealtimeNext]_realtimeVars PROVE RealtimeTyped'
  OBVIOUS
<1> USE RealtimeAssumption DEF RealtimeTyped, feedVars, watcherVars
<1>1. CASE UNCHANGED realtimeVars
  BY <1>1 DEF realtimeVars
<1>2. CASE Commit
  <2>1. sent' = sent + 1 /\ sent' \in 0..Events /\ sent + 1 \in 1..Events
    BY <1>2 DEF Commit
  <2>2. notified' \in Seq(1..Events)
    <3>1. Append(notified, sent + 1) \in Seq(1..Events) /\ <<>> \in Seq(1..Events)
      BY <2>1
    <3> QED
      BY <1>2, <3>1 DEF Commit
  <2>3. missing' \in [Watcher -> SUBSET (1..sent')]
    <3>1. \A c \in Watcher : missing[c] \subseteq 1..(sent + 1) /\ sent + 1 \in 1..(sent + 1)
      BY <2>1
    <3> QED
      BY <1>2, <2>1, <3>1 DEF Commit
  <2> QED
    BY <1>2, <2>1, <2>2, <2>3 DEF Commit
<1>3. CASE Listen
  BY <1>3 DEF Listen
<1>4. CASE ResyncAll
  BY <1>4 DEF ResyncAll
<1>5. CASE LoseConnection
  BY <1>5 DEF LoseConnection
<1>6. CASE Publish
  <2>1. Head(notified) \in 1..Events /\ Tail(notified) \in Seq(1..Events)
    BY <1>6 DEF Publish
  <2>2. ASSUME NEW c \in Watcher
        PROVE  queue'[c] \in Seq(1..Events) /\ Len(queue'[c]) <= SendBuffer
    <3>1. Append(queue[c], Head(notified)) \in Seq(1..Events)
          /\ Len(Append(queue[c], Head(notified))) = Len(queue[c]) + 1
      BY <2>1
    <3>2. \/ queue'[c] = queue[c]
          \/ Len(queue[c]) < SendBuffer /\ queue'[c] = Append(queue[c], Head(notified))
      BY <1>6 DEF Publish
    <3>3. queue[c] \in Seq(1..Events) /\ Len(queue[c]) \in Nat /\ Len(queue[c]) <= SendBuffer
      OBVIOUS
    <3>4. CASE queue'[c] = queue[c]
      BY <3>3, <3>4
    <3>5. CASE Len(queue[c]) < SendBuffer /\ queue'[c] = Append(queue[c], Head(notified))
      BY <3>1, <3>3, <3>5
    <3> QED
      BY <3>2, <3>4, <3>5
  <2>3. queue' \in [Watcher -> Seq(1..Events)]
    BY <1>6, <2>2 DEF Publish
  <2> QED
    BY <1>6, <2>1, <2>2, <2>3 DEF Publish
<1>7. CASE DisconnectAll
  BY <1>7 DEF DisconnectAll
<1>8. ASSUME NEW c \in Watcher, Authorize(c) PROVE RealtimeTyped'
  BY <1>8 DEF Authorize
<1>9. ASSUME NEW c \in Watcher, Subscribe(c) PROVE RealtimeTyped'
  BY <1>9 DEF Subscribe
<1>10. ASSUME NEW c \in Watcher, Unsubscribe(c) PROVE RealtimeTyped'
  BY <1>10 DEF Unsubscribe
<1>11. ASSUME NEW c \in Watcher, CloseClient(c) PROVE RealtimeTyped'
  BY <1>11 DEF CloseClient
<1>12. ASSUME NEW c \in Watcher, Wait(c) PROVE RealtimeTyped'
  BY <1>12 DEF Wait
<1>13. ASSUME NEW c \in Watcher, TakeControl(c) PROVE RealtimeTyped'
  BY <1>13 DEF TakeControl
<1>14. ASSUME NEW c \in Watcher, WriteControl(c) PROVE RealtimeTyped'
  BY <1>14 DEF WriteControl
<1>15. ASSUME NEW c \in Watcher, WriteEvent(c) PROVE RealtimeTyped'
  <2>1. Tail(queue[c]) \in Seq(1..Events) /\ Len(Tail(queue[c])) <= SendBuffer
    BY <1>15 DEF WriteEvent
  <2> QED
    BY <1>15, <2>1 DEF WriteEvent
<1>16. ASSUME NEW c \in Watcher, TakeAccess(c) PROVE RealtimeTyped'
  BY <1>16 DEF TakeAccess
<1> QED
  BY <1>1, <1>2, <1>3, <1>4, <1>5, <1>6, <1>7, <1>8, <1>9, <1>10, <1>11, <1>12, <1>13,
     <1>14, <1>15, <1>16 DEF RealtimeNext

\* An event moves from the connection to the queues, where there is room; who has
\* none is told to refetch.
LEMMA NoSilentGapStep ==
    RealtimeTyped /\ NoSilentGap /\ [RealtimeNext]_realtimeVars => NoSilentGap'
<1> SUFFICES ASSUME RealtimeTyped, NoSilentGap, [RealtimeNext]_realtimeVars,
                    NEW c \in Watcher, stage'[c] = "subscribed"
             PROVE  \/ missing'[c] \subseteq ToSet(queue'[c]) \cup ToSet(notified')
                    \/ control'[c] \/ pump'[c] = "resync" \/ listener' # "up"
  BY DEF NoSilentGap, Subscribed
<1> USE RealtimeAssumption DEF RealtimeTyped, NoSilentGap, Subscribed, feedVars, watcherVars
<1>1. CASE UNCHANGED realtimeVars
  BY <1>1 DEF realtimeVars
<1>2. CASE Commit
  <2>1. listener = "up" => ToSet(notified') = ToSet(notified) \cup {sent + 1}
    BY <1>2, AppendElements DEF Commit
  <2> QED
    BY <1>2, <2>1 DEF Commit
<1>3. CASE Listen
  BY <1>3 DEF Listen
<1>4. CASE ResyncAll
  BY <1>4 DEF ResyncAll, Resynced
<1>5. CASE LoseConnection
  BY <1>5 DEF LoseConnection
<1>6. CASE Publish
  <2>1. ToSet(notified) = ToSet(notified') \cup {Head(notified)}
    BY <1>6, TailElements DEF Publish
  <2>2. CASE Len(queue[c]) < SendBuffer
    <3>1. ToSet(queue'[c]) = ToSet(queue[c]) \cup {Head(notified)}
      BY <1>6, <2>2, AppendElements DEF Publish
    <3> QED
      BY <1>6, <2>1, <3>1 DEF Publish
  <2>3. CASE ~(Len(queue[c]) < SendBuffer)
    <3>1. stage[c] = "subscribed" /\ Len(queue[c]) >= SendBuffer
      BY <1>6, <2>3 DEF Publish
    <3>2. control'[c]
      BY <1>6, <3>1, Zenon DEF Publish
    <3> QED
      BY <3>2
  <2> QED
    BY <2>2, <2>3
<1>7. CASE DisconnectAll
  BY <1>7 DEF DisconnectAll
<1>8. ASSUME NEW d \in Watcher, Authorize(d) \/ Subscribe(d) \/ Unsubscribe(d) \/ CloseClient(d)
      PROVE  \/ missing'[c] \subseteq ToSet(queue'[c]) \cup ToSet(notified')
             \/ control'[c] \/ pump'[c] = "resync" \/ listener' # "up"
  BY <1>8 DEF Authorize, Subscribe, Unsubscribe, CloseClient
<1>9. ASSUME NEW d \in Watcher, Wait(d) \/ TakeControl(d) \/ WriteControl(d) \/ TakeAccess(d)
      PROVE  \/ missing'[c] \subseteq ToSet(queue'[c]) \cup ToSet(notified')
             \/ control'[c] \/ pump'[c] = "resync" \/ listener' # "up"
  BY <1>9 DEF Wait, TakeControl, WriteControl, TakeAccess
<1>10. ASSUME NEW d \in Watcher, WriteEvent(d)
       PROVE  \/ missing'[c] \subseteq ToSet(queue'[c]) \cup ToSet(notified')
              \/ control'[c] \/ pump'[c] = "resync" \/ listener' # "up"
  <2>1. ToSet(queue[d]) = ToSet(Tail(queue[d])) \cup {Head(queue[d])}
    BY <1>10, TailElements DEF WriteEvent
  <2> QED
    BY <1>10, <2>1 DEF WriteEvent
<1> QED
  BY <1>1, <1>2, <1>3, <1>4, <1>5, <1>6, <1>7, <1>8, <1>9, <1>10 DEF RealtimeNext

LEMMA LeavesAfterOneStep ==
    RealtimeTyped /\ LeavesAfterOne /\ [RealtimeNext]_realtimeVars => LeavesAfterOne'
<1> SUFFICES ASSUME RealtimeTyped, LeavesAfterOne, [RealtimeNext]_realtimeVars
             PROVE  LeavesAfterOne'
  OBVIOUS
<1> USE DEF RealtimeTyped, LeavesAfterOne, feedVars, watcherVars
<1>1. CASE UNCHANGED realtimeVars
  BY <1>1 DEF realtimeVars
<1>2. CASE Commit \/ Listen \/ ResyncAll \/ LoseConnection \/ Publish
  BY <1>2 DEF Commit, Listen, ResyncAll, LoseConnection, Publish
<1>3. CASE DisconnectAll
  BY <1>3 DEF DisconnectAll
<1>4. ASSUME NEW c \in Watcher,
             Authorize(c) \/ Subscribe(c) \/ Unsubscribe(c) \/ CloseClient(c) \/ TakeAccess(c)
      PROVE  LeavesAfterOne'
  BY <1>4 DEF Authorize, Subscribe, Unsubscribe, CloseClient, TakeAccess
<1>5. ASSUME NEW c \in Watcher, Wait(c) PROVE LeavesAfterOne'
  BY <1>5 DEF Wait, Urgent
<1>6. ASSUME NEW c \in Watcher, TakeControl(c) \/ WriteControl(c) PROVE LeavesAfterOne'
  BY <1>6 DEF TakeControl, WriteControl
<1>7. ASSUME NEW c \in Watcher, WriteEvent(c) PROVE LeavesAfterOne'
  BY <1>7 DEF WriteEvent
<1> QED
  BY <1>1, <1>2, <1>3, <1>4, <1>5, <1>6, <1>7 DEF RealtimeNext

LEMMA RealtimeInvAlways == RealtimeSpec => []RealtimeInv
<1>1. RealtimeInv /\ [RealtimeNext]_realtimeVars => RealtimeInv'
  BY RealtimeTypedStep, NoSilentGapStep, LeavesAfterOneStep DEF RealtimeInv
<1> QED
  BY RealtimeInvInit, <1>1, PTL DEF RealtimeSpec
\* A queue never grows beyond SendBuffer, however fast changes are committed, and
\* what a client is told to refetch for was committed.
THEOREM RealtimeStaysTyped == RealtimeSpec => []RealtimeTypeOK
<1>1. RealtimeInv => RealtimeTypeOK
  BY DEF RealtimeInv, RealtimeTyped, RealtimeTypeOK
<1> QED
  BY RealtimeInvAlways, <1>1, PTL

\* No client diverges silently (hub.go:13-16), for any number of clients and any
\* size of their queues: what it lacks is on its way, or it will refetch.
THEOREM NothingMissedSilently == RealtimeSpec => []NoSilentGap
<1>1. RealtimeInv => NoSilentGap
  BY DEF RealtimeInv
<1> QED
  BY RealtimeInvAlways, <1>1, PTL

\* A client that was told to leave is written at most one more event, whenever
\* its pump learns of it.
THEOREM LeavesAfterOneEvent == RealtimeSpec => []OneLateEvent
<1>1. RealtimeInv => OneLateEvent
  BY DEF RealtimeInv, LeavesAfterOne, OneLateEvent
<1> QED
  BY RealtimeInvAlways, <1>1, PTL

-------------------------------------------------------------------------------
(* Links to GitHub *)

LEMMA Concatenated ==
    ASSUME NEW S, NEW a \in Seq(S), NEW b \in Seq(S)
    PROVE  /\ a \o b \in Seq(S) /\ Len(a \o b) = Len(a) + Len(b)
           /\ \A i \in 1..Len(a) : (a \o b)[i] = a[i]
           /\ \A i \in (Len(a) + 1)..(Len(a) + Len(b)) : (a \o b)[i] = b[i - Len(a)]
  OBVIOUS

\* Without duplicates, removing the first occurrence of an element removes it.
LEMMA RemoveFirstElements ==
    ASSUME NEW S, NEW s \in Seq(S), NEW e, IsInjective(s)
    PROVE  /\ RemoveFirst(s, e) \in Seq(S) /\ IsInjective(RemoveFirst(s, e))
           /\ ToSet(RemoveFirst(s, e)) = ToSet(s) \ {e}
<1>1. CASE ~\E i \in 1..Len(s) : s[i] = e
  BY <1>1 DEF RemoveFirst, ToSet
<1>2. ASSUME NEW k \in 1..Len(s), s[k] = e
      PROVE  /\ RemoveFirst(s, e) \in Seq(S) /\ IsInjective(RemoveFirst(s, e))
             /\ ToSet(RemoveFirst(s, e)) = ToSet(s) \ {e}
  <2>1. {i \in 1..Len(s) : s[i] = e} = {k}
    BY <1>2 DEF IsInjective
  <2>2. Min({k}) = k
    BY DEF Min
  <2>3. RemoveFirst(s, e) = RemoveAt(s, k)
    BY <1>2, <2>1, <2>2 DEF RemoveFirst, SelectInSeq
  <2> DEFINE t == RemoveAt(s, k)
  <2>4. /\ t \in Seq(S) /\ Len(t) = Len(s) - 1
        /\ \A i \in 1..(Len(s) - 1) : t[i] = IF i < k THEN s[i] ELSE s[i + 1]
    <3> DEFINE a == SubSeq(s, 1, k - 1)
               b == SubSeq(s, k + 1, Len(s))
    <3>1. a \in Seq(S) /\ Len(a) = k - 1 /\ \A i \in 1..(k - 1) : a[i] = s[i]
      OBVIOUS
    <3>2. b \in Seq(S) /\ Len(b) = Len(s) - k /\ \A i \in 1..(Len(s) - k) : b[i] = s[k + i]
      OBVIOUS
    <3>3. t = a \o b
      BY DEF RemoveAt
    <3> HIDE DEF t, a, b
    <3>4. /\ t \in Seq(S) /\ Len(t) = Len(a) + Len(b)
          /\ \A i \in 1..Len(a) : t[i] = a[i]
          /\ \A i \in (Len(a) + 1)..(Len(a) + Len(b)) : t[i] = b[i - Len(a)]
      BY <3>1, <3>2, <3>3, Concatenated
    <3>5. Len(s) \in Nat /\ k \in 1..Len(s)
      BY <1>2
    <3>6. ASSUME NEW i \in 1..(Len(s) - 1) PROVE t[i] = IF i < k THEN s[i] ELSE s[i + 1]
      <4>1. CASE i < k
        <5>1. i \in 1..Len(a) /\ i \in 1..(k - 1)
          BY <3>1, <3>5, <4>1
        <5> QED
          BY <3>1, <3>4, <4>1, <5>1
      <4>2. CASE ~(i < k)
        <5>1. t[i] = b[i - (k - 1)] /\ i - (k - 1) \in 1..(Len(s) - k)
          BY <3>1, <3>2, <3>4, <3>5, <4>2
        <5>2. k + (i - (k - 1)) = i + 1
          BY <3>5
        <5> QED
          BY <3>2, <4>2, <5>1, <5>2
      <4> QED
        BY <4>1, <4>2
    <3>7. Len(t) = Len(s) - 1
      BY <3>1, <3>2, <3>4, <3>5
    <3> QED
      BY <3>4, <3>6, <3>7
  <2>5. IsInjective(t)
    BY <2>4 DEF IsInjective
  <2>6. ToSet(t) = ToSet(s) \ {e}
    <3>1. ASSUME NEW i \in DOMAIN t PROVE t[i] \in ToSet(s) \ {e}
      BY <1>2, <2>4 DEF ToSet, IsInjective
    <3>2. ASSUME NEW i \in DOMAIN s, i # k PROVE s[i] \in ToSet(t)
      <4>1. CASE i < k
        BY <2>4, <4>1 DEF ToSet
      <4>2. CASE i > k
        <5>1. i - 1 \in DOMAIN t /\ t[i - 1] = s[i]
          BY <2>4, <4>2
        <5> QED
          BY <5>1 DEF ToSet
      <4> QED
        BY <3>2, <4>1, <4>2
    <3> QED
      BY <1>2, <3>1, <3>2 DEF ToSet
  <2> QED
    BY <2>3, <2>4, <2>5, <2>6
<1> QED
  BY <1>1, <1>2

\* A link whose refresh has come is live and waits in one place only.
GitHubInv ==
    /\ GitHubTypeOK
    /\ waiting \in Seq(Link) /\ IsInjective(waiting)

\* A link that is deleted or refreshed waits no more.
LEMMA NoLongerWaits ==
    ASSUME GitHubInv, NEW l \in Link
    PROVE  /\ NoLonger(l) \in Seq(Link) /\ IsInjective(NoLonger(l))
           /\ ToSet(NoLonger(l)) = ToSet(waiting) \ {l}
  BY RemoveFirstElements DEF GitHubInv, NoLonger

LEMMA GitHubInvInit == GitHubInit => GitHubInv
  BY GitHubAssumption
  DEF GitHubInit, GitHubInv, GitHubTypeOK, Living, ToSet, IsInjective

LEMMA GitHubInvStep == GitHubInv /\ [GitHubNext]_githubVars => GitHubInv'
<1> SUFFICES ASSUME GitHubInv, [GitHubNext]_githubVars PROVE GitHubInv'
  OBVIOUS
<1> USE GitHubAssumption DEF GitHubInv, GitHubTypeOK, Living
<1>1. CASE UNCHANGED githubVars
  BY <1>1 DEF githubVars
<1>2. ASSUME NEW token \in {"saved", "own"}, UpsertGitHubConnection(token) PROVE GitHubInv'
  BY <1>2 DEF UpsertGitHubConnection
<1>3. CASE DisconnectGitHubConnection
  BY <1>3 DEF DisconnectGitHubConnection, Disconnected
<1>4. CASE DeleteGitHubCredential
  BY <1>4 DEF DeleteGitHubCredential, Disconnected
<1>5. CASE CreateGitHubCredential \/ LenderChanges
  BY <1>5 DEF CreateGitHubCredential, LenderChanges
<1>6. ASSUME NEW l \in Link, CreateGitHubIssueLink(l) PROVE GitHubInv'
  BY <1>6 DEF CreateGitHubIssueLink
<1>7. ASSUME NEW l \in Link, DeleteGitHubIssueLink(l) PROVE GitHubInv'
  BY <1>7, NoLongerWaits DEF DeleteGitHubIssueLink
<1>8. ASSUME NEW l \in Link, ComeDue(l) PROVE GitHubInv'
  <2>1. waiting' \in Seq(Link) /\ ToSet(waiting') = ToSet(waiting) \cup {l}
    BY <1>8, AppendElements DEF ComeDue
  <2>2. IsInjective(waiting')
    BY <1>8 DEF ComeDue, Contains, IsInjective
  <2> QED
    BY <1>8, <2>1, <2>2 DEF ComeDue
<1>9. ASSUME NEW l \in Link, Lapse(l) PROVE GitHubInv'
  BY <1>9 DEF Lapse
<1>10. ASSUME NEW w \in Worker, Claim(w) PROVE GitHubInv'
  BY <1>10 DEF Claim
<1>11. ASSUME NEW w \in Hand, NEW l \in Link, RefreshByHand(w, l) PROVE GitHubInv'
  BY <1>11 DEF RefreshByHand
<1>12. ASSUME NEW w \in Refresher, BeginRefresh(w) PROVE GitHubInv'
  BY <1>12 DEF BeginRefresh
<1>13. ASSUME NEW w \in Refresher, Settle(w) PROVE GitHubInv'
  <2> DEFINE l == Head(work[w].todo)
  <2>1. CASE l \in Living
    BY <1>13, <2>1, NoLongerWaits DEF Settle
  <2>2. CASE l \notin Living
    BY <1>13, <2>2 DEF Settle
  <2> QED
    BY <2>1, <2>2
<1>14. ASSUME NEW w \in Refresher, Crash(w) PROVE GitHubInv'
  BY <1>14 DEF Crash
<1> QED
  BY <1>1, <1>2, <1>3, <1>4, <1>5, <1>6, <1>7, <1>8, <1>9, <1>10, <1>11, <1>12, <1>13,
     <1>14 DEF GitHubNext, Refresh

\* A connection never uses a saved token that was deleted, and only links that
\* are there wait to be refreshed, whatever workers and people do between
\* the steps of a refresh.
THEOREM GitHubStaysTyped == GitHubSpec => []GitHubTypeOK
<1>1. GitHubInv => GitHubTypeOK
  BY DEF GitHubInv
<1> QED
  BY GitHubInvInit, GitHubInvStep, <1>1, PTL DEF GitHubSpec

-------------------------------------------------------------------------------
(* The services of one run *)

\* What a run of all the services shows of one of them it shows of that component:
\* a step of the run is a step of each component or leaves it alone.
THEOREM ServicesAreComponents ==
    ServicesSpec => /\ OAuthSpec /\ SignInSpec /\ SessionsSpec /\ LimiterSpec
                    /\ RealtimeSpec /\ GitHubSpec
<1>1. ServicesInit => /\ OAuthInit /\ SignInInit /\ SessionsInit /\ LimiterInit
                      /\ RealtimeInit /\ GitHubInit
  BY DEF ServicesInit
<1>2. [ServicesNext]_serviceVars =>
        /\ [OAuthNext]_oauthVars /\ [SignInNext]_signInVars /\ [SessionsNext]_sessionVars
        /\ [LimiterNext]_limiterVars /\ [RealtimeNext]_realtimeVars
        /\ [GitHubNext]_githubVars
  BY DEF ServicesNext, serviceVars
<1> QED
  BY <1>1, <1>2, PTL DEF ServicesSpec, OAuthSpec, SignInSpec, SessionsSpec, LimiterSpec,
     RealtimeSpec, GitHubSpec

\* Every service stays well typed for every value of the constants.
THEOREM ServicesStayTyped == ServicesSpec => []ServicesTypeOK
<1>1. OAuthInv => OAuthTypeOK
  BY DEF OAuthInv
<1>2. OAuthTypeOK /\ SignInTypeOK /\ SessionsTypeOK /\ LimiterTypeOK /\ RealtimeTypeOK
      /\ GitHubTypeOK => ServicesTypeOK
  BY DEF ServicesTypeOK
<1>3. SessionsInv => SessionsTypeOK
  BY DEF SessionsInv
<1>4. SessionsSpec => []SessionsInv
  BY SessionsInvInit, SessionsInvStep, PTL DEF SessionsSpec
<1> QED
  BY ServicesAreComponents, OAuthInvAlways, SignInTyped, LimiterStaysTyped,
     RealtimeStaysTyped, GitHubStaysTyped, <1>1, <1>2, <1>3, <1>4, PTL

\* And every invariant of the run holds of it for every value of the constants.
THEOREM ServicesKeepTheirInvariants ==
    ServicesSpec => [](/\ OneLiveRefresh /\ AlwaysAWayIn /\ OneChangePerProof
                       /\ SignedOutByChange /\ GuessesBounded /\ FloodHarmsNobody
                       /\ NoSilentGap /\ OneLateEvent)
  BY ServicesAreComponents, FamiliesStayLinear, NeverLockedOut, ProofBacksOneChange,
     ChangeSignsOut, GuessesStayBounded, OnlySpentKeysRefused, NothingMissedSilently,
     LeavesAfterOneEvent, PTL
================================================================================
