---------------------------- MODULE SignInMethods ----------------------------
(* The ways one account can sign in: its password and its passkeys, and the    *)
(* proofs that changing them takes (internal/store/passkeys.go and settings.go,*)
(* internal/passkeys/service.go, internal/server/passkeys.go).                 *)
(*                                                                             *)
(* A ticket is a row that is consumed once: a reauthentication token ("proof") *)
(* or the session of a WebAuthn ceremony ("add", "reauth").                    *)
EXTENDS Integers, FiniteSets

CONSTANTS Passkey, Ticket, Visit, Null

ASSUME SignInAssumption == Null \notin Passkey \cup Ticket

VARIABLES
    password,       \* "none", "on", or "off": kept, but not to sign in with
    passkey,        \* the state of each passkey
    ticket,         \* what each ticket is
    spent,          \* tickets consumed or expired
    proofOf,        \* the proof a ceremony to add a passkey began with
    changes,        \* history: changes each proof has backed
    visit           \* where each request is, and what it works with

signInVars == <<password, passkey, ticket, spent, proofOf, changes, visit>>

Idle == [at |-> "idle", key |-> Null, proof |-> Null, last |-> FALSE]

Active == {k \in Passkey : passkey[k] = "active"}

\* CreateAccount gives an account a password, CreatePasskeyOnlyAccount a passkey;
\* what it has now, it came to by earlier changes.
SignInInit ==
    /\ password \in {"none", "on", "off"}
    /\ passkey \in [Passkey -> {"none", "active"}]
    /\ password = "on" \/ \E k \in Passkey : passkey[k] = "active"
    /\ ticket = [t \in Ticket |-> "none"] /\ spent = {}
    /\ proofOf = [t \in Ticket |-> Null]
    /\ changes = [t \in Ticket |-> 0]
    /\ visit = [r \in Visit |-> Idle]

Turn(r, state) == visit' = [visit EXCEPT ![r] = state]

Write(t, kind) ==
    /\ ticket[t] = "none"
    /\ ticket' = [ticket EXCEPT ![t] = kind]

\* Mutant: the row is not asked whether it was consumed before.
ConsumableTwice(t, kind) == ticket[t] = kind

\* ConsumePasskeySession and ConsumePasskeyReauthToken: one UPDATE.
TicketGood(t, kind) == ticket[t] = kind /\ t \notin spent

Spend(t, kind) == TicketGood(t, kind) /\ spent' = spent \cup {t}

ExpireTicket(t) ==
    /\ ticket[t] # "none" /\ t \notin spent
    /\ spent' = spent \cup {t}
    /\ UNCHANGED <<password, passkey, ticket, proofOf, changes, visit>>

-------------------------------------------------------------------------------
(* Proving who asks *)

VerifyUserPassword(r) ==
    /\ visit[r].at = "idle" /\ password = "on"
    /\ Turn(r, [Idle EXCEPT !.at = "proved"])
    /\ UNCHANGED <<password, passkey, ticket, spent, proofOf, changes>>

BeginReauth(t) ==
    /\ Active # {}
    /\ Write(t, "reauth")
    /\ UNCHANGED <<password, passkey, spent, proofOf, changes, visit>>

\* FinishReauth consumes the ceremony and checks the answer of an active passkey ...
FinishReauth(r, t, k) ==
    /\ visit[r].at = "idle" /\ k \in Active
    /\ Spend(t, "reauth")
    /\ Turn(r, [Idle EXCEPT !.at = "asserted", !.key = k])
    /\ UNCHANGED <<password, passkey, ticket, proofOf, changes>>

\* ... which must still be active when its use is recorded.
UpdatePasskeyCredentialUsage(r) ==
    /\ visit[r].at = "asserted" /\ visit[r].key \in Active
    /\ Turn(r, [Idle EXCEPT !.at = "proved"])
    /\ UNCHANGED <<password, passkey, ticket, spent, proofOf, changes>>

CreatePasskeyReauthToken(r, t) ==
    /\ visit[r].at = "proved"
    /\ Write(t, "proof")
    /\ Turn(r, Idle)
    /\ UNCHANGED <<password, passkey, spent, proofOf, changes>>

\* Every change consumes a proof before it looks at anything else.
UseProof(r, t, goal, k) ==
    /\ visit[r].at = "idle"
    /\ Spend(t, "proof")
    /\ Turn(r, [Idle EXCEPT !.at = goal, !.proof = t, !.key = k])
    /\ UNCHANGED <<password, passkey, ticket, proofOf, changes>>

-------------------------------------------------------------------------------
(* Adding a passkey *)

BeginAdd(r, t) ==
    /\ visit[r].at = "options"
    /\ Write(t, "add")
    /\ proofOf' = [proofOf EXCEPT ![t] = visit[r].proof]
    /\ Turn(r, Idle)
    /\ UNCHANGED <<password, passkey, spent, changes>>

FinishAdd(r, t) ==
    /\ visit[r].at = "idle"
    /\ Spend(t, "add")
    /\ Turn(r, [Idle EXCEPT !.at = "register", !.proof = proofOf[t]])
    /\ UNCHANGED <<password, passkey, ticket, proofOf, changes>>

Changed(r) == changes' = [changes EXCEPT ![visit[r].proof] = @ + 1]

\* AddPasskeyCredential inserts it without the lock on the account.
AddPasskeyCredential(r, k) ==
    /\ visit[r].at = "register" /\ passkey[k] = "none"
    /\ passkey' = [passkey EXCEPT ![k] = "active"]
    /\ Changed(r)
    /\ Turn(r, Idle)
    /\ UNCHANGED <<password, ticket, spent, proofOf>>

-------------------------------------------------------------------------------
(* Taking a way to sign in away, or giving the password back *)

Locking == {"disabling", "revoking"}

\* Mutant: the account's row is not locked.
NeverLocked(r) == TRUE

\* lockUserCredentials: FOR UPDATE on the account's row.
Unlocked(r) == \A q \in Visit \ {r} : visit[q].at \notin Locking

\* SetPasswordLoginEnabled
EnablePassword(r) ==
    /\ visit[r].at = "enable" /\ Unlocked(r) /\ password # "none"
    /\ password' = "on"
    /\ Changed(r)
    /\ Turn(r, Idle)
    /\ UNCHANGED <<passkey, ticket, spent, proofOf>>

BeginDisable(r) ==
    /\ visit[r].at = "disable" /\ Unlocked(r)
    /\ password = "on" /\ Active # {}
    /\ Turn(r, [visit[r] EXCEPT !.at = "disabling"])
    /\ UNCHANGED <<password, passkey, ticket, spent, proofOf, changes>>

\* It also consumes every proof that is still unused.
CommitDisable(r) ==
    /\ visit[r].at = "disabling"
    /\ password' = "off"
    /\ spent' = spent \cup {t \in Ticket : ticket[t] = "proof"}
    /\ Changed(r)
    /\ Turn(r, Idle)
    /\ UNCHANGED <<passkey, ticket, proofOf>>

\* RevokePasskeyCredentialForUser: the last passkey goes only if there is a
\* password, which it turns on again.
BeginRevoke(r) ==
    /\ visit[r].at = "revoke" /\ Unlocked(r) /\ visit[r].key \in Active
    /\ LET last == Cardinality(Active) <= 1 IN
         /\ last => password # "none"
         /\ Turn(r, [visit[r] EXCEPT !.at = "revoking", !.last = last])
    /\ UNCHANGED <<password, passkey, ticket, spent, proofOf, changes>>

CommitRevoke(r) ==
    /\ visit[r].at = "revoking"
    /\ passkey' = [passkey EXCEPT ![visit[r].key] = "revoked"]
    /\ password' = IF visit[r].last THEN "on" ELSE password
    /\ Changed(r)
    /\ Turn(r, Idle)
    /\ UNCHANGED <<ticket, spent, proofOf>>

\* A request is refused, fails or is cancelled.
GiveUp(r) ==
    /\ visit[r].at # "idle"
    /\ Turn(r, Idle)
    /\ UNCHANGED <<password, passkey, ticket, spent, proofOf, changes>>

-------------------------------------------------------------------------------
SignInStep(r) ==
    \/ VerifyUserPassword(r) \/ UpdatePasskeyCredentialUsage(r)
    \/ EnablePassword(r) \/ BeginDisable(r) \/ CommitDisable(r)
    \/ BeginRevoke(r) \/ CommitRevoke(r) \/ GiveUp(r)
    \/ \E t \in Ticket :
         \/ CreatePasskeyReauthToken(r, t) \/ BeginAdd(r, t) \/ FinishAdd(r, t)
         \/ \E goal \in {"options", "enable", "disable"} : UseProof(r, t, goal, Null)
         \/ \E k \in Active : UseProof(r, t, "revoke", k)
         \/ \E k \in Passkey : FinishReauth(r, t, k)
    \/ \E k \in Passkey : AddPasskeyCredential(r, k)

SignInNext ==
    \/ \E r \in Visit : SignInStep(r)
    \/ \E t \in Ticket : BeginReauth(t) \/ ExpireTicket(t)

SignInSpec == SignInInit /\ [][SignInNext]_signInVars

-------------------------------------------------------------------------------
SignInTypeOK ==
    /\ password \in {"none", "on", "off"}
    /\ passkey \in [Passkey -> {"none", "active", "revoked"}]
    /\ ticket \in [Ticket -> {"none", "proof", "add", "reauth"}]
    /\ spent \subseteq Ticket
    /\ proofOf \in [Ticket -> Ticket \cup {Null}]
    /\ visit \in [Visit ->
         [at : Locking \cup {"idle", "proved", "asserted", "options", "register",
                             "enable", "disable", "revoke"},
          key : Passkey \cup {Null}, proof : Ticket \cup {Null}, last : BOOLEAN]]

\* However changes to an account race, it always keeps a way to sign in: its
\* password, turned on, or a passkey (lockUserCredentials, settings.go:114-117).
AlwaysAWayIn == password = "on" \/ Active # {}

\* Each time the user proves who they are backs at most one change to the ways
\* of signing in, however often its tokens and ceremonies are replayed.
OneChangePerProof == \A t \in Ticket : changes[t] <= 1
===============================================================================
