------------------------------- MODULE Sessions -------------------------------
(* The web sessions of one account while its password changes and people sign  *)
(* in (internal/store/auth.go and accounts.go, ChangePassword of settings.go,  *)
(* updateMySettings and createSession of internal/server/auth_tokens.go).      *)
(*                                                                             *)
(* Passwords are numbered in the order they are written.                       *)
EXTENDS Integers, FiniteSets

CONSTANTS Session, Device, Passwords, NoSession

ASSUME SessionsAssumption == Passwords \in Nat /\ NoSession \notin Session

VARIABLES
    word,           \* the password there is
    session,        \* the state of each session
    opened,         \* history: the password there was when it was opened
    settled,        \* history: the newest password whose change has ended, and
    keeper,         \*   the session that change keeps
    doing           \* where each request is: its step, caller and password

sessionVars == <<word, session, opened, settled, keeper, doing>>

Resting == [at |-> "idle", by |-> NoSession, wrote |-> 0]

Open == {s \in Session : session[s] = "live"}

SessionsInit ==
    /\ word = 0
    /\ session = [s \in Session |-> "none"]
    /\ opened = [s \in Session |-> 0]
    /\ settled = 0 /\ keeper = NoSession
    /\ doing = [r \in Device |-> Resting]

Does(r, state) == doing' = [doing EXCEPT ![r] = state]
Close(ended) ==
    session' = [s \in Session |-> IF s \in ended THEN "ended" ELSE session[s]]

-------------------------------------------------------------------------------
\* AuthenticatePassword compares the password there is now, or a passkey signs in.
AuthenticatePassword(r) ==
    /\ doing[r].at = "idle"
    /\ Does(r, [Resting EXCEPT !.at = "authenticated"])
    /\ UNCHANGED <<word, session, opened, settled, keeper>>

\* CreateAuthToken opens the session, whatever has changed meanwhile.
CreateAuthToken(r, s) ==
    /\ doing[r].at = "authenticated" /\ session[s] = "none"
    /\ session' = [session EXCEPT ![s] = "live"]
    /\ opened' = [opened EXCEPT ![s] = word]
    /\ Does(r, Resting)
    /\ UNCHANGED <<word, settled, keeper>>

\* ChangePassword reads the credential and compares the current password; the
\* caller's token is a session or an API token.
BeginChangePassword(r, caller) ==
    /\ doing[r].at = "idle"
    /\ Does(r, [at |-> "compared", by |-> caller, wrote |-> 0])
    /\ UNCHANGED <<word, session, opened, settled, keeper>>

\* It writes the new one by the credential's id, over any written since.
WritePassword(r) ==
    /\ doing[r].at = "compared" /\ word < Passwords
    /\ word' = word + 1
    /\ Does(r, [doing[r] EXCEPT !.at = "written", !.wrote = word + 1])
    /\ UNCHANGED <<session, opened, settled, keeper>>

\* Mutant: the id to keep is NULL for an API token, and id <> NULL is never true.
RevokesUnlessNull(r, s) == doing[r].by # NoSession /\ s # doing[r].by

\* RevokeSessionAuthTokensForUserExcept(keptSessionTokenID)
RevokesOther(r, s) == s # doing[r].by

RevokeOtherSessions(r) ==
    /\ doing[r].at = "written"
    /\ Close({s \in Open : RevokesOther(r, s)})
    /\ settled' = IF doing[r].wrote > settled THEN doing[r].wrote ELSE settled
    /\ keeper' = IF doing[r].wrote > settled THEN doing[r].by ELSE keeper
    /\ Does(r, Resting)
    /\ UNCHANGED <<word, opened>>

\* RevokeSessionAuthTokensForUser, "sign out everywhere"; DeleteUser has the same
\* effect, as AuthenticateToken refuses the tokens of a deleted user.
RevokeAllSessions ==
    /\ Close(Open)
    /\ UNCHANGED <<word, opened, settled, keeper, doing>>

\* One session is revoked, signed out or runs out.
EndSession(s) ==
    /\ s \in Open
    /\ Close({s})
    /\ UNCHANGED <<word, opened, settled, keeper, doing>>

\* The request fails or is cancelled, perhaps after the password is written.
Fail(r) ==
    /\ doing[r].at # "idle"
    /\ Does(r, Resting)
    /\ UNCHANGED <<word, session, opened, settled, keeper>>

-------------------------------------------------------------------------------
SessionsNext ==
    \/ \E r \in Device :
         \/ AuthenticatePassword(r) \/ WritePassword(r) \/ RevokeOtherSessions(r)
         \/ Fail(r)
         \/ \E s \in Session : CreateAuthToken(r, s)
         \/ \E caller \in Open \cup {NoSession} : BeginChangePassword(r, caller)
    \/ RevokeAllSessions
    \/ \E s \in Session : EndSession(s)

SessionsSpec == SessionsInit /\ [][SessionsNext]_sessionVars

SessionsTypeOK ==
    /\ word \in 0..Passwords /\ settled \in 0..word
    /\ session \in [Session -> {"none", "live", "ended"}]
    /\ opened \in [Session -> 0..word]
    /\ keeper \in Session \cup {NoSession}
    /\ doing \in [Device ->
         [at : {"idle", "authenticated", "compared", "written"},
          by : Session \cup {NoSession}, wrote : 0..Passwords]]

\* A password change that has ended leaves no session from before it, except the
\* one it was made in; of several at once, the last password written decides
\* (SECURITY_MODEL.md: a password change ends web sessions).
SignedOutByChange ==
    \A s \in Open : opened[s] < settled => s = keeper
===============================================================================
