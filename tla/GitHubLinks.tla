----------------------------- MODULE GitHubLinks -----------------------------
(* Links from issues to GitHub branches and pull requests, and how they are    *)
(* kept up to date (internal/store/github_integrations.go and                  *)
(* github_credentials.go, internal/githubintegration).                         *)
(*                                                                             *)
(* One project, one repository, one saved token.                               *)
EXTENDS Integers, Sequences, FiniteSets, SequencesExt

CONSTANTS
    Link,
    Worker, Hand,   \* refreshing workers, and requests to refresh one link
    Batch,          \* links a worker claims at once
    Crashes         \* times a worker dies in the middle of its batch

Refresher == Worker \cup Hand

ASSUME GitHubAssumption == Worker \cap Hand = {} /\ Batch \in Nat \ {0} /\ Crashes \in Nat

VARIABLES
    saved,          \* whether the owner's saved token is there
    lends,          \* whether its owner may work in the project
    connection,     \* "none", or the token it uses: "saved" or its "own"
    link,           \* the state of each link
    waiting,        \* links whose next refresh has come, by when it did
    locked,         \* "free", "leased", or "lapsed": the lease has run out
    error,          \* links that show an error
    work,           \* what each worker has still to do, and its step
    crashed         \* crashes so far

githubVars == <<saved, lends, connection, link, waiting, locked, error, work, crashed>>

NoWork == [todo |-> <<>>, at |-> "idle", answer |-> "none"]

GitHubInit ==
    /\ saved = TRUE /\ lends = TRUE /\ connection = "none"
    /\ link = [l \in Link |-> "none"] /\ waiting = <<>>
    /\ locked = [l \in Link |-> "free"] /\ error = {}
    /\ work = [w \in Refresher |-> NoWork] /\ crashed = 0

Living == {l \in Link : link[l] = "live"}
\* The link waits no more; it waits once at most (ComeDue).
NoLonger(l) == RemoveFirst(waiting, l)

-------------------------------------------------------------------------------
(* The connection and its token *)

\* UpsertGitHubConnection, new or again.  With a saved token it holds the
\* token's row FOR SHARE until the commit.
UpsertGitHubConnection(token) ==
    /\ token = "saved" => saved
    /\ connection' = token
    /\ UNCHANGED <<saved, lends, link, waiting, locked, error, work, crashed>>

\* recordGitHubConnectionDisconnected: the links keep their last known state.
Disconnected ==
    /\ connection' = "none"
    /\ error' = error \cup Living
    /\ locked' = [l \in Link |-> IF l \in Living THEN "free" ELSE locked[l]]

DisconnectGitHubConnection ==
    /\ connection # "none"
    /\ Disconnected
    /\ UNCHANGED <<saved, lends, link, waiting, work, crashed>>

\* DeleteGitHubCredential disconnects what uses the token.
DeleteGitHubCredential ==
    /\ saved
    /\ saved' = FALSE
    /\ IF connection = "saved" THEN Disconnected
                               ELSE UNCHANGED <<connection, error, locked>>
    /\ UNCHANGED <<lends, link, waiting, work, crashed>>

CreateGitHubCredential ==
    /\ ~saved
    /\ saved' = TRUE
    /\ UNCHANGED <<lends, connection, link, waiting, locked, error, work, crashed>>

\* The token's owner leaves the project, is blocked or deleted, or comes back.
LenderChanges ==
    /\ lends' = ~lends
    /\ UNCHANGED <<saved, connection, link, waiting, locked, error, work, crashed>>

\* GetGitHubConnectionSecret finds a token to use.
TokenThere == connection = "own" \/ (connection = "saved" /\ lends)

-------------------------------------------------------------------------------
(* Links *)

CreateGitHubIssueLink(l) ==
    /\ link[l] = "none" /\ TokenThere
    /\ link' = [link EXCEPT ![l] = "live"]
    /\ UNCHANGED <<saved, lends, connection, waiting, locked, error, work, crashed>>

DeleteGitHubIssueLink(l) ==
    /\ l \in Living
    /\ link' = [link EXCEPT ![l] = "deleted"]
    /\ locked' = [locked EXCEPT ![l] = "free"]
    /\ waiting' = NoLonger(l)
    /\ UNCHANGED <<saved, lends, connection, error, work, crashed>>

\* The time of its next refresh comes.
ComeDue(l) ==
    /\ l \in Living /\ ~Contains(waiting, l)
    /\ waiting' = Append(waiting, l)
    /\ UNCHANGED <<saved, lends, connection, link, locked, error, work, crashed>>

Lapse(l) ==
    /\ locked[l] = "leased"
    /\ locked' = [locked EXCEPT ![l] = "lapsed"]
    /\ UNCHANGED <<saved, lends, connection, link, waiting, error, work, crashed>>

-------------------------------------------------------------------------------
(* Refreshing *)

\* Mutant: a lease is never given to another worker.
ClaimableOnce(l) == locked[l] = "free"

Claimable(l) == locked[l] # "leased"

\* ClaimGitHubIssueLinks: the links that have waited longest, in their order.
Claimed ==
    LET free == SelectSeq(waiting, LAMBDA l : Claimable(l))
    IN  SubSeq(free, 1, IF Len(free) < Batch THEN Len(free) ELSE Batch)

Claim(w) ==
    /\ work[w].at = "idle" /\ connection # "none" /\ Claimed # <<>>
    /\ locked' = [l \in Link |-> IF Contains(Claimed, l) THEN "leased" ELSE locked[l]]
    /\ work' = [work EXCEPT ![w] = [NoWork EXCEPT !.todo = Claimed, !.at = "next"]]
    /\ UNCHANGED <<saved, lends, connection, link, waiting, error, crashed>>

\* Someone asks for a refresh: RefreshLink with no claim.
RefreshByHand(w, l) ==
    /\ work[w].at = "idle" /\ l \in Living
    /\ work' = [work EXCEPT ![w] = [NoWork EXCEPT !.todo = <<l>>, !.at = "next"]]
    /\ UNCHANGED <<saved, lends, connection, link, waiting, locked, error, crashed>>

Advance(w) ==
    work' = [work EXCEPT ![w] =
      IF Len(@.todo) = 1 THEN NoWork
                         ELSE [NoWork EXCEPT !.todo = Tail(@), !.at = "next"]]

\* RefreshLink reads the link and the token and asks GitHub.
BeginRefresh(w) ==
    /\ work[w].at = "next"
    /\ IF Head(work[w].todo) \in Living
         THEN \E answer \in IF TokenThere THEN {"snapshot", "error"} ELSE {"error"} :
                work' = [work EXCEPT ![w].at = "asked", ![w].answer = answer]
         ELSE work' = [work EXCEPT ![w] =
                IF Len(@.todo) = 1 THEN NoWork ELSE [@ EXCEPT !.todo = Tail(@)]]
    /\ UNCHANGED <<saved, lends, connection, link, waiting, locked, error, crashed>>

\* CompleteGitHubIssueLinkRefresh and FailGitHubIssueLinkRefresh: by the link's
\* id alone, whoever holds its lease by now.
Settle(w) ==
    /\ work[w].at = "asked"
    /\ LET l == Head(work[w].todo) IN
         IF l \in Living
           THEN /\ error' = IF work[w].answer = "error" THEN error \cup {l}
                                                        ELSE error \ {l}
                /\ locked' = [locked EXCEPT ![l] = "free"]
                /\ waiting' = NoLonger(l)
           ELSE UNCHANGED <<error, locked, waiting>>
    /\ Advance(w)
    /\ UNCHANGED <<saved, lends, connection, link, crashed>>

\* The process stops, or its request is cancelled.
Crash(w) ==
    /\ work[w].at # "idle" /\ crashed < Crashes
    /\ work' = [work EXCEPT ![w] = NoWork]
    /\ crashed' = crashed + 1
    /\ UNCHANGED <<saved, lends, connection, link, waiting, locked, error>>

-------------------------------------------------------------------------------
Refresh(w) == (w \in Worker /\ Claim(w)) \/ BeginRefresh(w) \/ Settle(w)

GitHubNext ==
    \/ \E token \in {"saved", "own"} : UpsertGitHubConnection(token)
    \/ DisconnectGitHubConnection \/ DeleteGitHubCredential \/ CreateGitHubCredential
    \/ LenderChanges
    \/ \E l \in Link :
         \/ CreateGitHubIssueLink(l) \/ DeleteGitHubIssueLink(l)
         \/ ComeDue(l) \/ Lapse(l)
         \/ \E w \in Hand : RefreshByHand(w, l)
    \/ \E w \in Refresher : Refresh(w) \/ Crash(w)

GitHubFairness ==
    /\ \A w \in Worker : WF_githubVars(Refresh(w))
    /\ \A l \in Link : WF_githubVars(Lapse(l))

GitHubSpec == GitHubInit /\ [][GitHubNext]_githubVars /\ GitHubFairness

GitHubTypeOK ==
    /\ saved \in BOOLEAN /\ lends \in BOOLEAN
    /\ connection \in {"none", "own"} \cup IF saved THEN {"saved"} ELSE {}
    /\ link \in [Link -> {"none", "live", "deleted"}]
    /\ ToSet(waiting) \subseteq Living
    /\ locked \in [Link -> {"free", "leased", "lapsed"}]
    /\ error \subseteq Link /\ crashed \in 0..Crashes

\* A link whose refresh has come is refreshed, or shows that it could not be, in
\* spite of workers that die holding its lease and of other links that are due
\* all the time; unless it is deleted or its repository disconnected.
EveryLinkRefreshed ==
    \A l \in Link :
      Contains(waiting, l) ~> (~Contains(waiting, l) \/ connection = "none")
===============================================================================
