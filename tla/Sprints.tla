------------------------------- MODULE Sprints -------------------------------
(* Sprints of one project and the top-level issues in them (internal/store/    *)
(* sprints.go, UpdateIssue and SetProjectSprintsEnabled).                      *)
(*                                                                             *)
(* A transaction that waits for several row locks takes several steps; one     *)
(* that only needs one lock is a single step, enabled when the lock is free.   *)
(* A row that a transaction waited for is looked at again once it has it       *)
(* (READ COMMITTED).  A changelog entry or a snapshot refers to the project,   *)
(* so writing one waits for whoever holds the project FOR UPDATE.              *)
EXTENDS Integers, FiniteSets, Sequences

CONSTANTS
    Sprint,
    NoSprint,
    Issue,
    Tx              \* concurrent requests

ASSUME SprintAssumption == NoSprint \notin Sprint /\ IsFiniteSet(Sprint)

VARIABLES
    enabled,        \* the project's sprint mode
    status,         \* of each sprint
    rank,           \* planned_order of a planned sprint, 0 for the others
    snapshot,       \* the issues recorded when a sprint was completed
    sprint,         \* the sprint of each issue
    live,           \* issues that are not deleted
    done,           \* issues whose status counts as done
    reopened,       \* history: issues restored or reopened too late, see Late
    pc,             \* where each transaction is
    target,         \* the sprint it is about
    subject,        \* the issue it assigns
    next,           \* the sprint unfinished work moves to
    todo,           \* rows its statement still has to lock
    members,        \* rows it has recorded in the snapshot
    moved           \* rows it has moved on

project == <<enabled, status, rank, snapshot>>
issues == <<sprint, live, done, reopened>>
requests == <<pc, target, subject, next, todo, members, moved>>
vars == <<project, issues, requests>>

NoIssue == {}

Init ==
    /\ enabled = FALSE
    /\ status = [s \in Sprint |-> "none"]
    /\ rank = [s \in Sprint |-> 0]
    /\ snapshot = [s \in Sprint |-> {}]
    /\ sprint = [i \in Issue |-> NoSprint]
    /\ live = Issue
    /\ done = {}
    /\ reopened = {}
    /\ pc = [t \in Tx |-> "idle"]
    /\ target = [t \in Tx |-> NoSprint]
    /\ subject = [t \in Tx |-> NoIssue]
    /\ next = [t \in Tx |-> NoSprint]
    /\ todo = [t \in Tx |-> {}]
    /\ members = [t \in Tx |-> {}]
    /\ moved = [t \in Tx |-> {}]

Planned == {s \in Sprint : status[s] = "planned"}
In(s) == {i \in live : sprint[i] = s}
Unfinished(s) == In(s) \ done

-------------------------------------------------------------------------------
(* Row locks, as far as transactions hold them between their steps *)

Goto(t, label) == pc' = [pc EXCEPT ![t] = label]

\* Issues are locked FOR UPDATE by those that assign, record or move them.
Locked(t) == subject[t] \cup members[t] \cup moved[t]
IssueFree(t, i) == \A u \in Tx \ {t} : i \notin Locked(u)
IssueUnlocked(i) == \A u \in Tx : i \notin Locked(u)

Completing(t) == pc[t] \in {"members", "readNext", "lockNext", "move"}

\* A completion holds its sprint and the next one FOR UPDATE, an assignment
\* holds its sprint FOR SHARE.
\* Mutant: the next sprint is read without FOR UPDATE.
ExclusiveTarget(t) ==
    {s \in Sprint : s = target[t] /\ Completing(t)}

Exclusive(t) ==
    {s \in Sprint : \/ s = target[t] /\ Completing(t)
                    \/ s = next[t] /\ pc[t] = "move"}

\* Mutant: the assigned sprint is read without FOR SHARE.
SharedByNone(t) == {}

Shared(t) == {s \in Sprint : s = target[t] /\ pc[t] = "assigned"}
Shareable(t, s) == \A u \in Tx \ {t} : s \notin Exclusive(u)
SprintFree(t, s) == \A u \in Tx \ {t} : s \notin Exclusive(u) \cup Shared(u)
SprintUnlocked(s) == \A u \in Tx : s \notin Exclusive(u) \cup Shared(u)

\* Starting a sprint holds the project FOR UPDATE; a snapshot holds a key of it.

\* Mutant: UpdateSprint reads sprints_enabled without FOR UPDATE.
ProjectReferableAlways == TRUE

ProjectReferable == \A t \in Tx : pc[t] # "start"
ProjectFree ==
    /\ ProjectReferable
    /\ \A t \in Tx : pc[t] \in {"readNext", "lockNext", "move"} => members[t] = {}

\* A transaction that commits or rolls back lets go of everything.
End(t) ==
    /\ Goto(t, "idle")
    /\ target' = [target EXCEPT ![t] = NoSprint]
    /\ subject' = [subject EXCEPT ![t] = NoIssue]
    /\ next' = [next EXCEPT ![t] = NoSprint]
    /\ todo' = [todo EXCEPT ![t] = {}]
    /\ members' = [members EXCEPT ![t] = {}]
    /\ moved' = [moved EXCEPT ![t] = {}]

-------------------------------------------------------------------------------
(* The project's sprints *)

\* CreateSprint appends to the planned sprints.
CreateSprint(s) ==
    /\ ProjectFree /\ status[s] = "none"
    /\ status' = [status EXCEPT ![s] = "planned"]
    /\ \E last \in {0} \cup {rank[p] : p \in Planned} :
         /\ \A p \in Planned : rank[p] <= last
         /\ rank' = [rank EXCEPT ![s] = last + 1]
    /\ UNCHANGED <<enabled, snapshot, issues, requests>>

\* DeleteSprint leaves its issues as they are.
DeleteSprint(s) ==
    /\ SprintUnlocked(s) /\ ProjectReferable
    /\ status[s] = "planned"
    /\ status' = [status EXCEPT ![s] = "deleted"]
    /\ rank' = [rank EXCEPT ![s] = 0]
    /\ UNCHANGED <<enabled, snapshot, issues, requests>>

\* ReorderPlannedSprints first adds this to every rank, in one UPDATE.
Offset == Cardinality(Planned) + 1

\* It takes every planned sprint exactly once.  It may fail, see ShiftsApart,
\* and succeeds when the UPDATE happens to reach the higher rank first.
ReorderPlannedSprints(order) ==
    /\ ProjectFree
    /\ \A s \in Planned : SprintUnlocked(s)
    /\ rank' = [s \in Sprint |-> IF s \in Planned
                  THEN CHOOSE k \in DOMAIN order : order[k] = s ELSE rank[s]]
    /\ UNCHANGED <<enabled, status, snapshot, issues, requests>>

\* SetProjectSprintsEnabled
SetSprintsEnabled ==
    /\ ProjectFree
    /\ enabled => \A s \in Sprint : status[s] # "active"
    /\ enabled' = ~enabled
    /\ UNCHANGED <<status, rank, snapshot, issues, requests>>

\* UpdateSprint to active: the project's lock comes first, then the sprint's.
BeginStart(t, s) ==
    /\ pc[t] = "idle" /\ ProjectFree /\ enabled
    /\ status[s] \notin {"none", "deleted"}
    /\ Goto(t, "start")
    /\ target' = [target EXCEPT ![t] = s]
    /\ UNCHANGED <<project, issues, subject, next, todo, members, moved>>

\* Mutant: planned_order is not cleared.
CommitStartKeepingOrder(t) ==
    /\ pc[t] = "start" /\ SprintFree(t, target[t])
    /\ status[target[t]] = "planned" /\ \A s \in Sprint : status[s] # "active"
    /\ status' = [status EXCEPT ![target[t]] = "active"]
    /\ End(t)
    /\ UNCHANGED <<enabled, rank, snapshot, issues>>

\* A unique index allows one active sprint.
CommitStart(t) ==
    /\ pc[t] = "start" /\ SprintFree(t, target[t])
    /\ status[target[t]] = "planned" /\ \A s \in Sprint : status[s] # "active"
    /\ status' = [status EXCEPT ![target[t]] = "active"]
    /\ rank' = [rank EXCEPT ![target[t]] = 0]
    /\ End(t)
    /\ UNCHANGED <<enabled, snapshot, issues>>

-------------------------------------------------------------------------------
(* CompleteSprint *)

\* Mutant: only unfinished work is recorded.
BeginCompleteUnfinished(t, s) ==
    /\ pc[t] = "idle" /\ SprintFree(t, s) /\ status[s] = "active"
    /\ Goto(t, "members")
    /\ target' = [target EXCEPT ![t] = s]
    /\ todo' = [todo EXCEPT ![t] = Unfinished(s)]
    /\ UNCHANGED <<project, issues, subject, next, members, moved>>

BeginComplete(t, s) ==
    /\ pc[t] = "idle" /\ SprintFree(t, s) /\ status[s] = "active"
    /\ Goto(t, "members")
    /\ target' = [target EXCEPT ![t] = s]
    /\ todo' = [todo EXCEPT ![t] = In(s)]
    /\ UNCHANGED <<project, issues, subject, next, members, moved>>

\* INSERT ... SELECT ... FOR UPDATE records the rows that are still in the
\* sprint once they are locked.
RecordMember(t, i) ==
    /\ pc[t] = "members" /\ i \in todo[t] /\ IssueFree(t, i)
    /\ members' = [members EXCEPT ![t] = IF i \in In(target[t]) THEN @ \cup {i} ELSE @]
    /\ todo' = [todo EXCEPT ![t] = @ \ {i}]
    /\ UNCHANGED <<project, issues, pc, target, subject, next, moved>>

EndMembers(t) ==
    /\ pc[t] = "members" /\ todo[t] = {}
    /\ members[t] = {} \/ ProjectReferable
    /\ Goto(t, "readNext")
    /\ UNCHANGED <<project, issues, target, subject, next, todo, members, moved>>

StartMoving(t, s) ==
    /\ Goto(t, "move")
    /\ next' = [next EXCEPT ![t] = s]
    /\ todo' = [todo EXCEPT ![t] = Unfinished(target[t])]

TryNext(t, s) ==
    /\ Goto(t, "lockNext")
    /\ next' = [next EXCEPT ![t] = s]
    /\ UNCHANGED todo

\* The first planned sprint, if there is one, is locked.
ReadNext(t) ==
    /\ pc[t] = "readNext"
    /\ \/ Planned = {} /\ StartMoving(t, NoSprint)
       \/ \E s \in Planned : (\A p \in Planned : rank[s] <= rank[p]) /\ TryNext(t, s)
    /\ UNCHANGED <<project, issues, target, subject, members, moved>>

\* If it is not planned any more by then, the one after it is, in the list that
\* was read: its order may be out of date, and a newer sprint is not in it.
LockNext(t) ==
    /\ pc[t] = "lockNext" /\ SprintFree(t, next[t])
    /\ \/ next[t] \in Planned /\ StartMoving(t, next[t])
       \/ next[t] \notin Planned /\ StartMoving(t, NoSprint)
       \/ next[t] \notin Planned /\ \E s \in Planned : TryNext(t, s)
    /\ UNCHANGED <<project, issues, target, subject, members, moved>>

\* The UPDATE moves the rows that are still unfinished and in the sprint.
MoveOn(t, i) ==
    /\ pc[t] = "move" /\ i \in todo[t] /\ IssueFree(t, i)
    /\ moved' = [moved EXCEPT ![t] = IF i \in Unfinished(target[t]) THEN @ \cup {i} ELSE @]
    /\ todo' = [todo EXCEPT ![t] = @ \ {i}]
    /\ UNCHANGED <<project, issues, pc, target, subject, next, members>>

CommitComplete(t) ==
    /\ pc[t] = "move" /\ todo[t] = {} /\ ProjectReferable
    /\ status' = [status EXCEPT ![target[t]] = "completed"]
    /\ snapshot' = [snapshot EXCEPT ![target[t]] = members[t]]
    /\ sprint' = [i \in Issue |-> IF i \in moved[t] THEN next[t] ELSE sprint[i]]
    /\ reopened' = reopened \ moved[t]
    /\ End(t)
    /\ UNCHANGED <<enabled, rank, live, done>>

-------------------------------------------------------------------------------
(* Issues *)

\* UpdateIssue with a sprint locks the issue, then the sprint FOR SHARE.
BeginAssign(t, i, s) ==
    /\ pc[t] = "idle" /\ IssueFree(t, i) /\ i \in live \ done
    /\ Goto(t, "assign")
    /\ subject' = [subject EXCEPT ![t] = {i}]
    /\ target' = [target EXCEPT ![t] = s]
    /\ UNCHANGED <<project, issues, next, todo, members, moved>>

CheckSprint(t) ==
    /\ pc[t] = "assign" /\ Shareable(t, target[t])
    /\ status[target[t]] \in {"planned", "active"}
    /\ Goto(t, "assigned")
    /\ UNCHANGED <<project, issues, target, subject, next, todo, members, moved>>

CommitAssign(t) ==
    /\ pc[t] = "assigned" /\ ProjectReferable
    /\ sprint' = [i \in Issue |-> IF i \in subject[t] THEN target[t] ELSE sprint[i]]
    /\ reopened' = reopened \ {i \in subject[t] : sprint[i] # target[t]}
    /\ End(t)
    /\ UNCHANGED <<project, live, done>>

Unassign(i) ==
    /\ IssueUnlocked(i) /\ ProjectReferable /\ i \in live \ done /\ sprint[i] # NoSprint
    /\ sprint' = [sprint EXCEPT ![i] = NoSprint]
    /\ reopened' = reopened \ {i}
    /\ UNCHANGED <<project, live, done, requests>>

\* What the history keeps: the issue's sprint is completed, or, for a restored
\* issue that its completion may already have missed, being completed.
Completed(i) == sprint[i] # NoSprint /\ status[sprint[i]] = "completed"
Late(i) == Completed(i) \/ \E t \in Tx : Completing(t) /\ sprint[i] = target[t]

\* UpdateIssue with a status
ChangeStatus(i) ==
    /\ IssueUnlocked(i) /\ ProjectReferable /\ i \in live
    /\ done' = IF i \in done THEN done \ {i} ELSE done \cup {i}
    /\ reopened' = IF i \in done /\ Completed(i) THEN reopened \cup {i} ELSE reopened
    /\ UNCHANGED <<project, sprint, live, requests>>

\* DeleteIssue and RestoreIssue leave the sprint as it is.
DeleteIssue(i) ==
    /\ IssueUnlocked(i) /\ ProjectReferable /\ i \in live
    /\ live' = live \ {i}
    /\ UNCHANGED <<project, sprint, done, reopened, requests>>

RestoreIssue(i) ==
    /\ IssueUnlocked(i) /\ ProjectReferable /\ i \notin live
    /\ live' = live \cup {i}
    /\ reopened' = IF Late(i) THEN reopened \cup {i} ELSE reopened
    /\ UNCHANGED <<project, sprint, done, requests>>

\* A check fails, the request is cancelled, or a deadlock is broken.
Rollback(t) ==
    /\ pc[t] # "idle"
    /\ End(t)
    /\ UNCHANGED <<project, issues>>

-------------------------------------------------------------------------------
Orders == {order \in [1..Cardinality(Planned) -> Planned] :
             \A s \in Planned : \E k \in DOMAIN order : order[k] = s}

Transact(t) ==
    \/ \E s \in Sprint : BeginStart(t, s) \/ BeginComplete(t, s)
    \/ CommitStart(t)
    \/ \E i \in todo[t] : RecordMember(t, i) \/ MoveOn(t, i)
    \/ EndMembers(t) \/ ReadNext(t) \/ LockNext(t) \/ CommitComplete(t)
    \/ \E i \in Issue, s \in Sprint : BeginAssign(t, i, s)
    \/ CheckSprint(t) \/ CommitAssign(t)
    \/ Rollback(t)

Next ==
    \/ \E s \in Sprint : CreateSprint(s) \/ DeleteSprint(s)
    \/ \E order \in Orders : ReorderPlannedSprints(order)
    \/ SetSprintsEnabled
    \/ \E i \in Issue : Unassign(i) \/ ChangeStatus(i) \/ DeleteIssue(i) \/ RestoreIssue(i)
    \/ \E t \in Tx : Transact(t)

Spec == Init /\ [][Next]_vars

-------------------------------------------------------------------------------
(* Properties *)

TypeOK ==
    /\ enabled \in BOOLEAN
    /\ status \in [Sprint -> {"none", "planned", "active", "completed", "deleted"}]
    /\ rank \in [Sprint -> Nat]
    /\ \A s \in Sprint : rank[s] > 0 <=> status[s] = "planned"
    /\ snapshot \in [Sprint -> SUBSET Issue]
    /\ sprint \in [Issue -> Sprint \cup {NoSprint}]
    /\ live \subseteq Issue /\ done \subseteq Issue /\ reopened \subseteq Issue
    /\ pc \in [Tx -> {"idle", "start", "members", "readNext", "lockNext", "move", "assign", "assigned"}]
    /\ target \in [Tx -> Sprint \cup {NoSprint}]
    /\ \A t \in Tx : pc[t] # "idle" => target[t] \in Sprint
    /\ subject \in [Tx -> SUBSET Issue]
    /\ next \in [Tx -> Sprint \cup {NoSprint}]
    /\ todo \in [Tx -> SUBSET Issue]
    /\ members \in [Tx -> SUBSET Issue]
    /\ moved \in [Tx -> SUBSET Issue]

\* Turning sprints off and starting one never both succeed (the comment in
\* UpdateSprint): while a sprint is active the project is in sprint mode.
ActiveInSprintMode == (\E s \in Sprint : status[s] = "active") => enabled

\* Completing a sprint leaves no unfinished work in it, whoever assigns issues
\* or reopens them at the same time; what is there was reopened afterwards, or
\* restored when the completion had begun.
NothingLeftBehind ==
    \A s \in Sprint : status[s] = "completed" => Unfinished(s) \subseteq reopened

\* What a completed sprint holds is in its snapshot, so that its history stays
\* whole; only an issue restored when the completion had begun can be missing.
HistoryRecorded ==
    \A s \in Sprint : status[s] = "completed" => In(s) \subseteq snapshot[s] \cup reopened

\* An issue is only ever moved to a sprint that is planned or active then:
\* by hand, and by a completion while the next sprint is deleted or started.
MovesToOpenSprint ==
    \A i \in Issue : sprint'[i] \notin {sprint[i], NoSprint} =>
        status'[sprint'[i]] \in {"planned", "active"}
OpenSprintsGainIssues == [][MovesToOpenSprint]_vars

\* A list of every planned sprint, each once, is a new order for them: shifting
\* their ranks out of the way first, no new rank is one that another sprint still
\* has, which the unique index on (project_id, planned_order) would refuse.
ShiftsApart == \A a, b \in Planned : rank[a] + Offset # rank[b]

==============================================================================
