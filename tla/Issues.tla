-------------------------------- MODULE Issues --------------------------------
(***************************************************************************)
(* The issues of one project: the tree of issues and sub-issues, private   *)
(* issues, soft-delete and restore, and repeating issues.                  *)
(*                                                                         *)
(* Each request runs one READ COMMITTED transaction.  A statement that     *)
(* locks rows is a step, and so is each row it has to wait for; what the   *)
(* transaction wrote appears when it commits.  A lock is held from its     *)
(* step to the commit.  An issue is named by its number.                   *)
(***************************************************************************)
EXTENDS Integers, FiniteSets

CONSTANTS
    MaxIssue,    \* bound: issues are numbered up to this
    Series,      \* ids of issue_repeats rows
    NoSeries,    \* repeat_id IS NULL
    Tx,          \* requests, each with a transaction
    Operations   \* what requests may ask for

Issue == 1..MaxIssue
NoIssue == 0

\* What a request asks for; "keep" leaves a field alone.
Operation ==
    [kind : {"create", "sub"}, private : {"keep", "yes"}, status : {"keep"}, repeat : {"keep", "set"}]
    \cup [kind : {"update"}, private : {"keep", "yes", "no"}, status : {"keep", "open", "done"},
          repeat : {"keep", "set", "stop"}]
    \cup [kind : {"duplicate"}, private : {"keep"}, status : {"done"}, repeat : {"keep"}]
    \cup [kind : {"delete", "restore"}, private : {"keep"}, status : {"keep"}, repeat : {"keep"}]

ASSUME IssueAssumption ==
    /\ MaxIssue \in Nat
    /\ NoSeries \notin Series
    /\ Operations \subseteq Operation

VARIABLES
    state,    \* a row that is absent, live or soft-deleted
    parent,   \* parent_issue_id
    private,
    done,     \* Status.CountsAsDone: done or closed
    series,   \* repeat_id
    current,  \* repeat_current: the live repetition of its series
    next,     \* projects.next_issue_number
    pc, op, target,  \* where a transaction is, what was asked, of which issue
    lock,     \* its row locks
    todo,     \* rows its UPDATE matched and has yet to lock
    chosen    \* the series it keeps its issue in, or puts it in

rows == <<state, parent, private, done, series, current, next>>
tx == <<pc, op, target, lock, todo, chosen>>
vars == <<rows, tx>>

\* PostgreSQL's row locks, numbered so that two conflict exactly when their
\* numbers add up to more than 4.
Unlocked == 0
Share == 2         \* SELECT FOR SHARE
NoKeyUpdate == 3   \* UPDATE
ForUpdate == 4     \* SELECT FOR UPDATE
KeyShare == 1      \* an insert, on the row its foreign key names

NoOperation == [kind |-> "create", private |-> "keep", status |-> "keep", repeat |-> "keep"]

RowTypes ==
    /\ state \in [Issue -> {"none", "live", "deleted"}]
    /\ parent \in [Issue -> Issue \cup {NoIssue}]
    /\ private \in [Issue -> BOOLEAN]
    /\ done \in [Issue -> BOOLEAN]
    /\ series \in [Issue -> Series \cup {NoSeries}]
    /\ current \in [Issue -> BOOLEAN]
    /\ next \in 1..(MaxIssue + 1)

TxTypes ==
    /\ pc \in [Tx -> {"idle", "other", "parent", "write", "rows", "insert"}]
    /\ op \in [Tx -> Operation]
    /\ target \in [Tx -> Issue \cup {NoIssue}]
    /\ lock \in [Tx -> [Issue -> 0..4]]
    /\ todo \in [Tx -> SUBSET Issue]
    /\ chosen \in [Tx -> Series \cup {NoSeries}]
    /\ \A t \in Tx :
        IF pc[t] = "idle" THEN target[t] = NoIssue
        ELSE IF op[t].kind = "create" THEN pc[t] = "insert" /\ target[t] = NoIssue
        ELSE target[t] \in Issue

TypeOK == RowTypes /\ TxTypes

Init ==
    /\ state = [i \in Issue |-> "none"]
    /\ parent = [i \in Issue |-> NoIssue]
    /\ private = [i \in Issue |-> FALSE]
    /\ done = [i \in Issue |-> FALSE]
    /\ series = [i \in Issue |-> NoSeries]
    /\ current = [i \in Issue |-> FALSE]
    /\ next = 1
    /\ pc = [t \in Tx |-> "idle"]
    /\ op = [t \in Tx |-> NoOperation]
    /\ target = [t \in Tx |-> NoIssue]
    /\ lock = [t \in Tx |-> [i \in Issue |-> Unlocked]]
    /\ todo = [t \in Tx |-> {}]
    /\ chosen = [t \in Tx |-> NoSeries]

-------------------------------------------------------------------------------
\* Nobody else holds a lock on i that conflicts with mode.
Free(t, i, mode) == \A u \in Tx \ {t} : lock[u][i] + mode <= 4
Take(t, i, mode) == lock' = [lock EXCEPT ![t][i] = mode]
\* The project's row is locked from LockProject to the commit.
ProjectFree == \A t \in Tx : pc[t] # "insert"
Goto(t, label) == pc' = [pc EXCEPT ![t] = label]

Exists(i) == state[i] # "none"
IsSub(i) == parent[i] # NoIssue

\* What an update makes of its issue.
NewPrivate(t) == op[t].private = "yes" \/ (op[t].private = "keep" /\ private[target[t]])
NewDone(t) == op[t].status = "done" \/ (op[t].status = "keep" /\ done[target[t]])
BecomesDone(t) == ~done[target[t]] /\ NewDone(t)
Repeats(t) == op[t].repeat = "set" \/ (op[t].repeat = "keep" /\ current[target[t]])
Updating(t) == op[t].kind \in {"update", "duplicate"}
MakesPrivate(t) == Updating(t) /\ op[t].private = "yes" /\ ~private[target[t]]
\* advanceIssueRepeat has a next repetition to create.
Advances(t) == Updating(t) /\ BecomesDone(t) /\ Repeats(t)

\* Mutant: deleted sub-issues are left out.
MatchesLive(t, c) ==
    LET x == target[t] IN
    \/ op[t].kind = "delete" /\ state[c] = "live" /\ parent[c] = x
    \/ op[t].kind = "restore" /\ state[c] = "deleted" /\ (parent[c] = x \/ c = parent[x])
    \/ MakesPrivate(t) /\ state[c] = "live" /\ parent[c] = x /\ ~private[c]

\* The rows besides its issue that a transaction's UPDATE matches.
Matches(t, c) ==
    LET x == target[t] IN
    \/ op[t].kind = "delete" /\ state[c] = "live" /\ parent[c] = x
    \/ op[t].kind = "restore" /\ state[c] = "deleted" /\ (parent[c] = x \/ c = parent[x])
    \/ MakesPrivate(t) /\ Exists(c) /\ parent[c] = x /\ ~private[c]

FreshSeries(s) == /\ \A i \in Issue : series[i] # s
                  /\ \A t \in Tx : chosen[t] # s
\* Mutant: a deleted later repetition is overlooked.
NewestLive(i) == \A j \in Issue : series[j] = series[i] /\ state[j] = "live" => j <= i
Newest(i) == \A j \in Issue : series[j] = series[i] => j <= i

-------------------------------------------------------------------------------
(* The steps of a transaction *)

\* The issue the request names is locked FOR UPDATE, live unless it is to be
\* restored.  A sub-issue cannot have sub-issues.
LockIssue(t, o, x) ==
    /\ pc[t] = "idle" /\ o.kind # "create"
    /\ state[x] = IF o.kind = "restore" THEN "deleted" ELSE "live"
    /\ o.kind = "sub" => ~IsSub(x)
    /\ Free(t, x, ForUpdate)
    /\ Take(t, x, ForUpdate)
    /\ op' = [op EXCEPT ![t] = o]
    /\ target' = [target EXCEPT ![t] = x]
    /\ Goto(t, IF o.kind = "sub" THEN "rows" ELSE IF o.kind = "duplicate" THEN "other"
               ELSE IF o.private = "no" /\ IsSub(x) THEN "parent" ELSE "write")
    /\ UNCHANGED <<rows, todo, chosen>>

\* A duplicates link also locks the live issue it points at.
LockOther(t, y) ==
    /\ pc[t] = "other" /\ y # target[t] /\ state[y] = "live"
    /\ Free(t, y, ForUpdate)
    /\ Take(t, y, ForUpdate)
    /\ Goto(t, "write")
    /\ UNCHANGED <<rows, op, target, todo, chosen>>

\* Mutant: a sub-issue going public reads its parent without a lock.
CheckParentUnlocked(t) ==
    /\ pc[t] = "parent" /\ ~private[parent[target[t]]]
    /\ Goto(t, "write")
    /\ UNCHANGED <<rows, op, target, lock, todo, chosen>>

\* A sub-issue going public reads its parent FOR SHARE.
CheckParent(t) ==
    LET p == parent[target[t]] IN
    /\ pc[t] = "parent" /\ IsSub(target[t]) /\ ~private[p]
    /\ Free(t, p, Share)
    /\ Take(t, p, Share)
    /\ Goto(t, "write")
    /\ UNCHANGED <<rows, op, target, todo, chosen>>

\* The repeat is set up, and the UPDATE's snapshot matches its rows.  A repeat
\* stopped on its newest repetition picks its series up again.
Write(t, s) ==
    LET x == target[t]
        reuse == current[x] \/ (series[x] # NoSeries /\ Newest(x)) IN
    /\ pc[t] = "write"
    /\ op[t].repeat = "set" => ~(done[x] /\ NewDone(t))
    /\ IF op[t].repeat = "set" /\ ~reuse THEN s \in Series /\ FreshSeries(s) ELSE s = series[x]
    /\ chosen' = [chosen EXCEPT ![t] = s]
    /\ todo' = [todo EXCEPT ![t] = {c \in Issue : Matches(t, c)}]
    /\ Goto(t, "rows")
    /\ UNCHANGED <<rows, op, target, lock>>

\* Each row is locked once it is free, and left alone if it no longer matches.
LockRow(t, c) ==
    /\ pc[t] = "rows" /\ c \in todo[t]
    /\ Free(t, c, NoKeyUpdate)
    /\ todo' = [todo EXCEPT ![t] = @ \ {c}]
    /\ IF Matches(t, c) THEN Take(t, c, NoKeyUpdate) ELSE UNCHANGED lock
    /\ UNCHANGED <<rows, pc, op, target, chosen>>

\* A new issue needs the project's next number, read under the project's lock.
LockProject(t, o) ==
    /\ ProjectFree
    /\ \/ /\ pc[t] = "idle" /\ o.kind = "create"
          /\ op' = [op EXCEPT ![t] = o]
       \/ /\ pc[t] = "rows" /\ o = op[t] /\ todo[t] = {}
          /\ op[t].kind = "sub" \/ Advances(t)
          /\ UNCHANGED op
    /\ Goto(t, "insert")
    /\ UNCHANGED <<rows, target, lock, todo, chosen>>

\* Mutant: a transaction goes on after its end.
FinishUnended(t) ==
    /\ pc' = pc
    /\ op' = [op EXCEPT ![t] = NoOperation]
    /\ target' = [target EXCEPT ![t] = NoIssue]
    /\ lock' = [lock EXCEPT ![t] = [i \in Issue |-> Unlocked]]
    /\ todo' = [todo EXCEPT ![t] = {}]
    /\ chosen' = [chosen EXCEPT ![t] = NoSeries]

\* COMMIT or ROLLBACK: the transaction's locks are gone.
Finish(t) ==
    /\ Goto(t, "idle")
    /\ op' = [op EXCEPT ![t] = NoOperation]
    /\ target' = [target EXCEPT ![t] = NoIssue]
    /\ lock' = [lock EXCEPT ![t] = [i \in Issue |-> Unlocked]]
    /\ todo' = [todo EXCEPT ![t] = {}]
    /\ chosen' = [chosen EXCEPT ![t] = NoSeries]

Insert(p) ==
    /\ next <= MaxIssue
    /\ state' = [state EXCEPT ![next] = "live"]
    /\ parent' = [parent EXCEPT ![next] = p]
    /\ next' = next + 1

\* CreateIssue and CreateSubIssue
CommitCreate(t, s) ==
    /\ pc[t] = "insert" /\ op[t].kind \in {"create", "sub"}
    /\ IF op[t].repeat = "set" THEN s \in Series /\ FreshSeries(s) ELSE s = NoSeries
    /\ Insert(target[t])
    /\ private' = [private EXCEPT ![next] = \/ op[t].private = "yes"
                                            \/ op[t].kind = "sub" /\ private[target[t]]]
    /\ series' = [series EXCEPT ![next] = s]
    /\ current' = [current EXCEPT ![next] = op[t].repeat = "set"]
    /\ UNCHANGED done
    /\ Finish(t)

\* UpdateIssue and a duplicates link, when no repetition follows: the issue was
\* not completed, does not repeat, or its schedule has no more dates.
CommitUpdate(t) ==
    LET x == target[t] IN
    /\ pc[t] = "rows" /\ todo[t] = {} /\ Updating(t)
    /\ private' = [i \in Issue |-> IF i = x THEN NewPrivate(t)
                                   ELSE (MakesPrivate(t) /\ lock[t][i] = NoKeyUpdate) \/ private[i]]
    /\ done' = [done EXCEPT ![x] = NewDone(t)]
    /\ series' = [series EXCEPT ![x] = chosen[t]]
    /\ current' = [current EXCEPT ![x] = Repeats(t) /\ ~BecomesDone(t)]
    /\ UNCHANGED <<state, parent, next>>
    /\ Finish(t)

\* Mutant: the completed repetition stays the series' live one.
CommitNextKeepingCurrent(t) ==
    LET x == target[t] IN
    /\ pc[t] = "insert" /\ Updating(t)
    /\ IsSub(x) => Free(t, parent[x], KeyShare)
    /\ Insert(parent[x])
    /\ private' = [i \in Issue |-> IF i \in {x, next} THEN NewPrivate(t)
                                   ELSE (MakesPrivate(t) /\ lock[t][i] = NoKeyUpdate) \/ private[i]]
    /\ done' = [done EXCEPT ![x] = TRUE]
    /\ series' = [i \in Issue |-> IF i \in {x, next} THEN chosen[t] ELSE series[i]]
    /\ current' = [i \in Issue |-> i \in {x, next} \/ current[i]]
    /\ Finish(t)

\* advanceIssueRepeat: the next repetition comes with the completion.  Its
\* insert locks the parent's key.
CommitNext(t) ==
    LET x == target[t] IN
    /\ pc[t] = "insert" /\ Updating(t)
    /\ IsSub(x) => Free(t, parent[x], KeyShare)
    /\ Insert(parent[x])
    /\ private' = [i \in Issue |-> IF i \in {x, next} THEN NewPrivate(t)
                                   ELSE (MakesPrivate(t) /\ lock[t][i] = NoKeyUpdate) \/ private[i]]
    /\ done' = [done EXCEPT ![x] = TRUE]
    /\ series' = [i \in Issue |-> IF i \in {x, next} THEN chosen[t] ELSE series[i]]
    /\ current' = [i \in Issue |-> i = next \/ (i # x /\ current[i])]
    /\ Finish(t)

\* DeleteIssue and RestoreIssue take the locked rows along.
CommitState(t) ==
    /\ pc[t] = "rows" /\ todo[t] = {} /\ op[t].kind \in {"delete", "restore"}
    /\ state' = [i \in Issue |-> IF lock[t][i] < NoKeyUpdate THEN state[i]
                                 ELSE IF op[t].kind = "delete" THEN "deleted" ELSE "live"]
    /\ UNCHANGED <<parent, private, done, series, current, next>>
    /\ Finish(t)

\* A failed check, a cancelled request, a deadlock PostgreSQL breaks, a crash.
Rollback(t) ==
    /\ pc[t] # "idle"
    /\ Finish(t)
    /\ UNCHANGED rows

Next ==
    \E t \in Tx :
        \/ \E o \in Operations, x \in Issue : LockIssue(t, o, x)
        \/ \E y \in Issue : LockOther(t, y)
        \/ CheckParent(t)
        \/ \E s \in Series \cup {NoSeries} : Write(t, s) \/ CommitCreate(t, s)
        \/ \E c \in todo[t] : LockRow(t, c)
        \/ \E o \in Operations : LockProject(t, o)
        \/ CommitUpdate(t) \/ CommitNext(t) \/ CommitState(t)
        \/ Rollback(t)

Spec == Init /\ [][Next]_vars

-------------------------------------------------------------------------------
(* Properties *)

\* "A sub-issue is never more visible than its parent" (SECURITY_MODEL.md),
\* deleted ones included so that a restore cannot bring one back public.
SubIssuesHidden ==
    \A i \in Issue : Exists(i) /\ IsSub(i) /\ private[parent[i]] => private[i]

\* The live repetition of a series is its only one, its newest, and open: the
\* unique index on repeat_current never refuses a request.
OneLiveRepetition ==
    \A i \in Issue : current[i] =>
        /\ series[i] # NoSeries /\ Newest(i) /\ ~done[i]
        /\ \A j \in Issue : current[j] /\ series[j] = series[i] => j = i

\* A series grows only when its live repetition is completed, by one at a time:
\* concurrent completions create one repetition.
GrowsByCompletion ==
    \A n \in Issue :
        ~Exists(n) /\ Exists(n)' /\ (\E i \in Issue : series[i] = series'[n] /\ series[i] # NoSeries)
            => \E i \in Issue : /\ ~done[i] /\ done'[i] /\ series'[i] = series'[n] /\ i < n
                                /\ \A j \in Issue : series'[j] = series'[n] /\ j # n => j <= i
SeriesGrowth == [][GrowsByCompletion]_vars

\* Deleting an issue takes its live sub-issues along, and restoring a sub-issue
\* brings its parent back: a live sub-issue has a live parent.
LiveUnderLive ==
    \A i \in Issue : state[i] = "live" /\ IsSub(i) => state[parent[i]] = "live"

-------------------------------------------------------------------------------
(* Inductive invariants: what the proofs need beside the properties. *)

\* Locks exclude each other, a transaction keeps its issue locked, and an UPDATE
\* locks its rows only once it has matched them.
LocksInv ==
    /\ \A t, u \in Tx : t # u => \A i \in Issue : lock[t][i] + lock[u][i] <= 4
    /\ \A t \in Tx : pc[t] # "idle" /\ op[t].kind # "create" => lock[t][target[t]] = ForUpdate
    /\ \A t \in Tx : \A i \in Issue :
        /\ lock[t][i] # Unlocked => Exists(i)
        /\ pc[t] \notin {"rows", "insert"} => lock[t][i] # NoKeyUpdate

\* Numbers are given out in order, and the tree has two levels.
TreeInv ==
    /\ \A i \in Issue : Exists(i) <=> i < next
    /\ \A i \in Issue : IsSub(i) => Exists(i) /\ Exists(parent[i]) /\ ~IsSub(parent[i])
    /\ \A t \in Tx : pc[t] # "idle" /\ op[t].kind # "create" =>
        Exists(target[t]) /\ (op[t].kind = "sub" => ~IsSub(target[t]))

\* While a sub-issue goes public its parent is held, and not private.
ParentHeld(t) ==
    /\ pc[t] = "other" => op[t].private = "keep"
    /\ pc[t] \in {"write", "rows", "insert"} /\ op[t].private = "no" /\ IsSub(target[t])
        => lock[t][parent[target[t]]] = Share /\ ~private[parent[target[t]]]

\* While an issue goes private its public sub-issues are held, or about to be.
SubIssuesHeld(t) ==
    /\ pc[t] \in {"rows", "insert"} /\ MakesPrivate(t) =>
        \A c \in Issue : /\ parent[c] = target[t] /\ ~private[c] =>
                             c \in todo[t] \/ lock[t][c] = NoKeyUpdate
                         /\ lock[t][c] = NoKeyUpdate => parent[c] = target[t]
    /\ pc[t] = "insert" /\ Updating(t) => todo[t] = {}

PrivacyInv == SubIssuesHidden /\ \A t \in Tx : ParentHeld(t) /\ SubIssuesHeld(t)

\* The series t has chosen goes on from its issue, or is nobody else's.
ChosenIsFree(t) ==
    \/ chosen[t] = series[target[t]] /\ Newest(target[t])
    \/ /\ \A i \in Issue : series[i] # chosen[t]
       /\ \A u \in Tx \ {t} : chosen[u] # chosen[t]

SeriesChosen(t) ==
    pc[t] \in {"rows", "insert"} /\ Updating(t) =>
        /\ op[t].repeat = "set" =>
            chosen[t] # NoSeries /\ ~(done[target[t]] /\ NewDone(t)) /\ ChosenIsFree(t)
        /\ op[t].repeat # "set" => chosen[t] = series[target[t]]
        /\ pc[t] = "insert" => Advances(t)

RepeatInv ==
    /\ OneLiveRepetition
    /\ \A i \in Issue : ~Exists(i) => series[i] = NoSeries /\ ~current[i] /\ ~done[i]
    /\ \A t \in Tx : SeriesChosen(t)

===============================================================================
