----------------------------- MODULE IssuesProofs -----------------------------
(* Proofs about Issues. *)
EXTENDS Issues, TLAPS

-------------------------------------------------------------------------------
(* Types *)

LEMMA NoOperationIsOne == NoOperation \in Operation
BY DEF NoOperation, Operation

LEMMA TypeInit == Init => TypeOK
BY IssueAssumption, NoOperationIsOne DEF Init, TypeOK, RowTypes, TxTypes, NoIssue, Unlocked, Issue

LEMMA TypeStep == TypeOK /\ [Next]_vars => TypeOK'
<1> SUFFICES ASSUME TypeOK, [Next]_vars PROVE TypeOK'
  OBVIOUS
<1>1. ASSUME NEW t \in Tx, NEW o \in Operations, NEW x \in Issue, LockIssue(t, o, x)
      PROVE  TypeOK'
  <2>1. RowTypes'
    BY <1>1, IssueAssumption DEF LockIssue, TypeOK, RowTypes, TxTypes, Goto, Take, Finish, rows
  <2>2. TxTypes'
    BY <1>1, IssueAssumption, NoOperationIsOne DEF LockIssue, TypeOK, RowTypes, TxTypes, Goto, Take, Finish, Unlocked, Share, NoKeyUpdate, ForUpdate, IsSub, NoIssue, Issue
  <2> QED BY <2>1, <2>2 DEF TypeOK
<1>2. ASSUME NEW t \in Tx, NEW y \in Issue, LockOther(t, y)
      PROVE  TypeOK'
  <2>1. RowTypes'
    BY <1>2, IssueAssumption DEF LockOther, TypeOK, RowTypes, TxTypes, Goto, Take, Finish, rows
  <2>2. TxTypes'
    BY <1>2, IssueAssumption, NoOperationIsOne DEF LockOther, TypeOK, RowTypes, TxTypes, Goto, Take, Finish, Unlocked, Share, NoKeyUpdate, ForUpdate, IsSub, NoIssue, Issue
  <2> QED BY <2>1, <2>2 DEF TypeOK
<1>3. ASSUME NEW t \in Tx, CheckParent(t)
      PROVE  TypeOK'
  <2>1. RowTypes'
    BY <1>3, IssueAssumption DEF CheckParent, TypeOK, RowTypes, TxTypes, Goto, Take, Finish, rows
  <2>2. TxTypes'
    <3>1. target[t] \in Issue /\ parent[target[t]] \in Issue
      BY <1>3 DEF CheckParent, TypeOK, RowTypes, TxTypes, IsSub
    <3>2. lock' \in [Tx -> [Issue -> 0..4]]
      BY <1>3, <3>1 DEF CheckParent, TypeOK, TxTypes, Take, Share
    <3> QED BY <1>3, <3>2 DEF CheckParent, TypeOK, TxTypes, Goto
  <2> QED BY <2>1, <2>2 DEF TypeOK
<1>4. ASSUME NEW t \in Tx, NEW s \in Series \cup {NoSeries}, Write(t, s)
      PROVE  TypeOK'
  <2>1. RowTypes'
    BY <1>4, IssueAssumption DEF Write, TypeOK, RowTypes, TxTypes, Goto, Take, Finish, rows
  <2>2. TxTypes'
    BY <1>4, IssueAssumption, NoOperationIsOne DEF Write, TypeOK, RowTypes, TxTypes, Goto, Take, Finish, Unlocked, Share, NoKeyUpdate, ForUpdate, IsSub, NoIssue, Issue
  <2> QED BY <2>1, <2>2 DEF TypeOK
<1>5. ASSUME NEW t \in Tx, NEW c \in todo[t], LockRow(t, c)
      PROVE  TypeOK'
  <2>1. RowTypes'
    BY <1>5, IssueAssumption DEF LockRow, TypeOK, RowTypes, TxTypes, Goto, Take, Finish, rows
  <2>2. TxTypes'
    <3>1. c \in Issue
      BY DEF TypeOK, TxTypes
    <3>2. lock' \in [Tx -> [Issue -> 0..4]]
      <4>1. CASE Matches(t, c)
        BY <1>5, <3>1, <4>1 DEF LockRow, TypeOK, TxTypes, Take, NoKeyUpdate
      <4>2. CASE ~Matches(t, c)
        BY <1>5, <4>2 DEF LockRow, TypeOK, TxTypes
      <4> QED BY <4>1, <4>2
    <3>3. todo' \in [Tx -> SUBSET Issue]
      BY <1>5 DEF LockRow, TypeOK, TxTypes
    <3> QED BY <1>5, <3>2, <3>3 DEF LockRow, TypeOK, TxTypes
  <2> QED BY <2>1, <2>2 DEF TypeOK
<1>6. ASSUME NEW t \in Tx, NEW o \in Operations, LockProject(t, o)
      PROVE  TypeOK'
  <2>1. RowTypes'
    BY <1>6, IssueAssumption DEF LockProject, TypeOK, RowTypes, TxTypes, Goto, Take, Finish, rows
  <2>2. TxTypes'
    <3>1. CASE pc[t] = "idle" /\ o.kind = "create" /\ op' = [op EXCEPT ![t] = o]
      BY <1>6, <3>1, IssueAssumption DEF LockProject, TypeOK, TxTypes, Goto
    <3>2. CASE pc[t] = "rows" /\ UNCHANGED op
      BY <1>6, <3>2 DEF LockProject, TypeOK, TxTypes, Goto
    <3> QED BY <1>6, <3>1, <3>2 DEF LockProject
  <2> QED BY <2>1, <2>2 DEF TypeOK
<1>7. ASSUME NEW t \in Tx, NEW s \in Series \cup {NoSeries}, CommitCreate(t, s)
      PROVE  TypeOK'
  <2>1. RowTypes'
    BY <1>7, IssueAssumption DEF CommitCreate, TypeOK, RowTypes, TxTypes, Insert, Finish, Goto, Issue, NoIssue
  <2>2. TxTypes'
    BY <1>7, IssueAssumption, NoOperationIsOne DEF CommitCreate, TypeOK, RowTypes, TxTypes, Goto, Take, Finish, Unlocked, Share, NoKeyUpdate, ForUpdate, IsSub, NoIssue, Issue
  <2> QED BY <2>1, <2>2 DEF TypeOK
<1>8. ASSUME NEW t \in Tx, CommitUpdate(t)
      PROVE  TypeOK'
  <2>1. RowTypes'
    BY <1>8, IssueAssumption DEF CommitUpdate, TypeOK, RowTypes, TxTypes, Finish, Goto, NewPrivate, NewDone, Issue
  <2>2. TxTypes'
    BY <1>8, IssueAssumption, NoOperationIsOne DEF CommitUpdate, TypeOK, RowTypes, TxTypes, Goto, Take, Finish, Unlocked, Share, NoKeyUpdate, ForUpdate, IsSub, NoIssue, Issue
  <2> QED BY <2>1, <2>2 DEF TypeOK
<1>9. ASSUME NEW t \in Tx, CommitNext(t)
      PROVE  TypeOK'
  <2>1. RowTypes'
    <3>1. target[t] \in Issue /\ parent[target[t]] \in Issue \cup {NoIssue} /\ next \in Issue /\ NewPrivate(t) \in BOOLEAN
      BY <1>9 DEF CommitNext, TypeOK, RowTypes, TxTypes, Updating, Insert, Issue, NewPrivate
    <3>2. state' \in [Issue -> {"none", "live", "deleted"}] /\ parent' \in [Issue -> Issue \cup {NoIssue}]
      BY <1>9, <3>1 DEF CommitNext, TypeOK, RowTypes, Insert
    <3>3. next' \in 1..(MaxIssue + 1)
      BY <1>9, IssueAssumption DEF CommitNext, TypeOK, RowTypes, Insert
    <3>4. private' \in [Issue -> BOOLEAN]
      BY <1>9 DEF CommitNext, TypeOK, RowTypes, NewPrivate
    <3>6. current' \in [Issue -> BOOLEAN]
      BY <1>9 DEF CommitNext, TypeOK, RowTypes
    <3>5. done' \in [Issue -> BOOLEAN] /\ series' \in [Issue -> Series \cup {NoSeries}]
      BY <1>9 DEF CommitNext, TypeOK, RowTypes, TxTypes
    <3> QED BY <3>2, <3>3, <3>4, <3>5, <3>6 DEF RowTypes
  <2>2. TxTypes'
    BY <1>9, IssueAssumption, NoOperationIsOne DEF CommitNext, TypeOK, RowTypes, TxTypes, Goto, Take, Finish, Unlocked, Share, NoKeyUpdate, ForUpdate, IsSub, NoIssue, Issue
  <2> QED BY <2>1, <2>2 DEF TypeOK
<1>10. ASSUME NEW t \in Tx, CommitState(t)
      PROVE  TypeOK'
  <2>1. RowTypes'
    BY <1>10, IssueAssumption DEF CommitState, TypeOK, RowTypes, TxTypes, Finish, Goto
  <2>2. TxTypes'
    BY <1>10, IssueAssumption, NoOperationIsOne DEF CommitState, TypeOK, RowTypes, TxTypes, Goto, Take, Finish, Unlocked, Share, NoKeyUpdate, ForUpdate, IsSub, NoIssue, Issue
  <2> QED BY <2>1, <2>2 DEF TypeOK
<1>11. ASSUME NEW t \in Tx, Rollback(t)
      PROVE  TypeOK'
  <2>1. RowTypes'
    BY <1>11, IssueAssumption DEF Rollback, TypeOK, RowTypes, TxTypes, Goto, Take, Finish, rows
  <2>2. TxTypes'
    BY <1>11, IssueAssumption, NoOperationIsOne DEF Rollback, TypeOK, RowTypes, TxTypes, Goto, Take, Finish, Unlocked, Share, NoKeyUpdate, ForUpdate, IsSub, NoIssue, Issue
  <2> QED BY <2>1, <2>2 DEF TypeOK
<1>12. CASE UNCHANGED vars
  BY <1>12 DEF vars, rows, tx, TypeOK, RowTypes, TxTypes
<1> QED BY <1>1, <1>2, <1>3, <1>4, <1>5, <1>6, <1>7, <1>8, <1>9, <1>10, <1>11, <1>12 DEF Next

\* Every reachable state is well typed; in particular a transaction past its
\* first lock has an issue.
THEOREM IssuesTyped == Spec => []TypeOK
<1>1. Init => TypeOK
  BY TypeInit
<1>2. TypeOK /\ [Next]_vars => TypeOK'
  BY TypeStep
<1> QED BY <1>1, <1>2, PTL DEF Spec

-------------------------------------------------------------------------------
(* Locks and the tree *)

\* A step of one transaction leaves the others where they are.
OthersKept(t) ==
    \A u \in Tx \ {t} : /\ pc'[u] = pc[u] /\ op'[u] = op[u] /\ target'[u] = target[u]
                        /\ lock'[u] = lock[u] /\ todo'[u] = todo[u] /\ chosen'[u] = chosen[u]

LEMMA FinishKeepsOthers ==
    ASSUME TypeOK, NEW t \in Tx, Finish(t)
    PROVE  OthersKept(t) /\ pc'[t] = "idle" /\ \A i \in Issue : lock'[t][i] = Unlocked
BY DEF TypeOK, TxTypes, Finish, Goto, OthersKept

LEMMA TakeSets ==
    ASSUME TypeOK, NEW t \in Tx, NEW i \in Issue, NEW mode \in 0..4, Take(t, i, mode)
    PROVE  /\ \A u \in Tx \ {t} : lock'[u] = lock[u]
           /\ \A j \in Issue : lock'[t][j] = IF j = i THEN mode ELSE lock[t][j]
BY DEF TypeOK, TxTypes, Take

\* What each step does to the locks.
LockStep(t) ==
    \/ lock' = lock
    \/ \A i \in Issue : lock'[t][i] = Unlocked
    \/ \E i \in Issue, mode \in {Share, NoKeyUpdate, ForUpdate} :
        /\ Free(t, i, mode) /\ Exists(i)
        /\ \A j \in Issue : lock'[t][j] = IF j = i THEN mode ELSE lock[t][j]

\* The steps of one transaction.
Step(t) ==
    \/ \E o \in Operations, x \in Issue : LockIssue(t, o, x)
    \/ \E y \in Issue : LockOther(t, y)
    \/ CheckParent(t)
    \/ \E s \in Series \cup {NoSeries} : Write(t, s)
    \/ \E c \in todo[t] : LockRow(t, c)
    \/ \E o \in Operations : LockProject(t, o)
    \/ \E s \in Series \cup {NoSeries} : CommitCreate(t, s)
    \/ CommitUpdate(t)
    \/ CommitNext(t)
    \/ CommitState(t)
    \/ Rollback(t)

LEMMA NextIsAStep == ASSUME [Next]_vars PROVE UNCHANGED vars \/ \E t \in Tx : Step(t)
BY DEF Next, Step

LEMMA Locking ==
    ASSUME TypeOK, TreeInv, NEW t \in Tx, Step(t)
    PROVE  OthersKept(t) /\ LockStep(t)
<1>1. ASSUME NEW o \in Operations, NEW x \in Issue, LockIssue(t, o, x) PROVE OthersKept(t) /\ LockStep(t)
  <2>1. OthersKept(t)
    BY <1>1 DEF LockIssue, TypeOK, TxTypes, Goto, Take, OthersKept
  <2>2. LockStep(t)
    BY <1>1, TakeSets DEF LockIssue, LockStep, Exists, ForUpdate
  <2> QED BY <2>1, <2>2
<1>2. ASSUME NEW y \in Issue, LockOther(t, y) PROVE OthersKept(t) /\ LockStep(t)
  <2>1. OthersKept(t)
    BY <1>2 DEF LockOther, TypeOK, TxTypes, Goto, Take, OthersKept
  <2>2. LockStep(t)
    BY <1>2, TakeSets DEF LockOther, LockStep, Exists, ForUpdate
  <2> QED BY <2>1, <2>2
<1>3. CASE CheckParent(t)
  <2>1. OthersKept(t)
    BY <1>3 DEF CheckParent, TypeOK, TxTypes, Goto, Take, OthersKept
  <2>2. parent[target[t]] \in Issue /\ Exists(parent[target[t]])
    BY <1>3 DEF CheckParent, TypeOK, RowTypes, TxTypes, TreeInv, IsSub
  <2>3. LockStep(t)
    BY <1>3, <2>2, TakeSets DEF CheckParent, LockStep, Share
  <2> QED BY <2>1, <2>3
<1>4. ASSUME NEW s \in Series \cup {NoSeries}, Write(t, s) PROVE OthersKept(t) /\ LockStep(t)
  <2>1. OthersKept(t)
    BY <1>4 DEF Write, TypeOK, TxTypes, Goto, Take, OthersKept
  <2>2. LockStep(t)
    BY <1>4 DEF Write, LockStep
  <2> QED BY <2>1, <2>2
<1>5. ASSUME NEW c \in todo[t], LockRow(t, c) PROVE OthersKept(t) /\ LockStep(t)
  <2>1. OthersKept(t)
    BY <1>5 DEF LockRow, TypeOK, TxTypes, Goto, Take, OthersKept
  <2>2. c \in Issue /\ (Matches(t, c) => Exists(c))
    BY DEF TypeOK, TxTypes, Matches, Exists
  <2>3. LockStep(t)
    BY <1>5, <2>2, TakeSets DEF LockRow, LockStep, NoKeyUpdate
  <2> QED BY <2>1, <2>3
<1>6. ASSUME NEW o \in Operations, LockProject(t, o) PROVE OthersKept(t) /\ LockStep(t)
  <2>1. OthersKept(t)
    BY <1>6 DEF LockProject, TypeOK, TxTypes, Goto, Take, OthersKept
  <2>2. LockStep(t)
    BY <1>6 DEF LockProject, LockStep
  <2> QED BY <2>1, <2>2
<1>7. ASSUME NEW s \in Series \cup {NoSeries}, CommitCreate(t, s) PROVE OthersKept(t) /\ LockStep(t)
  BY <1>7, FinishKeepsOthers DEF CommitCreate, LockStep
<1>8. CASE CommitUpdate(t)
  BY <1>8, FinishKeepsOthers DEF CommitUpdate, LockStep
<1>9. CASE CommitNext(t)
  BY <1>9, FinishKeepsOthers DEF CommitNext, LockStep
<1>10. CASE CommitState(t)
  BY <1>10, FinishKeepsOthers DEF CommitState, LockStep
<1>11. CASE Rollback(t)
  BY <1>11, FinishKeepsOthers DEF Rollback, LockStep
<1> QED BY <1>1, <1>2, <1>3, <1>4, <1>5, <1>6, <1>7, <1>8, <1>9, <1>10, <1>11 DEF Step

LEMMA RowsStay ==
    ASSUME TypeOK, TreeInv, NEW t \in Tx, Step(t)
    PROVE  \A i \in Issue : Exists(i) => Exists(i)' /\ parent'[i] = parent[i]
<1>1. ASSUME NEW o \in Operations, NEW x \in Issue, LockIssue(t, o, x) PROVE \A i \in Issue : Exists(i) => Exists(i)' /\ parent'[i] = parent[i]
  BY <1>1 DEF LockIssue, rows, Exists
<1>2. ASSUME NEW y \in Issue, LockOther(t, y) PROVE \A i \in Issue : Exists(i) => Exists(i)' /\ parent'[i] = parent[i]
  BY <1>2 DEF LockOther, rows, Exists
<1>3. CASE CheckParent(t)
  BY <1>3 DEF CheckParent, rows, Exists
<1>4. ASSUME NEW s \in Series \cup {NoSeries}, Write(t, s) PROVE \A i \in Issue : Exists(i) => Exists(i)' /\ parent'[i] = parent[i]
  BY <1>4 DEF Write, rows, Exists
<1>5. ASSUME NEW c \in todo[t], LockRow(t, c) PROVE \A i \in Issue : Exists(i) => Exists(i)' /\ parent'[i] = parent[i]
  BY <1>5 DEF LockRow, rows, Exists
<1>6. ASSUME NEW o \in Operations, LockProject(t, o) PROVE \A i \in Issue : Exists(i) => Exists(i)' /\ parent'[i] = parent[i]
  BY <1>6 DEF LockProject, rows, Exists
<1>7. ASSUME NEW s \in Series \cup {NoSeries}, CommitCreate(t, s) PROVE \A i \in Issue : Exists(i) => Exists(i)' /\ parent'[i] = parent[i]
  BY <1>7 DEF CommitCreate, TypeOK, RowTypes, TreeInv, Exists, Insert, Issue
<1>8. CASE CommitUpdate(t)
  BY <1>8 DEF CommitUpdate, Exists
<1>9. CASE CommitNext(t)
  BY <1>9 DEF CommitNext, TypeOK, RowTypes, TreeInv, Exists, Insert, Issue
<1>10. CASE CommitState(t)
  BY <1>10 DEF CommitState, TypeOK, RowTypes, Exists
<1>11. CASE Rollback(t)
  BY <1>11 DEF Rollback, rows, Exists
<1> QED BY <1>1, <1>2, <1>3, <1>4, <1>5, <1>6, <1>7, <1>8, <1>9, <1>10, <1>11 DEF Step

LEMMA LocksStep ==
    ASSUME TypeOK, TypeOK', LocksInv, TreeInv, NEW t \in Tx, Step(t)
    PROVE  LocksInv'
<1>1. OthersKept(t) /\ LockStep(t)
  BY Locking
<1>2. \A i \in Issue : \A u \in Tx : u # t => lock'[t][i] + lock[u][i] <= 4
  <2> SUFFICES ASSUME NEW i \in Issue, NEW u \in Tx, u # t PROVE lock'[t][i] + lock[u][i] <= 4
    OBVIOUS
  <2> lock[t][i] \in 0..4 /\ lock[u][i] \in 0..4
    BY DEF TypeOK, TxTypes
  <2> QED BY <1>1 DEF LockStep, LocksInv, Free, Unlocked, Share, NoKeyUpdate, ForUpdate
<1>3. \A a, b \in Tx : a # b => \A i \in Issue : lock'[a][i] + lock'[b][i] <= 4
  <2> SUFFICES ASSUME NEW a \in Tx, NEW b \in Tx, a # b, NEW i \in Issue
               PROVE  lock'[a][i] + lock'[b][i] <= 4
    OBVIOUS
  <2> lock[a][i] \in 0..4 /\ lock[b][i] \in 0..4 /\ lock'[t][i] \in 0..4
    BY DEF TypeOK, TxTypes
  <2> QED BY <1>1, <1>2 DEF OthersKept, LocksInv
<1>4. \A a \in Tx : \A i \in Issue : lock'[a][i] # Unlocked => Exists(i)'
  BY <1>1, RowsStay DEF OthersKept, LockStep, LocksInv
<1>5. pc'[t] # "idle" /\ op'[t].kind # "create" => lock'[t][target'[t]] = ForUpdate
  <2>1. ASSUME NEW o \in Operations, NEW x \in Issue, LockIssue(t, o, x)
       PROVE  pc'[t] # "idle" /\ op'[t].kind # "create" => lock'[t][target'[t]] = ForUpdate
    BY <2>1, TakeSets, IssueAssumption DEF LockIssue, TypeOK, TxTypes, Goto, ForUpdate
  <2>2. ASSUME NEW y \in Issue, LockOther(t, y)
       PROVE  pc'[t] # "idle" /\ op'[t].kind # "create" => lock'[t][target'[t]] = ForUpdate
    BY <2>2, TakeSets DEF LockOther, TypeOK, TxTypes, Goto, LocksInv, ForUpdate
  <2>3. CASE CheckParent(t)
    <3>1. target[t] \in Issue /\ parent[target[t]] \in Issue /\ parent[target[t]] # target[t] /\ op[t].kind # "create"
      BY <2>3 DEF CheckParent, TypeOK, RowTypes, TxTypes, TreeInv, IsSub
    <3> QED BY <2>3, <3>1, TakeSets DEF CheckParent, TypeOK, TxTypes, Goto, LocksInv, Share
  <2>4. ASSUME NEW s \in Series \cup {NoSeries}, Write(t, s)
       PROVE  pc'[t] # "idle" /\ op'[t].kind # "create" => lock'[t][target'[t]] = ForUpdate
    BY <2>4 DEF Write, TypeOK, TxTypes, Goto, LocksInv
  <2>5. ASSUME NEW c \in todo[t], LockRow(t, c)
       PROVE  pc'[t] # "idle" /\ op'[t].kind # "create" => lock'[t][target'[t]] = ForUpdate
    <3>1. c \in Issue /\ (op[t].kind # "create" => target[t] \in Issue)
      BY <2>5 DEF LockRow, TypeOK, TxTypes
    <3>2. op[t].kind # "create" /\ Matches(t, c) => c # target[t]
      BY <2>5, <3>1 DEF LockRow, TypeOK, RowTypes, TreeInv, IsSub, NoIssue, Issue, Matches
    <3> QED BY <2>5, <3>1, <3>2, TakeSets DEF LockRow, LocksInv, NoKeyUpdate
  <2>6. ASSUME NEW o \in Operations, LockProject(t, o)
       PROVE  pc'[t] # "idle" /\ op'[t].kind # "create" => lock'[t][target'[t]] = ForUpdate
    BY <2>6 DEF LockProject, TypeOK, TxTypes, Goto, LocksInv
  <2>7. ASSUME NEW s \in Series \cup {NoSeries}, CommitCreate(t, s)
       PROVE  pc'[t] # "idle" /\ op'[t].kind # "create" => lock'[t][target'[t]] = ForUpdate
    BY <2>7, FinishKeepsOthers DEF CommitCreate
  <2>8. CASE CommitUpdate(t)
    BY <2>8, FinishKeepsOthers DEF CommitUpdate
  <2>9. CASE CommitNext(t)
    BY <2>9, FinishKeepsOthers DEF CommitNext
  <2>10. CASE CommitState(t)
    BY <2>10, FinishKeepsOthers DEF CommitState
  <2>11. CASE Rollback(t)
    BY <2>11, FinishKeepsOthers DEF Rollback
  <2> QED BY <2>1, <2>2, <2>3, <2>4, <2>5, <2>6, <2>7, <2>8, <2>9, <2>10, <2>11 DEF Step
<1>6. \A i \in Issue : pc'[t] \notin {"rows", "insert"} => lock'[t][i] # NoKeyUpdate
  <2>1. ASSUME NEW o \in Operations, NEW x \in Issue, LockIssue(t, o, x)
       PROVE  \A i \in Issue : pc'[t] \notin {"rows", "insert"} => lock'[t][i] # NoKeyUpdate
    <3>1. \A i \in Issue : lock[t][i] # NoKeyUpdate
      BY <2>1 DEF LockIssue, LocksInv
    <3>2. Take(t, x, ForUpdate) /\ ForUpdate \in 0..4 /\ ForUpdate # NoKeyUpdate
      BY <2>1 DEF LockIssue, ForUpdate, NoKeyUpdate
    <3> QED BY <3>1, <3>2, TakeSets
  <2>2. ASSUME NEW y \in Issue, LockOther(t, y)
       PROVE  \A i \in Issue : pc'[t] \notin {"rows", "insert"} => lock'[t][i] # NoKeyUpdate
    <3>1. \A i \in Issue : lock[t][i] # NoKeyUpdate
      BY <2>2 DEF LockOther, LocksInv
    <3>2. Take(t, y, ForUpdate) /\ ForUpdate \in 0..4 /\ ForUpdate # NoKeyUpdate
      BY <2>2 DEF LockOther, ForUpdate, NoKeyUpdate
    <3> QED BY <3>1, <3>2, TakeSets
  <2>3. CASE CheckParent(t)
    <3>1. parent[target[t]] \in Issue
      BY <2>3 DEF CheckParent, TypeOK, RowTypes, TxTypes, IsSub
    <3>2. \A i \in Issue : lock[t][i] # NoKeyUpdate
      BY <2>3 DEF CheckParent, LocksInv
    <3>3. Take(t, parent[target[t]], Share) /\ Share \in 0..4 /\ Share # NoKeyUpdate
      BY <2>3 DEF CheckParent, Share, NoKeyUpdate
    <3> QED BY <3>1, <3>2, <3>3, TakeSets
  <2>4. ASSUME NEW s \in Series \cup {NoSeries}, Write(t, s)
       PROVE  \A i \in Issue : pc'[t] \notin {"rows", "insert"} => lock'[t][i] # NoKeyUpdate
    BY <2>4 DEF Write, TypeOK, TxTypes, Goto, LocksInv
  <2>5. ASSUME NEW c \in todo[t], LockRow(t, c)
       PROVE  \A i \in Issue : pc'[t] \notin {"rows", "insert"} => lock'[t][i] # NoKeyUpdate
    BY <2>5 DEF LockRow, TypeOK, TxTypes, Goto, LocksInv
  <2>6. ASSUME NEW o \in Operations, LockProject(t, o)
       PROVE  \A i \in Issue : pc'[t] \notin {"rows", "insert"} => lock'[t][i] # NoKeyUpdate
    BY <2>6 DEF LockProject, TypeOK, TxTypes, Goto, LocksInv
  <2>7. ASSUME NEW s \in Series \cup {NoSeries}, CommitCreate(t, s)
       PROVE  \A i \in Issue : pc'[t] \notin {"rows", "insert"} => lock'[t][i] # NoKeyUpdate
    BY <2>7, FinishKeepsOthers DEF CommitCreate, Unlocked, NoKeyUpdate
  <2>8. CASE CommitUpdate(t)
    BY <2>8, FinishKeepsOthers DEF CommitUpdate, Unlocked, NoKeyUpdate
  <2>9. CASE CommitNext(t)
    BY <2>9, FinishKeepsOthers DEF CommitNext, Unlocked, NoKeyUpdate
  <2>10. CASE CommitState(t)
    BY <2>10, FinishKeepsOthers DEF CommitState, Unlocked, NoKeyUpdate
  <2>11. CASE Rollback(t)
    BY <2>11, FinishKeepsOthers DEF Rollback, Unlocked, NoKeyUpdate
  <2> QED BY <2>1, <2>2, <2>3, <2>4, <2>5, <2>6, <2>7, <2>8, <2>9, <2>10, <2>11 DEF Step
<1> QED BY <1>1, <1>3, <1>4, <1>5, <1>6 DEF LocksInv, OthersKept

\* What a step does to the tree: nothing, a new last issue under none or under a
\* top-level one, or rows deleted and restored.
TreeRows ==
    \/ UNCHANGED <<state, parent, next>>
    \/ \E p \in Issue \cup {NoIssue} :
        /\ next \in Issue /\ next' = next + 1
        /\ state' = [state EXCEPT ![next] = "live"]
        /\ parent' = [parent EXCEPT ![next] = p]
        /\ p # NoIssue => state[p] # "none" /\ parent[p] = NoIssue
    \/ /\ parent' = parent /\ next' = next
       /\ \A i \in Issue : state'[i] = "none" <=> state[i] = "none"

LEMMA TreeRowsStep ==
    ASSUME TypeOK, LocksInv, TreeInv, NEW t \in Tx, Step(t)
    PROVE  TreeRows
<1>1. ASSUME NEW o \in Operations, NEW x \in Issue, LockIssue(t, o, x) PROVE TreeRows
  BY <1>1 DEF LockIssue, rows, TreeRows
<1>2. ASSUME NEW y \in Issue, LockOther(t, y) PROVE TreeRows
  BY <1>2 DEF LockOther, rows, TreeRows
<1>3. CASE CheckParent(t)
  BY <1>3 DEF CheckParent, rows, TreeRows
<1>4. ASSUME NEW s \in Series \cup {NoSeries}, Write(t, s) PROVE TreeRows
  BY <1>4 DEF Write, rows, TreeRows
<1>5. ASSUME NEW c \in todo[t], LockRow(t, c) PROVE TreeRows
  BY <1>5 DEF LockRow, rows, TreeRows
<1>6. ASSUME NEW o \in Operations, LockProject(t, o) PROVE TreeRows
  BY <1>6 DEF LockProject, rows, TreeRows
<1>7. ASSUME NEW s \in Series \cup {NoSeries}, CommitCreate(t, s) PROVE TreeRows
  <2>1. next \in Issue /\ target[t] \in Issue \cup {NoIssue}
    BY <1>7 DEF CommitCreate, TypeOK, RowTypes, TxTypes, Insert, Issue
  <2>2. target[t] # NoIssue => state[target[t]] # "none" /\ parent[target[t]] = NoIssue
    BY <1>7 DEF CommitCreate, TypeOK, TxTypes, TreeInv, Exists, IsSub
  <2> QED BY <1>7, <2>1, <2>2 DEF CommitCreate, Insert, TreeRows
<1>8. CASE CommitUpdate(t)
  BY <1>8 DEF CommitUpdate, TreeRows
<1>9. CASE CommitNext(t)
  <2>1. next \in Issue /\ target[t] \in Issue
    BY <1>9 DEF CommitNext, TypeOK, RowTypes, TxTypes, Insert, Issue, Updating
  <2>2. parent[target[t]] \in Issue \cup {NoIssue}
    BY <2>1 DEF TypeOK, RowTypes
  <2>3. parent[target[t]] # NoIssue => state[parent[target[t]]] # "none" /\ parent[parent[target[t]]] = NoIssue
    BY <2>1 DEF TreeInv, Exists, IsSub
  <2> QED BY <1>9, <2>1, <2>2, <2>3 DEF CommitNext, Insert, TreeRows
<1>10. CASE CommitState(t)
  <2>1. \A i \in Issue : state'[i] = "none" <=> state[i] = "none"
    BY <1>10 DEF CommitState, TypeOK, RowTypes, TxTypes, LocksInv, Exists, Unlocked, NoKeyUpdate
  <2> QED BY <1>10, <2>1 DEF CommitState, TreeRows
<1>11. CASE Rollback(t)
  BY <1>11 DEF Rollback, rows, TreeRows
<1> QED BY <1>1, <1>2, <1>3, <1>4, <1>5, <1>6, <1>7, <1>8, <1>9, <1>10, <1>11 DEF Step

\* A transaction keeps its request and its issue, once it has them, to its end.
TargetStep(t) ==
    \/ pc'[t] = "idle"
    \/ op'[t].kind = "create"
    \/ pc[t] # "idle" /\ op'[t] = op[t] /\ target'[t] = target[t]
    \/ /\ target'[t] \in Issue /\ state[target'[t]] # "none"
       /\ op'[t].kind = "sub" => parent[target'[t]] = NoIssue

LEMMA TargetSteps ==
    ASSUME TypeOK, NEW t \in Tx, Step(t)
    PROVE  TargetStep(t)
<1>1. ASSUME NEW o \in Operations, NEW x \in Issue, LockIssue(t, o, x) PROVE TargetStep(t)
  BY <1>1 DEF LockIssue, TypeOK, TxTypes, IsSub, TargetStep
<1>2. ASSUME NEW y \in Issue, LockOther(t, y) PROVE TargetStep(t)
  BY <1>2 DEF LockOther, TargetStep
<1>3. CASE CheckParent(t)
  BY <1>3 DEF CheckParent, TargetStep
<1>4. ASSUME NEW s \in Series \cup {NoSeries}, Write(t, s) PROVE TargetStep(t)
  BY <1>4 DEF Write, TargetStep
<1>5. ASSUME NEW c \in todo[t], LockRow(t, c) PROVE TargetStep(t)
  BY <1>5 DEF LockRow, TargetStep
<1>6. ASSUME NEW o \in Operations, LockProject(t, o) PROVE TargetStep(t)
  <2>1. CASE pc[t] = "idle" /\ o.kind = "create" /\ op' = [op EXCEPT ![t] = o]
    BY <2>1 DEF TypeOK, TxTypes, TargetStep
  <2> QED BY <1>6, <2>1 DEF LockProject, TargetStep
<1>7. ASSUME NEW s \in Series \cup {NoSeries}, CommitCreate(t, s) PROVE TargetStep(t)
  BY <1>7, FinishKeepsOthers DEF CommitCreate, TargetStep
<1>8. CASE CommitUpdate(t)
  BY <1>8, FinishKeepsOthers DEF CommitUpdate, TargetStep
<1>9. CASE CommitNext(t)
  BY <1>9, FinishKeepsOthers DEF CommitNext, TargetStep
<1>10. CASE CommitState(t)
  BY <1>10, FinishKeepsOthers DEF CommitState, TargetStep
<1>11. CASE Rollback(t)
  BY <1>11, FinishKeepsOthers DEF Rollback, TargetStep
<1> QED BY <1>1, <1>2, <1>3, <1>4, <1>5, <1>6, <1>7, <1>8, <1>9, <1>10, <1>11 DEF Step

LEMMA TreeStep ==
    ASSUME TypeOK, TypeOK', LocksInv, TreeInv, NEW t \in Tx, Step(t)
    PROVE  TreeInv'
<1>1. TreeRows /\ TargetStep(t) /\ OthersKept(t)
  BY TreeRowsStep, TargetSteps, Locking
<1>2. /\ \A i \in Issue : state[i] # "none" <=> i < next
      /\ \A i \in Issue : parent[i] # NoIssue =>
            state[i] # "none" /\ state[parent[i]] # "none" /\ parent[parent[i]] = NoIssue
  BY DEF TreeInv, Exists, IsSub
<1>3. \A i \in Issue : state'[i] # "none" <=> i < next'
  BY <1>1, <1>2 DEF TreeRows, TypeOK, RowTypes, Issue
<1>4. \A i \in Issue : state[i] # "none" => state'[i] # "none" /\ parent'[i] = parent[i]
  BY RowsStay DEF Exists
<1>5. \A i \in Issue : parent'[i] # NoIssue =>
            state'[i] # "none" /\ state'[parent'[i]] # "none" /\ parent'[parent'[i]] = NoIssue
  <2> SUFFICES ASSUME NEW i \in Issue, parent'[i] # NoIssue
               PROVE  state'[i] # "none" /\ state'[parent'[i]] # "none" /\ parent'[parent'[i]] = NoIssue
    OBVIOUS
  <2>1. parent'[i] \in Issue
    BY DEF TypeOK, RowTypes
  <2>2. CASE parent'[i] = parent[i]
    BY <1>2, <1>4, <2>1, <2>2
  <2>3. CASE parent'[i] # parent[i]
    <3>1. PICK p \in Issue \cup {NoIssue} :
             /\ next \in Issue /\ state' = [state EXCEPT ![next] = "live"]
             /\ parent' = [parent EXCEPT ![next] = p]
             /\ p # NoIssue => state[p] # "none" /\ parent[p] = NoIssue
      BY <1>1, <2>3 DEF TreeRows
    <3>2. i = next /\ parent'[i] = p /\ state'[i] = "live"
      BY <2>3, <3>1 DEF TypeOK, RowTypes
    <3> QED BY <1>4, <2>1, <3>1, <3>2
  <2> QED BY <2>2, <2>3
<1>6. \A u \in Tx : pc'[u] # "idle" /\ op'[u].kind # "create" =>
            state'[target'[u]] # "none" /\ (op'[u].kind = "sub" => parent'[target'[u]] = NoIssue)
  <2> SUFFICES ASSUME NEW u \in Tx, pc'[u] # "idle", op'[u].kind # "create"
               PROVE  state'[target'[u]] # "none" /\ (op'[u].kind = "sub" => parent'[target'[u]] = NoIssue)
    OBVIOUS
  <2>1. target'[u] \in Issue
    BY DEF TypeOK, TxTypes
  <2>2. state[target'[u]] # "none" /\ (op'[u].kind = "sub" => parent[target'[u]] = NoIssue)
    BY <1>1 DEF OthersKept, TargetStep, TreeInv, Exists, IsSub
  <2> QED BY <1>4, <2>1, <2>2
<1> QED BY <1>3, <1>5, <1>6 DEF TreeInv, Exists, IsSub

BaseInv == TypeOK /\ LocksInv /\ TreeInv

LEMMA BaseInit == Init => BaseInv
BY TypeInit DEF BaseInv, Init, LocksInv, TreeInv, Unlocked, NoKeyUpdate, Exists, IsSub, Issue, NoIssue, NoOperation

LEMMA BaseStep == BaseInv /\ [Next]_vars => BaseInv'
<1> SUFFICES ASSUME BaseInv, [Next]_vars PROVE BaseInv'
  OBVIOUS
<1>1. TypeOK'
  BY TypeStep DEF BaseInv
<1>2. CASE UNCHANGED vars
  BY <1>1, <1>2 DEF vars, rows, tx, BaseInv, LocksInv, TreeInv, Exists, IsSub
<1>3. ASSUME NEW t \in Tx, Step(t) PROVE BaseInv'
  BY <1>1, <1>3, LocksStep, TreeStep DEF BaseInv
<1> QED BY <1>2, <1>3, NextIsAStep

-------------------------------------------------------------------------------
(* Privacy *)

LEMMA OperationFacts ==
    ASSUME NEW o \in Operation
    PROVE  /\ o.private \in {"keep", "yes", "no"} /\ o.status \in {"keep", "open", "done"}
           /\ o.repeat \in {"keep", "set", "stop"}
           /\ o.private = "no" => o.kind = "update"
           /\ o.kind = "duplicate" => o.private = "keep" /\ o.repeat = "keep"
BY DEF Operation

\* What a step does to rows others may hold: an issue changes only under its
\* lock, becomes public under a held parent, and is added only under a parent
\* that nobody else holds for update.
PrivacyEffect(t) ==
    /\ \A i \in Issue : Exists(i) /\ private'[i] # private[i] => lock[t][i] \in {NoKeyUpdate, ForUpdate}
    /\ \A i \in Issue : Exists(i) /\ private[i] /\ ~private'[i] /\ IsSub(i) => lock[t][parent[i]] = Share
    /\ \A i \in Issue : ~Exists(i) /\ parent'[i] # NoIssue =>
            \A u \in Tx \ {t} : lock[u][parent'[i]] # ForUpdate

LEMMA PrivacyEffects ==
    ASSUME BaseInv, PrivacyInv, NEW t \in Tx, Step(t)
    PROVE  PrivacyEffect(t)
<1>1. ASSUME NEW o \in Operations, NEW x \in Issue, LockIssue(t, o, x) PROVE PrivacyEffect(t)
  BY <1>1 DEF LockIssue, rows, BaseInv, TreeInv, IsSub, PrivacyEffect
<1>2. ASSUME NEW y \in Issue, LockOther(t, y) PROVE PrivacyEffect(t)
  BY <1>2 DEF LockOther, rows, BaseInv, TreeInv, IsSub, PrivacyEffect
<1>3. CASE CheckParent(t)
  BY <1>3 DEF CheckParent, rows, BaseInv, TreeInv, IsSub, PrivacyEffect
<1>4. ASSUME NEW s \in Series \cup {NoSeries}, Write(t, s) PROVE PrivacyEffect(t)
  BY <1>4 DEF Write, rows, BaseInv, TreeInv, IsSub, PrivacyEffect
<1>5. ASSUME NEW c \in todo[t], LockRow(t, c) PROVE PrivacyEffect(t)
  BY <1>5 DEF LockRow, rows, BaseInv, TreeInv, IsSub, PrivacyEffect
<1>6. ASSUME NEW o \in Operations, LockProject(t, o) PROVE PrivacyEffect(t)
  BY <1>6 DEF LockProject, rows, BaseInv, TreeInv, IsSub, PrivacyEffect
<1>7. ASSUME NEW s \in Series \cup {NoSeries}, CommitCreate(t, s) PROVE PrivacyEffect(t)
  <2>1. next \in Issue /\ ~Exists(next) /\ target[t] \in Issue \cup {NoIssue}
    BY <1>7 DEF CommitCreate, BaseInv, TypeOK, RowTypes, TxTypes, TreeInv, Insert, Issue
  <2>2. target[t] # NoIssue => target[t] \in Issue /\ lock[t][target[t]] = ForUpdate
    BY <1>7, <2>1 DEF CommitCreate, BaseInv, TypeOK, TxTypes, LocksInv
  <2>3. target[t] # NoIssue => \A u \in Tx \ {t} : lock[u][target[t]] # ForUpdate
    BY <2>2, Z3 DEF BaseInv, LocksInv, ForUpdate
  <2>4. \A i \in Issue : i # next => private'[i] = private[i] /\ parent'[i] = parent[i]
    BY <1>7 DEF CommitCreate, Insert, BaseInv, TypeOK, RowTypes
  <2>5. parent'[next] = target[t]
    BY <1>7, <2>1 DEF CommitCreate, Insert, BaseInv, TypeOK, RowTypes
  <2> QED BY <2>1, <2>3, <2>4, <2>5 DEF BaseInv, TreeInv, IsSub, PrivacyEffect
<1>8. CASE CommitUpdate(t)
  <2>1. target[t] \in Issue /\ op[t].kind # "create" /\ lock[t][target[t]] = ForUpdate /\ Exists(target[t])
    BY <1>8 DEF CommitUpdate, BaseInv, TypeOK, TxTypes, LocksInv, TreeInv, Updating
  <2>2. \A i \in Issue : Exists(i) => private'[i] = IF i = target[t] THEN NewPrivate(t)
                          ELSE (MakesPrivate(t) /\ lock[t][i] = NoKeyUpdate) \/ private[i]
    BY <1>8 DEF CommitUpdate, BaseInv, TreeInv
  <2>3. \A i \in Issue : Exists(i) /\ private'[i] # private[i] => lock[t][i] \in {NoKeyUpdate, ForUpdate}
    BY <2>1, <2>2 DEF BaseInv, TypeOK, RowTypes
  <2>4. ASSUME NEW i \in Issue, Exists(i), private[i], ~private'[i], IsSub(i)
        PROVE  lock[t][parent[i]] = Share
    <3>1. i = target[t] /\ ~NewPrivate(t)
      BY <2>2, <2>4
    <3>2. op[t].private = "no"
      BY <2>4, <3>1, OperationFacts DEF NewPrivate, BaseInv, TypeOK, TxTypes
    <3> QED BY <1>8, <2>4, <3>1, <3>2 DEF CommitUpdate, PrivacyInv, ParentHeld
  <2>5. parent' = parent
    BY <1>8 DEF CommitUpdate
  <2> QED BY <2>3, <2>4, <2>5 DEF BaseInv, TreeInv, IsSub, PrivacyEffect
<1>9. CASE CommitNext(t)
  <2>1. target[t] \in Issue /\ op[t].kind # "create" /\ lock[t][target[t]] = ForUpdate /\ Exists(target[t])
    BY <1>9 DEF CommitNext, BaseInv, TypeOK, TxTypes, LocksInv, TreeInv, Updating
  <2>2. \A i \in Issue : Exists(i) => private'[i] = IF i = target[t] THEN NewPrivate(t)
                          ELSE (MakesPrivate(t) /\ lock[t][i] = NoKeyUpdate) \/ private[i]
    BY <1>9 DEF CommitNext, BaseInv, TreeInv, Insert, TypeOK, RowTypes, Issue
  <2>3. \A i \in Issue : Exists(i) /\ private'[i] # private[i] => lock[t][i] \in {NoKeyUpdate, ForUpdate}
    BY <2>1, <2>2 DEF BaseInv, TypeOK, RowTypes
  <2>4. ASSUME NEW i \in Issue, Exists(i), private[i], ~private'[i], IsSub(i)
        PROVE  lock[t][parent[i]] = Share
    <3>1. i = target[t] /\ ~NewPrivate(t)
      BY <2>2, <2>4
    <3>2. op[t].private = "no"
      BY <2>4, <3>1, OperationFacts DEF NewPrivate, BaseInv, TypeOK, TxTypes
    <3> QED BY <1>9, <2>4, <3>1, <3>2 DEF CommitNext, PrivacyInv, ParentHeld
  <2>5. next \in Issue /\ parent[target[t]] \in Issue \cup {NoIssue}
    BY <1>9, <2>1 DEF CommitNext, BaseInv, TypeOK, RowTypes, Insert, Issue
  <2>6. \A i \in Issue : parent'[i] = IF i = next THEN parent[target[t]] ELSE parent[i]
    BY <1>9 DEF CommitNext, Insert, BaseInv, TypeOK, RowTypes
  <2>7. parent[target[t]] # NoIssue => \A u \in Tx \ {t} : lock[u][parent[target[t]]] # ForUpdate
    BY <1>9 DEF CommitNext, IsSub, Free, KeyShare, ForUpdate
  <2> QED BY <2>3, <2>4, <2>5, <2>6, <2>7 DEF BaseInv, TreeInv, IsSub, PrivacyEffect
<1>10. CASE CommitState(t)
  BY <1>10 DEF CommitState, rows, BaseInv, TreeInv, IsSub, PrivacyEffect
<1>11. CASE Rollback(t)
  BY <1>11 DEF Rollback, rows, BaseInv, TreeInv, IsSub, PrivacyEffect
<1> QED BY <1>1, <1>2, <1>3, <1>4, <1>5, <1>6, <1>7, <1>8, <1>9, <1>10, <1>11 DEF Step

LEMMA HiddenStep ==
    ASSUME BaseInv, BaseInv', PrivacyInv, NEW t \in Tx, Step(t)
    PROVE  SubIssuesHidden'
<1>1. ASSUME NEW o \in Operations, NEW x \in Issue, LockIssue(t, o, x) PROVE SubIssuesHidden'
  BY <1>1 DEF LockIssue, rows, PrivacyInv, SubIssuesHidden, Exists, IsSub
<1>2. ASSUME NEW y \in Issue, LockOther(t, y) PROVE SubIssuesHidden'
  BY <1>2 DEF LockOther, rows, PrivacyInv, SubIssuesHidden, Exists, IsSub
<1>3. CASE CheckParent(t)
  BY <1>3 DEF CheckParent, rows, PrivacyInv, SubIssuesHidden, Exists, IsSub
<1>4. ASSUME NEW s \in Series \cup {NoSeries}, Write(t, s) PROVE SubIssuesHidden'
  BY <1>4 DEF Write, rows, PrivacyInv, SubIssuesHidden, Exists, IsSub
<1>5. ASSUME NEW c \in todo[t], LockRow(t, c) PROVE SubIssuesHidden'
  BY <1>5 DEF LockRow, rows, PrivacyInv, SubIssuesHidden, Exists, IsSub
<1>6. ASSUME NEW o \in Operations, LockProject(t, o) PROVE SubIssuesHidden'
  BY <1>6 DEF LockProject, rows, PrivacyInv, SubIssuesHidden, Exists, IsSub
<1>7. ASSUME NEW s \in Series \cup {NoSeries}, CommitCreate(t, s) PROVE SubIssuesHidden'
  <2> SUFFICES ASSUME NEW i \in Issue, parent'[i] # NoIssue, private'[parent'[i]] PROVE private'[i]
    BY DEF SubIssuesHidden, IsSub
  <2>0. \A j \in Issue : Exists(j) <=> j < next
    BY DEF BaseInv, TreeInv
  <2>1. next \in Issue /\ ~Exists(next) /\ target[t] \in Issue \cup {NoIssue}
    BY <1>7 DEF CommitCreate, BaseInv, TypeOK, RowTypes, TxTypes, TreeInv, Insert, Issue
  <2>2. target[t] # NoIssue => op[t].kind = "sub" /\ Exists(target[t])
    BY <1>7, <2>1 DEF CommitCreate, BaseInv, TypeOK, TxTypes, TreeInv
  <2>3. \A j \in Issue : j # next => private'[j] = private[j] /\ parent'[j] = parent[j]
    BY <1>7 DEF CommitCreate, Insert, BaseInv, TypeOK, RowTypes
  <2>4. CASE i = next
    <3>1. parent'[i] = target[t] /\ private'[i] = (op[t].private = "yes" \/ (op[t].kind = "sub" /\ private[target[t]]))
      BY <1>7, <2>1, <2>4 DEF CommitCreate, Insert, BaseInv, TypeOK, RowTypes
    <3>2. private'[target[t]] = private[target[t]]
      BY <2>1, <2>2, <2>3, <3>1
    <3> QED BY <2>2, <3>1, <3>2
  <2>5. CASE i # next
    <3>1. parent[i] \in Issue /\ Exists(parent[i]) /\ Exists(i) /\ parent[i] # next
      BY <2>1, <2>3, <2>5 DEF BaseInv, TypeOK, RowTypes, TreeInv, IsSub
    <3> QED BY <2>3, <2>5, <3>1 DEF PrivacyInv, SubIssuesHidden, IsSub
  <2> QED BY <2>4, <2>5
<1>8. CASE CommitUpdate(t)
  <2> SUFFICES ASSUME NEW i \in Issue, parent'[i] # NoIssue, private'[parent'[i]] PROVE private'[i]
    BY DEF SubIssuesHidden, IsSub
  <2>0. \A j \in Issue : Exists(j) <=> j < next
    BY DEF BaseInv, TreeInv
  <2>1. target[t] \in Issue /\ op[t].kind # "create" /\ Exists(target[t]) /\ Updating(t) /\ todo[t] = {}
    BY <1>8 DEF CommitUpdate, BaseInv, TypeOK, TxTypes, TreeInv, Updating, PrivacyInv, SubIssuesHeld
  <2>2. \A j \in Issue : Exists(j) => /\ parent'[j] = parent[j]
                          /\ private'[j] = IF j = target[t] THEN NewPrivate(t)
                              ELSE (MakesPrivate(t) /\ lock[t][j] = NoKeyUpdate) \/ private[j]
    BY <1>8, RowsStay DEF CommitUpdate, BaseInv, TreeInv
  <2>3. \A j \in Issue : IsSub(j) => Exists(j) /\ parent[j] \in Issue /\ Exists(parent[j]) /\ ~IsSub(parent[j])
    BY DEF BaseInv, TypeOK, RowTypes, TreeInv, IsSub
  <2>4. \A j \in Issue : Exists(j) /\ IsSub(j) /\ private[parent[j]] => private[j]
    BY DEF PrivacyInv, SubIssuesHidden
  <2>5. op[t].private \in {"keep", "yes", "no"}
    BY OperationFacts DEF BaseInv, TypeOK, TxTypes
  <2>6. op[t].private = "no" /\ IsSub(target[t]) => ~private[parent[target[t]]]
    BY <1>8 DEF CommitUpdate, PrivacyInv, ParentHeld
  <2>7. MakesPrivate(t) => op[t].private = "yes" /\ \A c \in Issue :
            /\ parent[c] = target[t] /\ ~private[c] => lock[t][c] = NoKeyUpdate
            /\ lock[t][c] = NoKeyUpdate => parent[c] = target[t]
    BY <1>8, <2>1 DEF CommitUpdate, PrivacyInv, SubIssuesHeld, MakesPrivate
  \* its own parent is not made private along with it
  <2>8. IsSub(target[t]) => (private'[parent[target[t]]] => NewPrivate(t))
    <3> SUFFICES ASSUME IsSub(target[t]), private'[parent[target[t]]] PROVE NewPrivate(t)
      OBVIOUS
    <3> DEFINE p == parent[target[t]]
    <3>1. p \in Issue /\ Exists(p) /\ ~IsSub(p) /\ p # target[t]
      BY <2>1, <2>3
    <3>2. ~(MakesPrivate(t) /\ lock[t][p] = NoKeyUpdate)
      BY <2>1, <2>7, <3>1 DEF IsSub, NoIssue, Issue
    <3>3. private[p]
      BY <2>2, <3>1, <3>2
    <3>4. private[target[t]]
      BY <2>1, <2>4, <3>3
    <3> QED BY <2>5, <2>6, <3>3, <3>4 DEF NewPrivate
  <2>9. CASE Exists(i)
    <3>1. IsSub(i) /\ parent'[i] = parent[i]
      BY <2>2, <2>9 DEF IsSub
    <3>2. CASE i = target[t]
      BY <2>2, <2>8, <2>9, <3>1, <3>2
    <3>3. CASE i # target[t] /\ parent[i] = target[t]
      <4>1. NewPrivate(t)
        BY <2>1, <2>2, <3>1, <3>3
      <4>2. CASE private[target[t]]
        BY <2>2, <2>4, <2>9, <3>1, <3>3, <4>2
      <4>3. CASE ~private[target[t]]
        <5>1. MakesPrivate(t)
          BY <2>1, <4>1, <4>3 DEF NewPrivate, MakesPrivate
        <5> QED BY <2>2, <2>7, <2>9, <3>3, <5>1
      <4> QED BY <4>2, <4>3
    <3>4. CASE i # target[t] /\ parent[i] # target[t]
      <4>1. parent[i] \in Issue /\ Exists(parent[i]) /\ ~IsSub(parent[i])
        BY <2>3, <3>1
      <4>2. ~(MakesPrivate(t) /\ lock[t][parent[i]] = NoKeyUpdate)
        BY <2>1, <2>7, <4>1 DEF IsSub, NoIssue, Issue
      <4> QED BY <2>2, <2>4, <2>9, <3>1, <3>4, <4>1, <4>2
    <3> QED BY <3>2, <3>3, <3>4
  <2>10. CASE ~Exists(i)
    BY <1>8, <2>3, <2>10 DEF CommitUpdate, IsSub
  <2> QED BY <2>9, <2>10
<1>9. CASE CommitNext(t)
  <2> SUFFICES ASSUME NEW i \in Issue, parent'[i] # NoIssue, private'[parent'[i]] PROVE private'[i]
    BY DEF SubIssuesHidden, IsSub
  <2>0. \A j \in Issue : Exists(j) <=> j < next
    BY DEF BaseInv, TreeInv
  <2>1. target[t] \in Issue /\ op[t].kind # "create" /\ Exists(target[t]) /\ Updating(t) /\ todo[t] = {}
    BY <1>9 DEF CommitNext, BaseInv, TypeOK, TxTypes, TreeInv, Updating, PrivacyInv, SubIssuesHeld
  <2>2. \A j \in Issue : Exists(j) => /\ parent'[j] = parent[j]
                          /\ private'[j] = IF j = target[t] THEN NewPrivate(t)
                              ELSE (MakesPrivate(t) /\ lock[t][j] = NoKeyUpdate) \/ private[j]
    BY <1>9, RowsStay DEF CommitNext, BaseInv, TreeInv, Insert, TypeOK, RowTypes, Issue
  <2>3. \A j \in Issue : IsSub(j) => Exists(j) /\ parent[j] \in Issue /\ Exists(parent[j]) /\ ~IsSub(parent[j])
    BY DEF BaseInv, TypeOK, RowTypes, TreeInv, IsSub
  <2>4. \A j \in Issue : Exists(j) /\ IsSub(j) /\ private[parent[j]] => private[j]
    BY DEF PrivacyInv, SubIssuesHidden
  <2>5. op[t].private \in {"keep", "yes", "no"}
    BY OperationFacts DEF BaseInv, TypeOK, TxTypes
  <2>6. op[t].private = "no" /\ IsSub(target[t]) => ~private[parent[target[t]]]
    BY <1>9 DEF CommitNext, PrivacyInv, ParentHeld
  <2>7. MakesPrivate(t) => op[t].private = "yes" /\ \A c \in Issue :
            /\ parent[c] = target[t] /\ ~private[c] => lock[t][c] = NoKeyUpdate
            /\ lock[t][c] = NoKeyUpdate => parent[c] = target[t]
    BY <1>9, <2>1 DEF CommitNext, PrivacyInv, SubIssuesHeld, MakesPrivate
  \* its own parent is not made private along with it
  <2>8. IsSub(target[t]) => (private'[parent[target[t]]] => NewPrivate(t))
    <3> SUFFICES ASSUME IsSub(target[t]), private'[parent[target[t]]] PROVE NewPrivate(t)
      OBVIOUS
    <3> DEFINE p == parent[target[t]]
    <3>1. p \in Issue /\ Exists(p) /\ ~IsSub(p) /\ p # target[t]
      BY <2>1, <2>3
    <3>2. ~(MakesPrivate(t) /\ lock[t][p] = NoKeyUpdate)
      BY <2>1, <2>7, <3>1 DEF IsSub, NoIssue, Issue
    <3>3. private[p]
      BY <2>2, <3>1, <3>2
    <3>4. private[target[t]]
      BY <2>1, <2>4, <3>3
    <3> QED BY <2>5, <2>6, <3>3, <3>4 DEF NewPrivate
  <2>9. CASE Exists(i)
    <3>1. IsSub(i) /\ parent'[i] = parent[i]
      BY <2>2, <2>9 DEF IsSub
    <3>2. CASE i = target[t]
      BY <2>2, <2>8, <2>9, <3>1, <3>2
    <3>3. CASE i # target[t] /\ parent[i] = target[t]
      <4>1. NewPrivate(t)
        BY <2>1, <2>2, <3>1, <3>3
      <4>2. CASE private[target[t]]
        BY <2>2, <2>4, <2>9, <3>1, <3>3, <4>2
      <4>3. CASE ~private[target[t]]
        <5>1. MakesPrivate(t)
          BY <2>1, <4>1, <4>3 DEF NewPrivate, MakesPrivate
        <5> QED BY <2>2, <2>7, <2>9, <3>3, <5>1
      <4> QED BY <4>2, <4>3
    <3>4. CASE i # target[t] /\ parent[i] # target[t]
      <4>1. parent[i] \in Issue /\ Exists(parent[i]) /\ ~IsSub(parent[i])
        BY <2>3, <3>1
      <4>2. ~(MakesPrivate(t) /\ lock[t][parent[i]] = NoKeyUpdate)
        BY <2>1, <2>7, <4>1 DEF IsSub, NoIssue, Issue
      <4> QED BY <2>2, <2>4, <2>9, <3>1, <3>4, <4>1, <4>2
    <3> QED BY <3>2, <3>3, <3>4
  <2>10. CASE ~Exists(i)
    <3>1. i = next /\ parent'[i] = parent[target[t]] /\ private'[i] = NewPrivate(t)
      <4>1. i = next
        BY <1>9, <2>3, <2>10 DEF CommitNext, Insert, IsSub, BaseInv, TypeOK, RowTypes
      <4> QED BY <1>9, <4>1 DEF CommitNext, Insert, BaseInv, TypeOK, RowTypes
    <3> QED BY <2>8, <3>1 DEF IsSub
  <2> QED BY <2>9, <2>10
<1>10. CASE CommitState(t)
  <2>1. \A i \in Issue : parent[i] # NoIssue => state[i] # "none"
    BY DEF BaseInv, TreeInv, Exists, IsSub
  <2> QED BY <1>10, <2>1 DEF CommitState, PrivacyInv, SubIssuesHidden, Exists, IsSub
<1>11. CASE Rollback(t)
  BY <1>11 DEF Rollback, rows, PrivacyInv, SubIssuesHidden, Exists, IsSub
<1> QED BY <1>1, <1>2, <1>3, <1>4, <1>5, <1>6, <1>7, <1>8, <1>9, <1>10, <1>11 DEF Step

LEMMA OwnPrivacyStep ==
    ASSUME BaseInv, BaseInv', PrivacyInv, NEW t \in Tx, Step(t)
    PROVE  ParentHeld(t)' /\ SubIssuesHeld(t)'
<1>1. ASSUME NEW o \in Operations, NEW x \in Issue, LockIssue(t, o, x) PROVE ParentHeld(t)' /\ SubIssuesHeld(t)'
  <2>1. o \in Operation /\ op'[t] = o /\ target'[t] = x /\ parent' = parent
    BY <1>1, IssueAssumption DEF LockIssue, rows, BaseInv, TypeOK, TxTypes
  <2>2. pc'[t] = IF o.kind = "sub" THEN "rows" ELSE IF o.kind = "duplicate" THEN "other"
                 ELSE IF o.private = "no" /\ IsSub(x) THEN "parent" ELSE "write"
    BY <1>1 DEF LockIssue, Goto, BaseInv, TypeOK, TxTypes
  <2>3. ~(o.kind = "sub" /\ o.private = "no") /\ (o.kind = "duplicate" => o.private = "keep")
    BY <2>1, OperationFacts
  <2>4. ParentHeld(t)'
    BY <2>1, <2>2, <2>3 DEF ParentHeld, IsSub
  <2>5. SubIssuesHeld(t)'
    BY <2>1, <2>2 DEF SubIssuesHeld, MakesPrivate, Updating
  <2> QED BY <2>4, <2>5
<1>2. ASSUME NEW y \in Issue, LockOther(t, y) PROVE ParentHeld(t)' /\ SubIssuesHeld(t)'
  <2>1. pc'[t] = "write" /\ op'[t].private = "keep"
    BY <1>2 DEF LockOther, Goto, BaseInv, TypeOK, TxTypes, PrivacyInv, ParentHeld
  <2> QED BY <2>1 DEF ParentHeld, SubIssuesHeld
<1>3. CASE CheckParent(t)
  <2>1. pc'[t] = "write" /\ parent[target[t]] \in Issue /\ target'[t] = target[t] /\ parent' = parent /\ private' = private
    BY <1>3 DEF CheckParent, Goto, rows, BaseInv, TypeOK, RowTypes, TxTypes, IsSub
  <2>2. lock'[t][parent[target[t]]] = Share /\ ~private[parent[target[t]]]
    BY <1>3, <2>1 DEF CheckParent, Take, BaseInv, TypeOK, TxTypes
  <2> QED BY <2>1, <2>2 DEF ParentHeld, SubIssuesHeld
<1>4. ASSUME NEW s \in Series \cup {NoSeries}, Write(t, s) PROVE ParentHeld(t)' /\ SubIssuesHeld(t)'
  <2>1. pc[t] = "write" /\ pc'[t] = "rows" /\ UNCHANGED <<rows, op, target, lock>>
    BY <1>4 DEF Write, Goto, BaseInv, TypeOK, TxTypes
  <2>2. todo'[t] = {c \in Issue : Matches(t, c)}
    BY <1>4 DEF Write, BaseInv, TypeOK, TxTypes
  <2>3. ParentHeld(t)'
    BY <2>1 DEF rows, PrivacyInv, ParentHeld, IsSub
  <2>4. \A c \in Issue : lock[t][c] # NoKeyUpdate
    BY <2>1 DEF BaseInv, LocksInv
  <2>5. ASSUME MakesPrivate(t), NEW c \in Issue, parent[c] = target[t], ~private[c]
        PROVE  c \in todo'[t]
    <3>1. target[t] \in Issue
      BY <2>5, <2>1 DEF BaseInv, TypeOK, TxTypes, MakesPrivate, Updating
    <3>2. Exists(c)
      BY <2>5, <3>1 DEF BaseInv, TreeInv, IsSub, Issue, NoIssue
    <3> QED BY <2>2, <2>5, <3>2 DEF Matches
  <2>6. SubIssuesHeld(t)'
    BY <2>1, <2>4, <2>5 DEF rows, SubIssuesHeld, MakesPrivate, Updating
  <2> QED BY <2>3, <2>6
<1>5. ASSUME NEW c \in todo[t], LockRow(t, c) PROVE ParentHeld(t)' /\ SubIssuesHeld(t)'
  <2>1. pc[t] = "rows" /\ c \in Issue /\ UNCHANGED <<rows, pc, op, target>> /\ todo'[t] = todo[t] \ {c}
    BY <1>5 DEF LockRow, BaseInv, TypeOK, TxTypes
  <2>2. \A i \in Issue : lock'[t][i] = IF i = c /\ Matches(t, c) THEN NoKeyUpdate ELSE lock[t][i]
    BY <1>5, <2>1, TakeSets DEF LockRow, BaseInv, NoKeyUpdate
  <2>3. op[t].private = "no" => ~Matches(t, c)
    BY OperationFacts DEF Matches, MakesPrivate, Updating, BaseInv, TypeOK, TxTypes
  <2>4. ParentHeld(t)'
    <3> SUFFICES ASSUME op[t].private = "no", IsSub(target[t])
                 PROVE  lock'[t][parent[target[t]]] = Share /\ ~private[parent[target[t]]]
      BY <2>1 DEF rows, ParentHeld, IsSub
    <3>1. target[t] \in Issue /\ parent[target[t]] \in Issue
      BY <2>1, OperationFacts DEF BaseInv, TypeOK, RowTypes, TxTypes, IsSub
    <3>2. lock[t][parent[target[t]]] = Share /\ ~private[parent[target[t]]]
      BY <2>1 DEF PrivacyInv, ParentHeld
    <3> QED BY <2>2, <2>3, <3>1, <3>2
  <2>5. MakesPrivate(t) => /\ Matches(t, c) => parent[c] = target[t]
                           /\ parent[c] = target[t] /\ ~private[c] => Matches(t, c)
    <3> SUFFICES ASSUME MakesPrivate(t)
                 PROVE  /\ Matches(t, c) => parent[c] = target[t]
                        /\ parent[c] = target[t] /\ ~private[c] => Matches(t, c)
      OBVIOUS
    <3>1. target[t] \in Issue /\ op[t].kind \in {"update", "duplicate"}
      BY <2>1 DEF BaseInv, TypeOK, TxTypes, MakesPrivate, Updating
    <3>2. parent[c] = target[t] => Exists(c)
      BY <2>1, <3>1 DEF BaseInv, TreeInv, IsSub, Issue, NoIssue
    <3> QED BY <3>1, <3>2 DEF Matches
  <2>6. SubIssuesHeld(t)'
    <3> SUFFICES ASSUME MakesPrivate(t), NEW i \in Issue
                 PROVE  /\ parent[i] = target[t] /\ ~private[i] => i \in todo'[t] \/ lock'[t][i] = NoKeyUpdate
                        /\ lock'[t][i] = NoKeyUpdate => parent[i] = target[t]
      BY <2>1 DEF rows, SubIssuesHeld, MakesPrivate, Updating
    <3>1. /\ parent[i] = target[t] /\ ~private[i] => i \in todo[t] \/ lock[t][i] = NoKeyUpdate
          /\ lock[t][i] = NoKeyUpdate => parent[i] = target[t]
      BY <2>1 DEF PrivacyInv, SubIssuesHeld
    <3> QED BY <2>1, <2>2, <2>5, <3>1
  <2> QED BY <2>4, <2>6
<1>6. ASSUME NEW o \in Operations, LockProject(t, o) PROVE ParentHeld(t)' /\ SubIssuesHeld(t)'
  <2>1. pc'[t] = "insert" /\ UNCHANGED <<rows, target, lock, todo>>
    BY <1>6 DEF LockProject, Goto, BaseInv, TypeOK, TxTypes
  <2>2. CASE pc[t] = "idle" /\ o.kind = "create" /\ op' = [op EXCEPT ![t] = o]
    <3>1. op'[t].kind = "create" /\ op'[t].private # "no"
      BY <2>2, IssueAssumption, OperationFacts DEF BaseInv, TypeOK, TxTypes
    <3> QED BY <2>1, <3>1 DEF ParentHeld, SubIssuesHeld, MakesPrivate, Updating
  <2>3. CASE pc[t] = "rows" /\ todo[t] = {} /\ UNCHANGED op
    <3>1. ParentHeld(t)'
      BY <2>1, <2>3 DEF rows, PrivacyInv, ParentHeld, IsSub
    <3>2. SubIssuesHeld(t)'
      BY <2>1, <2>3 DEF rows, PrivacyInv, SubIssuesHeld, MakesPrivate, Updating
    <3> QED BY <3>1, <3>2
  <2> QED BY <1>6, <2>2, <2>3 DEF LockProject
<1>7. ASSUME NEW s \in Series \cup {NoSeries}, CommitCreate(t, s) PROVE ParentHeld(t)' /\ SubIssuesHeld(t)'
  <2>1. pc'[t] = "idle"
    BY <1>7 DEF CommitCreate, Finish, Goto, BaseInv, TypeOK, TxTypes
  <2> QED BY <2>1 DEF ParentHeld, SubIssuesHeld
<1>8. CASE CommitUpdate(t)
  <2>1. pc'[t] = "idle"
    BY <1>8 DEF CommitUpdate, Finish, Goto, BaseInv, TypeOK, TxTypes
  <2> QED BY <2>1 DEF ParentHeld, SubIssuesHeld
<1>9. CASE CommitNext(t)
  <2>1. pc'[t] = "idle"
    BY <1>9 DEF CommitNext, Finish, Goto, BaseInv, TypeOK, TxTypes
  <2> QED BY <2>1 DEF ParentHeld, SubIssuesHeld
<1>10. CASE CommitState(t)
  <2>1. pc'[t] = "idle"
    BY <1>10 DEF CommitState, Finish, Goto, BaseInv, TypeOK, TxTypes
  <2> QED BY <2>1 DEF ParentHeld, SubIssuesHeld
<1>11. CASE Rollback(t)
  <2>1. pc'[t] = "idle"
    BY <1>11 DEF Rollback, Finish, Goto, BaseInv, TypeOK, TxTypes
  <2> QED BY <2>1 DEF ParentHeld, SubIssuesHeld
<1> QED BY <1>1, <1>2, <1>3, <1>4, <1>5, <1>6, <1>7, <1>8, <1>9, <1>10, <1>11 DEF Step

LEMMA PrivacyStep ==
    ASSUME BaseInv, BaseInv', PrivacyInv, NEW t \in Tx, Step(t)
    PROVE  PrivacyInv'
<1>1. SubIssuesHidden' /\ ParentHeld(t)' /\ SubIssuesHeld(t)'
  BY HiddenStep, OwnPrivacyStep
<1>2. PrivacyEffect(t) /\ OthersKept(t)
  BY PrivacyEffects, Locking DEF BaseInv
<1>3. \A i \in Issue : Exists(i) => parent'[i] = parent[i]
  BY RowsStay DEF BaseInv
<1>4. ASSUME NEW u \in Tx \ {t} PROVE ParentHeld(u)' /\ SubIssuesHeld(u)'
  <2>1. pc'[u] = pc[u] /\ op'[u] = op[u] /\ target'[u] = target[u] /\ lock'[u] = lock[u] /\ todo'[u] = todo[u]
    BY <1>2 DEF OthersKept
  <2>2. \A i \in Issue : lock[t][i] \in 0..4 /\ lock[u][i] \in 0..4 /\ lock[t][i] + lock[u][i] <= 4
    BY DEF BaseInv, TypeOK, TxTypes, LocksInv
  <2>3. op[u].private = "no" => op[u].kind = "update"
    BY OperationFacts DEF BaseInv, TypeOK, TxTypes
  <2>4. pc[u] # "idle" /\ op[u].kind # "create" =>
            target[u] \in Issue /\ Exists(target[u]) /\ lock[u][target[u]] = ForUpdate
    BY DEF BaseInv, TypeOK, TxTypes, TreeInv, LocksInv
  <2>5. ParentHeld(u)'
    <3> SUFFICES ASSUME pc[u] \in {"write", "rows", "insert"}, op[u].private = "no", parent'[target[u]] # NoIssue
                 PROVE  lock[u][parent'[target[u]]] = Share /\ ~private'[parent'[target[u]]]
      BY <2>1 DEF PrivacyInv, ParentHeld, IsSub
    <3> DEFINE p == parent[target[u]]
    <3>1. parent'[target[u]] = p
      BY <1>3, <2>3, <2>4
    <3>2. p \in Issue /\ Exists(p)
      BY <2>3, <2>4, <3>1 DEF BaseInv, TypeOK, RowTypes, TreeInv, IsSub
    <3>3. lock[u][p] = Share /\ ~private[p]
      BY <3>1 DEF PrivacyInv, ParentHeld, IsSub
    <3>4. lock[t][p] \notin {NoKeyUpdate, ForUpdate}
      BY <2>2, <3>2, <3>3 DEF Share, NoKeyUpdate, ForUpdate
    <3> QED BY <1>2, <3>1, <3>2, <3>3, <3>4 DEF PrivacyEffect
  <2>6. SubIssuesHeld(u)'
    <3>1. pc[u] = "insert" /\ Updating(u) => todo[u] = {}
      BY DEF PrivacyInv, SubIssuesHeld
    <3> SUFFICES ASSUME pc[u] \in {"rows", "insert"}, Updating(u), op[u].private = "yes", ~private'[target[u]],
                        NEW c \in Issue
                 PROVE  /\ parent'[c] = target[u] /\ ~private'[c] => c \in todo[u] \/ lock[u][c] = NoKeyUpdate
                        /\ lock[u][c] = NoKeyUpdate => parent'[c] = target[u]
      BY <2>1, <3>1 DEF SubIssuesHeld, MakesPrivate, Updating
    <3>2. target[u] \in Issue /\ Exists(target[u]) /\ lock[u][target[u]] = ForUpdate
      BY <2>4 DEF Updating
    <3>3. lock[t][target[u]] \notin {Share, NoKeyUpdate, ForUpdate}
      BY <2>2, <3>2 DEF Share, NoKeyUpdate, ForUpdate
    <3>4. MakesPrivate(u)
      BY <1>2, <3>2, <3>3 DEF PrivacyEffect, MakesPrivate
    <3>5. /\ parent[c] = target[u] /\ ~private[c] => c \in todo[u] \/ lock[u][c] = NoKeyUpdate
          /\ lock[u][c] = NoKeyUpdate => parent[c] = target[u]
      BY <3>4 DEF PrivacyInv, SubIssuesHeld
    <3>6. CASE Exists(c)
      <4>1. parent'[c] = parent[c]
        BY <1>3, <3>6
      <4>2. parent[c] = target[u] /\ ~private'[c] => ~private[c]
        BY <1>2, <3>2, <3>3, <3>6 DEF PrivacyEffect, IsSub, NoIssue, Issue
      <4> QED BY <3>5, <4>1, <4>2
    <3>7. CASE ~Exists(c)
      <4>1. lock[u][c] # NoKeyUpdate
        BY <3>7 DEF BaseInv, LocksInv, Unlocked, NoKeyUpdate
      <4>2. parent'[c] # target[u]
        BY <1>2, <3>2, <3>7 DEF PrivacyEffect, NoIssue, Issue
      <4> QED BY <4>1, <4>2
    <3> QED BY <3>6, <3>7
  <2> QED BY <2>5, <2>6
<1> QED BY <1>1, <1>4 DEF PrivacyInv

LEMMA PrivacyInit == Init => PrivacyInv
BY DEF Init, PrivacyInv, SubIssuesHidden, ParentHeld, SubIssuesHeld, Exists, IsSub

\* No interleaving of requests leaves a sub-issue public under a private parent:
\* an issue going private takes its sub-issues along, whoever creates, restores,
\* publishes or repeats one meanwhile.
THEOREM SubIssuesAreHidden == Spec => []SubIssuesHidden
<1>1. Init => BaseInv /\ PrivacyInv
  BY BaseInit, PrivacyInit
<1>2. BaseInv /\ PrivacyInv /\ [Next]_vars => (BaseInv /\ PrivacyInv)'
  <2> SUFFICES ASSUME BaseInv, PrivacyInv, [Next]_vars PROVE BaseInv' /\ PrivacyInv'
    OBVIOUS
  <2>1. BaseInv'
    BY BaseStep
  <2>2. CASE UNCHANGED vars
    BY <2>1, <2>2 DEF vars, rows, tx, PrivacyInv, SubIssuesHidden, ParentHeld, SubIssuesHeld, MakesPrivate,
        Updating, Exists, IsSub
  <2>3. ASSUME NEW t \in Tx, Step(t) PROVE PrivacyInv'
    BY <2>1, <2>3, PrivacyStep
  <2> QED BY <2>1, <2>2, <2>3, NextIsAStep
<1>3. PrivacyInv => SubIssuesHidden
  BY DEF PrivacyInv
<1> QED BY <1>1, <1>2, <1>3, PTL DEF Spec

-------------------------------------------------------------------------------
(* Repeats *)

\* What a step does to the series: other issues keep what they have, and a series
\* is joined only by its newest issue's successor, unless it is fresh.
RepeatEffect(t) ==
    /\ \A j \in Issue : Exists(j) /\ j # target[t] =>
            series'[j] = series[j] /\ done'[j] = done[j] /\ current'[j] = current[j]
    /\ \A j \in Issue : series'[j] # series[j] =>
        \/ series'[j] = NoSeries
        \/ /\ \A i \in Issue : series[i] # series'[j]
           /\ \A u \in Tx \ {t} : chosen[u] # series'[j]
        \/ target[t] \in Issue /\ series'[j] = series[target[t]] /\ Newest(target[t])
    /\ \/ chosen'[t] \in {chosen[t], NoSeries}
       \/ \E i \in Issue : series[i] = chosen'[t]
       \/ \A u \in Tx : chosen[u] # chosen'[t]

\* A transaction about to create a repetition has the newest one, or a fresh series.
LEMMA AdvancesNewest ==
    ASSUME BaseInv, RepeatInv, NEW t \in Tx, pc[t] \in {"rows", "insert"}, Advances(t)
    PROVE  /\ target[t] \in Issue /\ Exists(target[t]) /\ chosen[t] # NoSeries /\ ~done[target[t]]
           /\ ChosenIsFree(t)
<1>1. target[t] \in Issue /\ Exists(target[t]) /\ Updating(t)
  BY DEF BaseInv, TypeOK, TxTypes, TreeInv, Advances, Updating
<1>2. CASE op[t].repeat = "set"
  BY <1>1, <1>2 DEF RepeatInv, SeriesChosen, Advances, BecomesDone
<1>3. CASE op[t].repeat # "set"
  <2>1. current[target[t]] /\ chosen[t] = series[target[t]]
    BY <1>1, <1>3 DEF RepeatInv, SeriesChosen, Advances, Repeats
  <2> QED BY <1>1, <2>1 DEF RepeatInv, OneLiveRepetition, ChosenIsFree, Advances, BecomesDone
<1> QED BY <1>2, <1>3

LEMMA RepeatEffects ==
    ASSUME BaseInv, RepeatInv, NEW t \in Tx, Step(t)
    PROVE  RepeatEffect(t)
<1>1. ASSUME NEW o \in Operations, NEW x \in Issue, LockIssue(t, o, x) PROVE RepeatEffect(t)
  BY <1>1 DEF LockIssue, rows, RepeatEffect
<1>2. ASSUME NEW y \in Issue, LockOther(t, y) PROVE RepeatEffect(t)
  BY <1>2 DEF LockOther, rows, RepeatEffect
<1>3. CASE CheckParent(t)
  BY <1>3 DEF CheckParent, rows, RepeatEffect
<1>4. ASSUME NEW s \in Series \cup {NoSeries}, Write(t, s) PROVE RepeatEffect(t)
  <2>1. chosen'[t] = s /\ UNCHANGED rows /\ target[t] \in Issue
    <3>1. op[t].kind # "create"
      BY <1>4 DEF Write, BaseInv, TypeOK, TxTypes
    <3> QED BY <1>4, <3>1 DEF Write, BaseInv, TypeOK, TxTypes
  <2>2. CASE s = series[target[t]]
    BY <2>1, <2>2 DEF rows, RepeatEffect
  <2>3. CASE FreshSeries(s)
    BY <2>1, <2>3 DEF rows, RepeatEffect, FreshSeries
  <2> QED BY <1>4, <2>2, <2>3 DEF Write
<1>5. ASSUME NEW c \in todo[t], LockRow(t, c) PROVE RepeatEffect(t)
  BY <1>5 DEF LockRow, rows, RepeatEffect
<1>6. ASSUME NEW o \in Operations, LockProject(t, o) PROVE RepeatEffect(t)
  BY <1>6 DEF LockProject, rows, RepeatEffect
<1>7. ASSUME NEW s \in Series \cup {NoSeries}, CommitCreate(t, s) PROVE RepeatEffect(t)
  <2>0. chosen'[t] = NoSeries
    BY <1>7 DEF CommitCreate, Finish, BaseInv, TypeOK, TxTypes
  <2>1. next \in Issue /\ ~Exists(next)
    BY <1>7 DEF CommitCreate, BaseInv, TypeOK, RowTypes, TxTypes, TreeInv, Insert, Issue
  <2>2. series' = [series EXCEPT ![next] = s] /\ current' = [current EXCEPT ![next] = op[t].repeat = "set"] /\ done' = done
    BY <1>7 DEF CommitCreate
  <2>3. s = NoSeries \/ FreshSeries(s)
    BY <1>7 DEF CommitCreate
  <2> QED BY <2>0, <2>1, <2>2, <2>3 DEF BaseInv, TypeOK, RowTypes, FreshSeries, RepeatEffect
<1>8. CASE CommitUpdate(t)
  <2>0. chosen'[t] = NoSeries
    BY <1>8 DEF CommitUpdate, Finish, BaseInv, TypeOK, TxTypes
  <2>1. target[t] \in Issue /\ Updating(t) /\ pc[t] = "rows"
    BY <1>8 DEF CommitUpdate, BaseInv, TypeOK, RowTypes, TxTypes, Updating
  <2>2. \A j \in Issue : j # target[t] => series'[j] = series[j] /\ done'[j] = done[j] /\ current'[j] = current[j]
    BY <1>8 DEF CommitUpdate, BaseInv, TypeOK, RowTypes, TxTypes
  <2>3. series'[target[t]] = chosen[t]
    BY <1>8, <2>1 DEF CommitUpdate, BaseInv, TypeOK, RowTypes, TxTypes
  <2>4. chosen[t] # series[target[t]] => /\ \A i \in Issue : series[i] # chosen[t]
                                        /\ \A u \in Tx \ {t} : chosen[u] # chosen[t]
    BY <2>1 DEF RepeatInv, SeriesChosen, ChosenIsFree
  <2> QED BY <2>0, <2>2, <2>3, <2>4 DEF RepeatEffect
<1>9. CASE CommitNext(t)
  <2>0. chosen'[t] = NoSeries
    BY <1>9 DEF CommitNext, Finish, BaseInv, TypeOK, TxTypes
  <2>1. next \in Issue /\ ~Exists(next) /\ pc[t] = "insert" /\ Updating(t)
    BY <1>9 DEF CommitNext, BaseInv, TypeOK, RowTypes, TxTypes, TreeInv, Insert, Issue
  <2>2. target[t] \in Issue /\ Exists(target[t]) /\ ChosenIsFree(t)
    BY <2>1, AdvancesNewest DEF RepeatInv, SeriesChosen
  <2>3. \A j \in Issue : /\ series'[j] = IF j \in {target[t], next} THEN chosen[t] ELSE series[j]
                         /\ j \notin {target[t], next} => done'[j] = done[j] /\ current'[j] = current[j]
    BY <1>9 DEF CommitNext, BaseInv, TypeOK, RowTypes, TxTypes
  <2>4. \A j \in Issue : Exists(j) /\ j # target[t] =>
            series'[j] = series[j] /\ done'[j] = done[j] /\ current'[j] = current[j]
    BY <2>1, <2>3
  <2>5. \/ chosen[t] = series[target[t]] /\ Newest(target[t])
        \/ /\ \A i \in Issue : series[i] # chosen[t]
           /\ \A u \in Tx \ {t} : chosen[u] # chosen[t]
    BY <2>2 DEF ChosenIsFree
  <2> QED BY <2>0, <2>2, <2>3, <2>4, <2>5 DEF RepeatEffect
<1>10. CASE CommitState(t)
  <2>1. chosen'[t] = NoSeries
    BY <1>10 DEF CommitState, Finish, BaseInv, TypeOK, TxTypes
  <2> QED BY <1>10, <2>1 DEF CommitState, RepeatEffect
<1>11. CASE Rollback(t)
  <2>1. chosen'[t] = NoSeries
    BY <1>11 DEF Rollback, Finish, BaseInv, TypeOK, TxTypes
  <2> QED BY <1>11, <2>1 DEF Rollback, rows, RepeatEffect
<1> QED BY <1>1, <1>2, <1>3, <1>4, <1>5, <1>6, <1>7, <1>8, <1>9, <1>10, <1>11 DEF Step

\* The newest issue of a series stays so, unless it is the step's own.
LEMMA NewestKept ==
    ASSUME BaseInv, NEW t \in Tx, RepeatEffect(t), NEW i \in Issue, Exists(i), i # target[t],
           series[i] # NoSeries, Newest(i)
    PROVE  series'[i] = series[i] /\ Newest(i)'
<1>1. series'[i] = series[i]
  BY DEF RepeatEffect
<1>2. ASSUME NEW j \in Issue, series'[j] = series'[i] PROVE j <= i
  <2>1. CASE series'[j] = series[j]
    BY <1>1, <1>2, <2>1 DEF Newest
  <2>2. CASE series'[j] # series[j]
    <3>1. target[t] \in Issue /\ series[i] = series[target[t]] /\ Newest(target[t])
      BY <1>1, <1>2, <2>2 DEF RepeatEffect
    <3> QED BY <3>1 DEF Newest, Issue
  <2> QED BY <2>1, <2>2
<1> QED BY <1>1, <1>2 DEF Newest

LEMMA LiveStep ==
    ASSUME BaseInv, RepeatInv, NEW t \in Tx, Step(t)
    PROVE  \A i \in Issue : current'[i] => series'[i] # NoSeries /\ Newest(i)' /\ ~done'[i]
<1>1. ASSUME NEW o \in Operations, NEW x \in Issue, LockIssue(t, o, x) PROVE \A i \in Issue : current'[i] => series'[i] # NoSeries /\ Newest(i)' /\ ~done'[i]
  BY <1>1 DEF LockIssue, rows, RepeatInv, OneLiveRepetition, Newest
<1>2. ASSUME NEW y \in Issue, LockOther(t, y) PROVE \A i \in Issue : current'[i] => series'[i] # NoSeries /\ Newest(i)' /\ ~done'[i]
  BY <1>2 DEF LockOther, rows, RepeatInv, OneLiveRepetition, Newest
<1>3. CASE CheckParent(t)
  BY <1>3 DEF CheckParent, rows, RepeatInv, OneLiveRepetition, Newest
<1>4. ASSUME NEW s \in Series \cup {NoSeries}, Write(t, s) PROVE \A i \in Issue : current'[i] => series'[i] # NoSeries /\ Newest(i)' /\ ~done'[i]
  BY <1>4 DEF Write, rows, RepeatInv, OneLiveRepetition, Newest
<1>5. ASSUME NEW c \in todo[t], LockRow(t, c) PROVE \A i \in Issue : current'[i] => series'[i] # NoSeries /\ Newest(i)' /\ ~done'[i]
  BY <1>5 DEF LockRow, rows, RepeatInv, OneLiveRepetition, Newest
<1>6. ASSUME NEW o \in Operations, LockProject(t, o) PROVE \A i \in Issue : current'[i] => series'[i] # NoSeries /\ Newest(i)' /\ ~done'[i]
  BY <1>6 DEF LockProject, rows, RepeatInv, OneLiveRepetition, Newest
<1>7. ASSUME NEW s \in Series \cup {NoSeries}, CommitCreate(t, s) PROVE \A i \in Issue : current'[i] => series'[i] # NoSeries /\ Newest(i)' /\ ~done'[i]
  <2> SUFFICES ASSUME NEW i \in Issue, current'[i] PROVE series'[i] # NoSeries /\ Newest(i)' /\ ~done'[i]
    OBVIOUS
  <2>0. \A j \in Issue : current[j] => Exists(j) /\ series[j] # NoSeries /\ Newest(j) /\ ~done[j]
    BY DEF RepeatInv, OneLiveRepetition
  <2>1. next \in Issue /\ ~Exists(next) /\ (target[t] \in Issue => target[t] # next)
    BY <1>7 DEF CommitCreate, BaseInv, TypeOK, RowTypes, TxTypes, TreeInv, Insert, Issue, NoIssue
  <2>2. /\ series' = [series EXCEPT ![next] = s]
        /\ current' = [current EXCEPT ![next] = op[t].repeat = "set"] /\ done' = done
        /\ op[t].repeat = "set" => s # NoSeries /\ FreshSeries(s)
        /\ op[t].repeat # "set" => s = NoSeries
    BY <1>7, IssueAssumption DEF CommitCreate
  <2>3. \A j \in Issue : j # next => series'[j] = series[j] /\ current'[j] = current[j]
    BY <2>2 DEF BaseInv, TypeOK, RowTypes
  <2>4. CASE i = next
    <3>1. op[t].repeat = "set" /\ series'[i] = s
      BY <2>1, <2>2, <2>4 DEF BaseInv, TypeOK, RowTypes
    <3>2. ~done'[i]
      BY <2>1, <2>2, <2>4 DEF RepeatInv
    <3>3. \A j \in Issue : series'[j] = s => j = i
      BY <2>2, <2>3, <2>4, <3>1 DEF FreshSeries
    <3> QED BY <2>2, <3>1, <3>2, <3>3 DEF Newest, Issue
  <2>5. CASE i # next
    <3>1. current[i] /\ Exists(i) /\ series[i] # NoSeries /\ Newest(i) /\ ~done[i] /\ series'[i] = series[i]
      BY <2>0, <2>3, <2>5
    <3>2. \A j \in Issue : series'[j] = series[i] => j <= i
      <4> SUFFICES ASSUME NEW j \in Issue, series'[j] = series[i] PROVE j <= i
        OBVIOUS
      <4>1. CASE j = next
        BY <2>1, <2>2, <3>1, <4>1 DEF FreshSeries, BaseInv, TypeOK, RowTypes
      <4> QED BY <2>3, <3>1, <4>1 DEF Newest
    <3> QED BY <2>2, <3>1, <3>2 DEF Newest
  <2> QED BY <2>4, <2>5
<1>8. CASE CommitUpdate(t)
  <2> SUFFICES ASSUME NEW i \in Issue, current'[i] PROVE series'[i] # NoSeries /\ Newest(i)' /\ ~done'[i]
    OBVIOUS
  <2>0. \A j \in Issue : current[j] => Exists(j) /\ series[j] # NoSeries /\ Newest(j) /\ ~done[j]
    BY DEF RepeatInv, OneLiveRepetition
  <2>1. target[t] \in Issue /\ Updating(t) /\ pc[t] = "rows"
    BY <1>8 DEF CommitUpdate, BaseInv, TypeOK, RowTypes, TxTypes, Updating
  <2>2. \A j \in Issue : j # target[t] => series'[j] = series[j] /\ done'[j] = done[j] /\ current'[j] = current[j]
    BY <1>8 DEF CommitUpdate, BaseInv, TypeOK, RowTypes, TxTypes
  <2>3. /\ series'[target[t]] = chosen[t] /\ done'[target[t]] = NewDone(t)
        /\ current'[target[t]] = (Repeats(t) /\ ~BecomesDone(t))
    BY <1>8, <2>1 DEF CommitUpdate, BaseInv, TypeOK, RowTypes, TxTypes
  <2>4. CASE i = target[t]
    <3>1. Repeats(t) /\ ~BecomesDone(t)
      BY <2>3, <2>4
    <3>2. CASE op[t].repeat = "set"
      <4>1. chosen[t] # NoSeries /\ ~(done[i] /\ NewDone(t)) /\ ChosenIsFree(t)
        BY <2>1, <2>4, <3>2 DEF RepeatInv, SeriesChosen
      <4>2. ~NewDone(t)
        BY <2>4, <3>1, <4>1 DEF BecomesDone
      <4>3. \A j \in Issue : series'[j] = chosen[t] => j <= i
        BY <2>2, <2>4, <4>1 DEF ChosenIsFree, Newest, Issue
      <4> QED BY <2>3, <2>4, <4>1, <4>2, <4>3 DEF Newest
    <3>3. CASE op[t].repeat # "set"
      <4>1. current[i] /\ chosen[t] = series[i]
        BY <2>1, <2>4, <3>1, <3>3 DEF RepeatInv, SeriesChosen, Repeats
      <4>2. series[i] # NoSeries /\ Newest(i) /\ ~done[i]
        BY <2>0, <4>1
      <4>3. ~NewDone(t)
        BY <2>4, <3>1, <4>2 DEF BecomesDone
      <4>4. \A j \in Issue : series'[j] = series[j]
        BY <2>2, <2>3, <2>4, <4>1
      <4> QED BY <2>3, <2>4, <4>2, <4>3, <4>4 DEF Newest
    <3> QED BY <3>2, <3>3
  <2>5. CASE i # target[t]
    <3>1. current[i] /\ Exists(i) /\ series[i] # NoSeries /\ Newest(i) /\ ~done[i]
      BY <2>0, <2>2, <2>5
    <3>2. series'[i] = series[i] /\ Newest(i)'
      BY <3>1, <2>5, NewestKept, RepeatEffects
    <3> QED BY <2>2, <2>5, <3>1, <3>2
  <2> QED BY <2>4, <2>5
<1>9. CASE CommitNext(t)
  <2> SUFFICES ASSUME NEW i \in Issue, current'[i] PROVE series'[i] # NoSeries /\ Newest(i)' /\ ~done'[i]
    OBVIOUS
  <2>0. \A j \in Issue : current[j] => Exists(j) /\ series[j] # NoSeries /\ Newest(j) /\ ~done[j]
    BY DEF RepeatInv, OneLiveRepetition
  <2>1. next \in Issue /\ ~Exists(next) /\ pc[t] = "insert" /\ Updating(t)
    BY <1>9 DEF CommitNext, BaseInv, TypeOK, RowTypes, TxTypes, TreeInv, Insert, Issue
  <2>2. target[t] \in Issue /\ Exists(target[t]) /\ chosen[t] # NoSeries /\ ChosenIsFree(t)
    BY <2>1, AdvancesNewest DEF RepeatInv, SeriesChosen
  <2>3. \A j \in Issue : /\ series'[j] = IF j \in {target[t], next} THEN chosen[t] ELSE series[j]
                         /\ j # target[t] => done'[j] = done[j]
                         /\ current'[j] = (j = next \/ (j # target[t] /\ current[j]))
    BY <1>9 DEF CommitNext, BaseInv, TypeOK, RowTypes, TxTypes
  <2>4. CASE i = next
    <3>1. series'[i] = chosen[t] /\ ~done'[i]
      BY <2>1, <2>2, <2>3, <2>4 DEF RepeatInv
    <3>2. \A j \in Issue : series'[j] = chosen[t] => j <= i
      <4> SUFFICES ASSUME NEW j \in Issue, series'[j] = chosen[t] PROVE j <= i
        OBVIOUS
      <4>1. j = next \/ Exists(j)
        BY <2>2, <2>3 DEF RepeatInv
      <4> QED BY <2>4, <4>1 DEF BaseInv, TypeOK, RowTypes, TxTypes, TreeInv, Issue
    <3> QED BY <2>2, <3>1, <3>2 DEF Newest
  <2>5. CASE i # next
    <3>0. i # target[t]
      BY <2>3, <2>5
    <3>1. current[i] /\ Exists(i) /\ series[i] # NoSeries /\ Newest(i) /\ ~done[i]
      BY <2>0, <2>3, <2>5
    <3>2. series'[i] = series[i] /\ Newest(i)'
      BY <3>0, <3>1, NewestKept, RepeatEffects
    <3> QED BY <2>3, <3>0, <3>1, <3>2
  <2> QED BY <2>4, <2>5
<1>10. CASE CommitState(t)
  BY <1>10 DEF CommitState, RepeatInv, OneLiveRepetition, Newest
<1>11. CASE Rollback(t)
  BY <1>11 DEF Rollback, rows, RepeatInv, OneLiveRepetition, Newest
<1> QED BY <1>1, <1>2, <1>3, <1>4, <1>5, <1>6, <1>7, <1>8, <1>9, <1>10, <1>11 DEF Step

LEMMA BareStep ==
    ASSUME BaseInv, RepeatInv, NEW t \in Tx, Step(t)
    PROVE  \A i \in Issue : ~Exists(i)' => series'[i] = NoSeries /\ ~current'[i] /\ ~done'[i]
<1>1. ASSUME NEW o \in Operations, NEW x \in Issue, LockIssue(t, o, x) PROVE \A i \in Issue : ~Exists(i)' => series'[i] = NoSeries /\ ~current'[i] /\ ~done'[i]
  BY <1>1 DEF LockIssue, rows, RepeatInv, Exists
<1>2. ASSUME NEW y \in Issue, LockOther(t, y) PROVE \A i \in Issue : ~Exists(i)' => series'[i] = NoSeries /\ ~current'[i] /\ ~done'[i]
  BY <1>2 DEF LockOther, rows, RepeatInv, Exists
<1>3. CASE CheckParent(t)
  BY <1>3 DEF CheckParent, rows, RepeatInv, Exists
<1>4. ASSUME NEW s \in Series \cup {NoSeries}, Write(t, s) PROVE \A i \in Issue : ~Exists(i)' => series'[i] = NoSeries /\ ~current'[i] /\ ~done'[i]
  BY <1>4 DEF Write, rows, RepeatInv, Exists
<1>5. ASSUME NEW c \in todo[t], LockRow(t, c) PROVE \A i \in Issue : ~Exists(i)' => series'[i] = NoSeries /\ ~current'[i] /\ ~done'[i]
  BY <1>5 DEF LockRow, rows, RepeatInv, Exists
<1>6. ASSUME NEW o \in Operations, LockProject(t, o) PROVE \A i \in Issue : ~Exists(i)' => series'[i] = NoSeries /\ ~current'[i] /\ ~done'[i]
  BY <1>6 DEF LockProject, rows, RepeatInv, Exists
<1>7. ASSUME NEW s \in Series \cup {NoSeries}, CommitCreate(t, s) PROVE \A i \in Issue : ~Exists(i)' => series'[i] = NoSeries /\ ~current'[i] /\ ~done'[i]
  <2> SUFFICES ASSUME NEW i \in Issue, ~Exists(i)' PROVE series'[i] = NoSeries /\ ~current'[i] /\ ~done'[i]
    OBVIOUS
  <2>1. ~Exists(i) /\ series[i] = NoSeries /\ ~current[i] /\ ~done[i]
    BY RowsStay DEF BaseInv, RepeatInv
  <2>2. i # next
    BY <1>7 DEF CommitCreate, Insert, BaseInv, TypeOK, RowTypes, TxTypes, Exists
  <2> QED BY <1>7, <2>1, <2>2 DEF CommitCreate, BaseInv, TypeOK, RowTypes, TxTypes
<1>8. CASE CommitUpdate(t)
  <2> SUFFICES ASSUME NEW i \in Issue, ~Exists(i)' PROVE series'[i] = NoSeries /\ ~current'[i] /\ ~done'[i]
    OBVIOUS
  <2>1. ~Exists(i) /\ series[i] = NoSeries /\ ~current[i] /\ ~done[i]
    BY RowsStay DEF BaseInv, RepeatInv
  <2>2. target[t] \in Issue /\ Exists(target[t])
    BY <1>8 DEF CommitUpdate, BaseInv, TypeOK, RowTypes, TxTypes, TreeInv, Updating
  <2>3. i # target[t]
    BY <2>1, <2>2
  <2> QED BY <1>8, <2>1, <2>3 DEF CommitUpdate, BaseInv, TypeOK, RowTypes, TxTypes
<1>9. CASE CommitNext(t)
  <2> SUFFICES ASSUME NEW i \in Issue, ~Exists(i)' PROVE series'[i] = NoSeries /\ ~current'[i] /\ ~done'[i]
    OBVIOUS
  <2>1. ~Exists(i) /\ series[i] = NoSeries /\ ~current[i] /\ ~done[i]
    BY RowsStay DEF BaseInv, RepeatInv
  <2>2. target[t] \in Issue /\ Exists(target[t])
    BY <1>9 DEF CommitNext, BaseInv, TypeOK, RowTypes, TxTypes, TreeInv, Updating
  <2>3. i # target[t] /\ i # next
    <3>1. state'[next] = "live" \/ next \notin Issue
      BY <1>9 DEF CommitNext, Insert, BaseInv, TypeOK, RowTypes, TxTypes
    <3> QED BY <2>1, <2>2, <3>1 DEF Exists
  <2> QED BY <1>9, <2>1, <2>3 DEF CommitNext, BaseInv, TypeOK, RowTypes, TxTypes
<1>10. CASE CommitState(t)
  <2>1. \A i \in Issue : state'[i] = "none" => state[i] = "none"
    BY RowsStay DEF BaseInv, Exists
  <2> QED BY <1>10, <2>1 DEF CommitState, RepeatInv, Exists
<1>11. CASE Rollback(t)
  BY <1>11 DEF Rollback, rows, RepeatInv, Exists
<1> QED BY <1>1, <1>2, <1>3, <1>4, <1>5, <1>6, <1>7, <1>8, <1>9, <1>10, <1>11 DEF Step

LEMMA OwnSeriesStep ==
    ASSUME BaseInv, RepeatInv, NEW t \in Tx, Step(t)
    PROVE  SeriesChosen(t)'
<1>1. ASSUME NEW o \in Operations, NEW x \in Issue, LockIssue(t, o, x) PROVE SeriesChosen(t)'
  <2>1. op'[t] = o /\ (pc'[t] \in {"rows", "insert"} => o.kind = "sub")
    BY <1>1 DEF LockIssue, Goto, BaseInv, TypeOK, TxTypes
  <2> QED BY <2>1 DEF SeriesChosen, Updating
<1>2. ASSUME NEW y \in Issue, LockOther(t, y) PROVE SeriesChosen(t)'
  <2>1. pc'[t] = "write"
    BY <1>2 DEF LockOther, Goto, BaseInv, TypeOK, TxTypes
  <2> QED BY <2>1 DEF SeriesChosen
<1>3. CASE CheckParent(t)
  <2>1. pc'[t] = "write"
    BY <1>3 DEF CheckParent, Goto, BaseInv, TypeOK, TxTypes
  <2> QED BY <2>1 DEF SeriesChosen
<1>4. ASSUME NEW s \in Series \cup {NoSeries}, Write(t, s) PROVE SeriesChosen(t)'
  <2>1. chosen'[t] = s /\ (\A u \in Tx \ {t} : chosen'[u] = chosen[u]) /\ pc'[t] = "rows"
        /\ UNCHANGED <<rows, op, target>>
    BY <1>4 DEF Write, Goto, BaseInv, TypeOK, TxTypes
  <2>2. target[t] \in Issue
    <3>1. op[t].kind # "create"
      BY <1>4 DEF Write, BaseInv, TypeOK, TxTypes
    <3> QED BY <1>4, <3>1 DEF Write, BaseInv, TypeOK, TxTypes
  <2>3. op[t].repeat # "set" => s = series[target[t]]
    BY <1>4 DEF Write
  <2>4. op[t].repeat = "set" => s # NoSeries /\ ~(done[target[t]] /\ NewDone(t))
            /\ ((s = series[target[t]] /\ Newest(target[t])) \/ FreshSeries(s))
    BY <1>4, <2>2, IssueAssumption DEF Write, RepeatInv, OneLiveRepetition
  <2> QED BY <2>1, <2>3, <2>4 DEF rows, FreshSeries, SeriesChosen, ChosenIsFree, Newest, NewDone, BecomesDone, Repeats, Advances, Updating
<1>5. ASSUME NEW c \in todo[t], LockRow(t, c) PROVE SeriesChosen(t)'
  BY <1>5 DEF LockRow, rows, RepeatInv, SeriesChosen, ChosenIsFree, Newest, NewDone, BecomesDone, Repeats, Advances, Updating
<1>6. ASSUME NEW o \in Operations, LockProject(t, o) PROVE SeriesChosen(t)'
  <2>1. pc'[t] = "insert" /\ UNCHANGED <<rows, target, chosen>>
    BY <1>6 DEF LockProject, Goto, BaseInv, TypeOK, TxTypes
  <2>2. CASE pc[t] = "idle" /\ o.kind = "create" /\ op' = [op EXCEPT ![t] = o]
    <3>1. op'[t].kind = "create"
      BY <2>2 DEF BaseInv, TypeOK, TxTypes
    <3> QED BY <3>1 DEF SeriesChosen, Updating
  <2>3. CASE pc[t] = "rows" /\ UNCHANGED op /\ (op[t].kind = "sub" \/ Advances(t))
    BY <2>1, <2>3 DEF rows, RepeatInv, SeriesChosen, ChosenIsFree, Newest, NewDone, BecomesDone, Repeats, Advances, Updating
  <2> QED BY <1>6, <2>2, <2>3 DEF LockProject
<1>7. ASSUME NEW s \in Series \cup {NoSeries}, CommitCreate(t, s) PROVE SeriesChosen(t)'
  <2>1. pc'[t] = "idle"
    BY <1>7 DEF CommitCreate, Finish, Goto, BaseInv, TypeOK, TxTypes
  <2> QED BY <2>1 DEF SeriesChosen
<1>8. CASE CommitUpdate(t)
  <2>1. pc'[t] = "idle"
    BY <1>8 DEF CommitUpdate, Finish, Goto, BaseInv, TypeOK, TxTypes
  <2> QED BY <2>1 DEF SeriesChosen
<1>9. CASE CommitNext(t)
  <2>1. pc'[t] = "idle"
    BY <1>9 DEF CommitNext, Finish, Goto, BaseInv, TypeOK, TxTypes
  <2> QED BY <2>1 DEF SeriesChosen
<1>10. CASE CommitState(t)
  <2>1. pc'[t] = "idle"
    BY <1>10 DEF CommitState, Finish, Goto, BaseInv, TypeOK, TxTypes
  <2> QED BY <2>1 DEF SeriesChosen
<1>11. CASE Rollback(t)
  <2>1. pc'[t] = "idle"
    BY <1>11 DEF Rollback, Finish, Goto, BaseInv, TypeOK, TxTypes
  <2> QED BY <2>1 DEF SeriesChosen
<1> QED BY <1>1, <1>2, <1>3, <1>4, <1>5, <1>6, <1>7, <1>8, <1>9, <1>10, <1>11 DEF Step

LEMMA RepeatStep ==
    ASSUME BaseInv, BaseInv', RepeatInv, NEW t \in Tx, Step(t)
    PROVE  RepeatInv'
<1>1. RepeatEffect(t) /\ OthersKept(t)
  BY RepeatEffects, Locking DEF BaseInv
<1>2. \A i \in Issue : current'[i] => series'[i] # NoSeries /\ Newest(i)' /\ ~done'[i]
  BY LiveStep
<1>3. OneLiveRepetition'
  <2> SUFFICES ASSUME NEW i \in Issue, NEW j \in Issue, current'[i], current'[j], series'[j] = series'[i]
               PROVE  j = i
    BY <1>2 DEF OneLiveRepetition
  <2>1. i <= j /\ j <= i
    BY <1>2 DEF Newest
  <2> QED BY <2>1 DEF Issue
<1>4. \A i \in Issue : ~Exists(i)' => series'[i] = NoSeries /\ ~current'[i] /\ ~done'[i]
  BY BareStep
<1>5. ASSUME NEW u \in Tx \ {t} PROVE SeriesChosen(u)'
  <2> SUFFICES ASSUME pc'[u] \in {"rows", "insert"}, Updating(u)' PROVE
        /\ op'[u].repeat = "set" =>
            chosen'[u] # NoSeries /\ ~(done'[target'[u]] /\ NewDone(u)') /\ ChosenIsFree(u)'
        /\ op'[u].repeat # "set" => chosen'[u] = series'[target'[u]]
        /\ pc'[u] = "insert" => Advances(u)'
    BY DEF SeriesChosen
  <2>1. pc'[u] = pc[u] /\ op'[u] = op[u] /\ target'[u] = target[u] /\ chosen'[u] = chosen[u]
    BY <1>1 DEF OthersKept
  <2>2. Updating(u) /\ target[u] \in Issue /\ Exists(target[u]) /\ lock[u][target[u]] = ForUpdate
    BY <2>1 DEF BaseInv, TypeOK, TxTypes, TreeInv, LocksInv, Updating
  <2>3. target[u] # target[t]
    <3>1. CASE pc[t] = "idle" \/ op[t].kind = "create"
      BY <2>2, <3>1 DEF BaseInv, TypeOK, TxTypes, NoIssue, Issue
    <3>2. CASE pc[t] # "idle" /\ op[t].kind # "create"
      <4>1. lock[t][target[t]] = ForUpdate
        BY <3>2 DEF BaseInv, LocksInv
      <4> QED BY <2>2, <4>1 DEF BaseInv, LocksInv, ForUpdate
    <3> QED BY <3>1, <3>2
  <2>4. /\ series'[target[u]] = series[target[u]] /\ done'[target[u]] = done[target[u]]
        /\ current'[target[u]] = current[target[u]]
    BY <1>1, <2>2, <2>3 DEF RepeatEffect
  <2>5. (NewDone(u)' <=> NewDone(u)) /\ (Advances(u)' <=> Advances(u))
    BY <2>1, <2>4 DEF NewDone, Advances, Updating, BecomesDone, Repeats
  <2>6. /\ op[u].repeat = "set" =>
            chosen[u] # NoSeries /\ ~(done[target[u]] /\ NewDone(u)) /\ ChosenIsFree(u)
        /\ op[u].repeat # "set" => chosen[u] = series[target[u]]
        /\ pc[u] = "insert" => Advances(u)
    BY <2>1, <2>2 DEF RepeatInv, SeriesChosen
  <2>7. op[u].repeat = "set" => ChosenIsFree(u)'
    <3> SUFFICES ASSUME op[u].repeat = "set" PROVE ChosenIsFree(u)'
      OBVIOUS
    <3>1. CASE chosen[u] = series[target[u]] /\ Newest(target[u])
      <4>1. Newest(target[u])'
        <5>1. \A j \in Issue : series'[j] = series[target[u]] => j <= target[u]
          BY <1>1, <2>2, <2>3, <2>6, <3>1, NewestKept, <2>4 DEF Newest
        <5> QED BY <2>1, <2>4, <5>1 DEF Newest
      <4> QED BY <2>1, <2>4, <3>1, <4>1 DEF ChosenIsFree
    <3>2. CASE (\A i \in Issue : series[i] # chosen[u]) /\ (\A w \in Tx \ {u} : chosen[w] # chosen[u])
      <4>1. \A i \in Issue : series'[i] # chosen[u]
        BY <1>1, <2>6, <3>2 DEF RepeatEffect
      <4>2. chosen'[t] # chosen[u]
        BY <1>1, <2>6, <3>2 DEF RepeatEffect
      <4>3. \A w \in Tx \ {u} : chosen'[w] # chosen[u]
        BY <1>1, <3>2, <4>2 DEF OthersKept
      <4> QED BY <2>1, <4>1, <4>3 DEF ChosenIsFree
    <3> QED BY <2>6, <3>1, <3>2 DEF ChosenIsFree
  <2> QED BY <2>1, <2>4, <2>5, <2>6, <2>7
<1>6. SeriesChosen(t)'
  BY OwnSeriesStep
<1> QED BY <1>3, <1>4, <1>5, <1>6 DEF RepeatInv

IssuesInv == BaseInv /\ RepeatInv

LEMMA IssuesInvInit == Init => IssuesInv
<1>1. Init => RepeatInv
  BY DEF Init, RepeatInv, OneLiveRepetition, SeriesChosen, Exists
<1> QED BY <1>1, BaseInit DEF IssuesInv

LEMMA IssuesInvStep == IssuesInv /\ [Next]_vars => IssuesInv'
<1> SUFFICES ASSUME BaseInv, RepeatInv, [Next]_vars PROVE BaseInv' /\ RepeatInv'
  BY DEF IssuesInv
<1>1. BaseInv'
  BY BaseStep
<1>2. CASE UNCHANGED vars
  BY <1>1, <1>2 DEF vars, rows, tx, RepeatInv, OneLiveRepetition, Exists, SeriesChosen, ChosenIsFree, Newest,
      NewDone, BecomesDone, Repeats, Advances, Updating
<1>3. ASSUME NEW t \in Tx, Step(t) PROVE RepeatInv'
  BY <1>1, <1>3, RepeatStep
<1> QED BY <1>1, <1>2, <1>3, NextIsAStep

\* The live repetition of a series is its only one, its newest and open, however
\* requests that complete, reopen, set up and stop repeats interleave.
THEOREM LiveRepetitionIsTheOne == Spec => []OneLiveRepetition
<1>1. IssuesInv => OneLiveRepetition
  BY DEF IssuesInv, RepeatInv
<1> QED BY <1>1, IssuesInvInit, IssuesInvStep, PTL DEF Spec

LEMMA GrowthStep ==
    ASSUME BaseInv, RepeatInv, NEW t \in Tx, Step(t)
    PROVE  GrowsByCompletion
<1>1. ASSUME NEW o \in Operations, NEW x \in Issue, LockIssue(t, o, x) PROVE GrowsByCompletion
  BY <1>1 DEF LockIssue, rows, GrowsByCompletion, Exists
<1>2. ASSUME NEW y \in Issue, LockOther(t, y) PROVE GrowsByCompletion
  BY <1>2 DEF LockOther, rows, GrowsByCompletion, Exists
<1>3. CASE CheckParent(t)
  BY <1>3 DEF CheckParent, rows, GrowsByCompletion, Exists
<1>4. ASSUME NEW s \in Series \cup {NoSeries}, Write(t, s) PROVE GrowsByCompletion
  BY <1>4 DEF Write, rows, GrowsByCompletion, Exists
<1>5. ASSUME NEW c \in todo[t], LockRow(t, c) PROVE GrowsByCompletion
  BY <1>5 DEF LockRow, rows, GrowsByCompletion, Exists
<1>6. ASSUME NEW o \in Operations, LockProject(t, o) PROVE GrowsByCompletion
  BY <1>6 DEF LockProject, rows, GrowsByCompletion, Exists
<1>7. ASSUME NEW s \in Series \cup {NoSeries}, CommitCreate(t, s) PROVE GrowsByCompletion
  <2> SUFFICES ASSUME NEW n \in Issue, ~Exists(n), Exists(n)',
                      NEW m \in Issue, series[m] = series'[n], series[m] # NoSeries
               PROVE  \E i \in Issue : /\ ~done[i] /\ done'[i] /\ series'[i] = series'[n] /\ i < n
                            /\ \A j \in Issue : series'[j] = series'[n] /\ j # n => j <= i
    BY DEF GrowsByCompletion
  <2>1. n = next
    BY <1>7 DEF CommitCreate, Insert, Exists, BaseInv, TypeOK, RowTypes, TxTypes
  <2>2. series'[n] = s
    BY <1>7, <2>1 DEF CommitCreate, BaseInv, TypeOK, RowTypes, TxTypes
  <2> QED BY <1>7, <2>2 DEF CommitCreate, FreshSeries
<1>8. CASE CommitUpdate(t)
  BY <1>8 DEF CommitUpdate, GrowsByCompletion, Exists
<1>9. CASE CommitNext(t)
  <2> SUFFICES ASSUME NEW n \in Issue, ~Exists(n), Exists(n)',
                      NEW m \in Issue, series[m] = series'[n], series[m] # NoSeries
               PROVE  \E i \in Issue : /\ ~done[i] /\ done'[i] /\ series'[i] = series'[n] /\ i < n
                            /\ \A j \in Issue : series'[j] = series'[n] /\ j # n => j <= i
    BY DEF GrowsByCompletion
  <2>1. n = next
    BY <1>9 DEF CommitNext, Insert, Exists, BaseInv, TypeOK, RowTypes, TxTypes
  <2>2. pc[t] = "insert" /\ Advances(t)
    BY <1>9 DEF CommitNext, RepeatInv, SeriesChosen
  <2>3. target[t] \in Issue /\ Exists(target[t]) /\ ~done[target[t]] /\ ChosenIsFree(t)
    BY <2>2, AdvancesNewest
  <2>4. \A j \in Issue : series'[j] = IF j \in {target[t], n} THEN chosen[t] ELSE series[j]
    BY <1>9, <2>1 DEF CommitNext, BaseInv, TypeOK, RowTypes, TxTypes
  <2>5. chosen[t] = series[target[t]] /\ Newest(target[t])
    BY <2>3, <2>4 DEF ChosenIsFree
  <2>6. done'[target[t]] /\ target[t] < n
    BY <1>9, <2>1, <2>3 DEF CommitNext, BaseInv, TypeOK, RowTypes, TxTypes, TreeInv
  <2>7. \A j \in Issue : series'[j] = series'[n] /\ j # n => j <= target[t]
    BY <2>3, <2>4, <2>5 DEF Newest, Issue
  <2> QED BY <2>3, <2>4, <2>6, <2>7
<1>10. CASE CommitState(t)
  <2>1. \A i \in Issue : state[i] = "none" => state'[i] = "none"
    BY <1>10 DEF CommitState, BaseInv, TypeOK, RowTypes, TxTypes, LocksInv, Exists, Unlocked, NoKeyUpdate
  <2> QED BY <2>1 DEF GrowsByCompletion, Exists
<1>11. CASE Rollback(t)
  BY <1>11 DEF Rollback, rows, GrowsByCompletion, Exists
<1> QED BY <1>1, <1>2, <1>3, <1>4, <1>5, <1>6, <1>7, <1>8, <1>9, <1>10, <1>11 DEF Step

\* A series grows only when its newest, open repetition is completed: two
\* requests completing one repetition create one successor.
THEOREM SeriesGrowsByCompletion == Spec => SeriesGrowth
<1>1. IssuesInv /\ [Next]_vars => [GrowsByCompletion]_vars
  <2> SUFFICES ASSUME BaseInv, RepeatInv, [Next]_vars PROVE [GrowsByCompletion]_vars
    BY DEF IssuesInv
  <2>1. ASSUME NEW t \in Tx, Step(t) PROVE GrowsByCompletion
    BY <2>1, GrowthStep
  <2> QED BY <2>1, NextIsAStep
<1> QED BY <1>1, IssuesInvInit, IssuesInvStep, PTL DEF Spec, SeriesGrowth

===============================================================================
