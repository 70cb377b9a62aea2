---------------------------- MODULE SprintsProofs ----------------------------
(* Proofs about Sprints. *)
EXTENDS Sprints, TLAPS

-------------------------------------------------------------------------------
(* What the locks keep true of the transactions.  None of the properties below *)
(* is inductive by itself: they hold because of what these say of requests     *)
(* that are still under way.                                                   *)

\* Nobody else holds a sprint that a transaction holds FOR UPDATE.
Excluded ==
    \A t, u \in Tx : t # u => Exclusive(t) \cap (Exclusive(u) \cup Shared(u)) = {}

\* The sprint a request completes is active, the next one planned, and the one
\* an issue is assigned to is not completed or deleted meanwhile.
TargetsOpen ==
    \A t \in Tx :
        /\ Completing(t) => status[target[t]] = "active"
        /\ pc[t] = "assigned" => status[target[t]] \in {"planned", "active"}
        /\ pc[t] = "move" /\ next[t] # NoSprint => status[next[t]] = "planned"

\* A sprint is only being started in sprint mode.
StartsInMode ==
    /\ \A t \in Tx : pc[t] = "start" => enabled
    /\ ActiveInSprintMode

\* Unfinished work in a sprint being emptied is found by the UPDATE.
UnfinishedFound ==
    \A t \in Tx : pc[t] = "move" => Unfinished(target[t]) \subseteq todo[t] \cup moved[t] \cup reopened

\* What a sprint being completed holds is or will be recorded.
MembersFound ==
    \A t \in Tx :
        /\ pc[t] = "members" => In(target[t]) \subseteq todo[t] \cup members[t] \cup reopened
        /\ pc[t] \in {"readNext", "lockNext", "move"} =>
             In(target[t]) \subseteq members[t] \cup reopened

-------------------------------------------------------------------------------
(* Types *)

LEMMA TypeInit == Init => TypeOK
<1> SUFFICES ASSUME Init PROVE TypeOK
  OBVIOUS
<1>1. /\ rank \in [Sprint -> Nat] /\ \A s \in Sprint : rank[s] > 0 <=> status[s] = "planned"
      /\ status \in [Sprint -> {"none", "planned", "active", "completed", "deleted"}]
  BY DEF Init
<1>2. /\ sprint \in [Issue -> Sprint \cup {NoSprint}]
      /\ snapshot \in [Sprint -> SUBSET Issue]
  BY DEF Init
<1>3. /\ target \in [Tx -> Sprint \cup {NoSprint}] /\ next \in [Tx -> Sprint \cup {NoSprint}]
      /\ \A t \in Tx : pc[t] = "idle"
  BY DEF Init
<1>4. /\ subject \in [Tx -> SUBSET Issue] /\ todo \in [Tx -> SUBSET Issue]
      /\ members \in [Tx -> SUBSET Issue] /\ moved \in [Tx -> SUBSET Issue]
  BY DEF Init, NoIssue
<1> QED
  BY <1>1, <1>2, <1>3, <1>4 DEF Init, TypeOK

LEMMA TypeStep == TypeOK /\ TargetsOpen /\ [Next]_vars => TypeOK'
<1> SUFFICES ASSUME TypeOK, TargetsOpen, [Next]_vars PROVE TypeOK'
  OBVIOUS
<1>1. ASSUME NEW s \in Sprint, CreateSprint(s)
      PROVE  TypeOK'
  BY <1>1 DEF CreateSprint, TypeOK, Planned, project, issues, requests
<1>2. ASSUME NEW s \in Sprint, DeleteSprint(s)
      PROVE  TypeOK'
  BY <1>2 DEF DeleteSprint, TypeOK, project, issues, requests
<1>3. ASSUME NEW order \in Orders, ReorderPlannedSprints(order)
      PROVE  TypeOK'
  <2>1. ASSUME NEW s \in Planned
        PROVE  rank'[s] \in Nat /\ rank'[s] > 0
    BY <1>3 DEF ReorderPlannedSprints, Orders, Planned
  <2>2. \A s \in Sprint \ Planned : rank'[s] = rank[s]
    BY <1>3 DEF ReorderPlannedSprints
  <2> QED
    BY <1>3, <2>1, <2>2 DEF ReorderPlannedSprints, TypeOK, Planned, project, issues, requests
<1>4. ASSUME SetSprintsEnabled
      PROVE  TypeOK'
  BY <1>4 DEF SetSprintsEnabled, TypeOK, project, issues, requests
<1>5. ASSUME NEW i \in Issue, Unassign(i)
      PROVE  TypeOK'
  BY <1>5 DEF Unassign, TypeOK, project, issues, requests
<1>6. ASSUME NEW i \in Issue, ChangeStatus(i)
      PROVE  TypeOK'
  BY <1>6 DEF ChangeStatus, TypeOK, project, issues, requests
<1>7. ASSUME NEW i \in Issue, DeleteIssue(i)
      PROVE  TypeOK'
  BY <1>7 DEF DeleteIssue, TypeOK, project, issues, requests
<1>8. ASSUME NEW i \in Issue, RestoreIssue(i)
      PROVE  TypeOK'
  BY <1>8 DEF RestoreIssue, TypeOK, project, issues, requests
<1>9. ASSUME NEW t \in Tx, NEW s \in Sprint, BeginStart(t, s)
      PROVE  TypeOK'
  BY <1>9 DEF BeginStart, Goto, TypeOK, project, issues, requests
<1>10. ASSUME NEW t \in Tx, CommitStart(t)
      PROVE  TypeOK'
  BY <1>10 DEF CommitStart, End, Goto, TypeOK, NoIssue, project, issues, requests
<1>11. ASSUME NEW t \in Tx, NEW s \in Sprint, BeginComplete(t, s)
      PROVE  TypeOK'
  BY <1>11 DEF BeginComplete, Goto, TypeOK, In, Unfinished, project, issues, requests
<1>12. ASSUME NEW t \in Tx, NEW i \in todo[t], RecordMember(t, i)
      PROVE  TypeOK'
  BY <1>12 DEF RecordMember, TypeOK, In, Unfinished, project, issues, requests
<1>13. ASSUME NEW t \in Tx, EndMembers(t)
      PROVE  TypeOK'
  BY <1>13 DEF EndMembers, Goto, TypeOK, project, issues, requests
<1>14. ASSUME NEW t \in Tx, ReadNext(t)
      PROVE  TypeOK'
  BY <1>14 DEF ReadNext, StartMoving, TryNext, Goto, TypeOK, Planned, In, Unfinished, project,
    issues, requests
<1>15. ASSUME NEW t \in Tx, LockNext(t)
      PROVE  TypeOK'
  BY <1>15 DEF LockNext, StartMoving, TryNext, Goto, TypeOK, Planned, In, Unfinished, project,
    issues, requests
<1>16. ASSUME NEW t \in Tx, NEW i \in todo[t], MoveOn(t, i)
      PROVE  TypeOK'
  <2>1. i \in Issue
    BY DEF TypeOK
  <2>2. todo' \in [Tx -> SUBSET Issue]
    BY <1>16 DEF MoveOn, TypeOK
  <2>3. moved' \in [Tx -> SUBSET Issue]
    <3>1. moved[t] \cup {i} \in SUBSET Issue
      BY <2>1 DEF TypeOK
    <3>2. CASE i \in Unfinished(target[t])
      BY <1>16, <3>1, <3>2 DEF MoveOn, TypeOK
    <3>3. CASE ~(i \in Unfinished(target[t]))
      BY <1>16, <3>3 DEF MoveOn, TypeOK
    <3> QED
      BY <3>2, <3>3
  <2> QED
    BY <1>16, <2>2, <2>3 DEF MoveOn, TypeOK, project, issues
<1>17. ASSUME NEW t \in Tx, CommitComplete(t)
      PROVE  TypeOK'
  BY <1>17 DEF CommitComplete, End, Goto, TypeOK, NoIssue, TargetsOpen, Completing, project, issues,
    requests
<1>18. ASSUME NEW t \in Tx, NEW i \in Issue, NEW s \in Sprint, BeginAssign(t, i, s)
      PROVE  TypeOK'
  BY <1>18 DEF BeginAssign, Goto, TypeOK, project, issues, requests
<1>19. ASSUME NEW t \in Tx, CheckSprint(t)
      PROVE  TypeOK'
  BY <1>19 DEF CheckSprint, Goto, TypeOK, project, issues, requests
<1>20. ASSUME NEW t \in Tx, CommitAssign(t)
      PROVE  TypeOK'
  BY <1>20 DEF CommitAssign, End, Goto, TypeOK, NoIssue, project, issues, requests
<1>21. ASSUME NEW t \in Tx, Rollback(t)
      PROVE  TypeOK'
  BY <1>21 DEF Rollback, End, Goto, TypeOK, NoIssue, project, issues, requests
<1>22. CASE UNCHANGED vars
  BY <1>22 DEF vars, project, issues, requests, TypeOK
<1> QED
  BY <1>1, <1>2, <1>3, <1>4, <1>5, <1>6, <1>7, <1>8, <1>9, <1>10, <1>11, <1>12, <1>13, <1>14, <1>15,
    <1>16, <1>17, <1>18, <1>19, <1>20, <1>21, <1>22 DEF Next, Transact

LEMMA StartsInModeStep == TypeOK /\ TypeOK' /\ StartsInMode /\ [Next]_vars =>
    StartsInMode'
<1> SUFFICES ASSUME TypeOK, TypeOK', StartsInMode, [Next]_vars PROVE StartsInMode'
  OBVIOUS
<1>1. ASSUME NEW s \in Sprint, CreateSprint(s)
      PROVE  StartsInMode'
  BY <1>1 DEF CreateSprint, Planned, TypeOK, StartsInMode, ActiveInSprintMode, project, issues,
    requests
<1>2. ASSUME NEW s \in Sprint, DeleteSprint(s)
      PROVE  StartsInMode'
  BY <1>2 DEF DeleteSprint, SprintUnlocked, TypeOK, StartsInMode, ActiveInSprintMode, project,
    issues, requests
<1>3. ASSUME NEW order \in Orders, ReorderPlannedSprints(order)
      PROVE  StartsInMode'
  BY <1>3 DEF ReorderPlannedSprints, SprintUnlocked, Planned, TypeOK, StartsInMode,
    ActiveInSprintMode, project, issues, requests
<1>4. ASSUME SetSprintsEnabled
      PROVE  StartsInMode'
  BY <1>4 DEF SetSprintsEnabled, ProjectFree, ProjectReferable, TypeOK, StartsInMode,
    ActiveInSprintMode, project, issues, requests
<1>5. ASSUME NEW i \in Issue, Unassign(i)
      PROVE  StartsInMode'
  BY SprintAssumption, <1>5 DEF Unassign, TypeOK, StartsInMode, ActiveInSprintMode, project, issues,
    requests
<1>6. ASSUME NEW i \in Issue, ChangeStatus(i)
      PROVE  StartsInMode'
  BY <1>6 DEF ChangeStatus, TypeOK, StartsInMode, ActiveInSprintMode, project, issues, requests
<1>7. ASSUME NEW i \in Issue, DeleteIssue(i)
      PROVE  StartsInMode'
  BY <1>7 DEF DeleteIssue, TypeOK, StartsInMode, ActiveInSprintMode, project, issues, requests
<1>8. ASSUME NEW i \in Issue, RestoreIssue(i)
      PROVE  StartsInMode'
  BY <1>8 DEF RestoreIssue, TypeOK, StartsInMode, ActiveInSprintMode, project, issues, requests
<1>9. ASSUME NEW t \in Tx, NEW s \in Sprint, BeginStart(t, s)
      PROVE  StartsInMode'
  BY <1>9 DEF BeginStart, Goto, TypeOK, StartsInMode, ActiveInSprintMode, project, issues, requests
<1>10. ASSUME NEW t \in Tx, CommitStart(t)
      PROVE  StartsInMode'
  BY <1>10 DEF CommitStart, SprintFree, End, Goto, TypeOK, StartsInMode, ActiveInSprintMode,
    project, issues, requests
<1>11. ASSUME NEW t \in Tx, NEW s \in Sprint, BeginComplete(t, s)
      PROVE  StartsInMode'
  BY <1>11 DEF BeginComplete, SprintFree, In, Unfinished, Goto, TypeOK, StartsInMode,
    ActiveInSprintMode, project, issues, requests
<1>12. ASSUME NEW t \in Tx, NEW i \in todo[t], RecordMember(t, i)
      PROVE  StartsInMode'
  BY <1>12 DEF RecordMember, In, Unfinished, TypeOK, StartsInMode, ActiveInSprintMode, project,
    issues, requests
<1>13. ASSUME NEW t \in Tx, EndMembers(t)
      PROVE  StartsInMode'
  BY <1>13 DEF EndMembers, Goto, TypeOK, StartsInMode, ActiveInSprintMode, project, issues, requests
<1>14. ASSUME NEW t \in Tx, ReadNext(t)
      PROVE  StartsInMode'
  BY SprintAssumption, <1>14 DEF ReadNext, In, Unfinished, Planned, StartMoving, TryNext, Goto,
    TypeOK, StartsInMode, ActiveInSprintMode, project, issues, requests
<1>15. ASSUME NEW t \in Tx, LockNext(t)
      PROVE  StartsInMode'
  BY SprintAssumption, <1>15 DEF LockNext, SprintFree, In, Unfinished, Planned, StartMoving,
    TryNext, Goto, TypeOK, StartsInMode, ActiveInSprintMode, project, issues, requests
<1>16. ASSUME NEW t \in Tx, NEW i \in todo[t], MoveOn(t, i)
      PROVE  StartsInMode'
  BY <1>16 DEF MoveOn, In, Unfinished, TypeOK, StartsInMode, ActiveInSprintMode, project, issues,
    requests
<1>17. ASSUME NEW t \in Tx, CommitComplete(t)
      PROVE  StartsInMode'
  BY SprintAssumption, <1>17 DEF CommitComplete, End, Goto, TypeOK, StartsInMode,
    ActiveInSprintMode, project, issues, requests
<1>18. ASSUME NEW t \in Tx, NEW i \in Issue, NEW s \in Sprint, BeginAssign(t, i, s)
      PROVE  StartsInMode'
  BY <1>18 DEF BeginAssign, Goto, TypeOK, StartsInMode, ActiveInSprintMode, project, issues,
    requests
<1>19. ASSUME NEW t \in Tx, CheckSprint(t)
      PROVE  StartsInMode'
  BY <1>19 DEF CheckSprint, Shareable, Goto, TypeOK, StartsInMode, ActiveInSprintMode, project,
    issues, requests
<1>20. ASSUME NEW t \in Tx, CommitAssign(t)
      PROVE  StartsInMode'
  BY <1>20 DEF CommitAssign, End, Goto, TypeOK, StartsInMode, ActiveInSprintMode, project, issues,
    requests
<1>21. ASSUME NEW t \in Tx, Rollback(t)
      PROVE  StartsInMode'
  BY SprintAssumption, <1>21 DEF Rollback, End, Goto, TypeOK, StartsInMode, ActiveInSprintMode,
    project, issues, requests
<1>22. CASE UNCHANGED vars
  BY <1>22 DEF vars, project, issues, requests, TypeOK, StartsInMode, ActiveInSprintMode
<1> QED
  BY <1>1, <1>2, <1>3, <1>4, <1>5, <1>6, <1>7, <1>8, <1>9, <1>10, <1>11, <1>12, <1>13, <1>14, <1>15,
    <1>16, <1>17, <1>18, <1>19, <1>20, <1>21, <1>22 DEF Next, Transact

LEMMA ExcludedStep == TypeOK /\ TypeOK' /\ Excluded /\ [Next]_vars => Excluded'
<1> SUFFICES ASSUME TypeOK, TypeOK', Excluded, [Next]_vars PROVE Excluded'
  OBVIOUS
<1>1. ASSUME NEW s \in Sprint, CreateSprint(s)
      PROVE  Excluded'
  BY <1>1 DEF CreateSprint, Planned, TypeOK, Excluded, Exclusive, Completing, Shared, project, issues, requests
<1>2. ASSUME NEW s \in Sprint, DeleteSprint(s)
      PROVE  Excluded'
  BY <1>2 DEF DeleteSprint, SprintUnlocked, TypeOK, Excluded, Exclusive, Completing, Shared, project, issues,
    requests
<1>3. ASSUME NEW order \in Orders, ReorderPlannedSprints(order)
      PROVE  Excluded'
  BY <1>3 DEF ReorderPlannedSprints, SprintUnlocked, Planned, TypeOK, Excluded, Exclusive, Completing, Shared,
    project, issues, requests
<1>4. ASSUME SetSprintsEnabled
      PROVE  Excluded'
  BY <1>4 DEF SetSprintsEnabled, ProjectFree, ProjectReferable, TypeOK, Excluded, Exclusive, Completing, Shared,
    project, issues, requests
<1>5. ASSUME NEW i \in Issue, Unassign(i)
      PROVE  Excluded'
  BY SprintAssumption, <1>5 DEF Unassign, TypeOK, Excluded, Exclusive, Completing, Shared, project, issues,
    requests
<1>6. ASSUME NEW i \in Issue, ChangeStatus(i)
      PROVE  Excluded'
  BY <1>6 DEF ChangeStatus, TypeOK, Excluded, Exclusive, Completing, Shared, project, issues, requests
<1>7. ASSUME NEW i \in Issue, DeleteIssue(i)
      PROVE  Excluded'
  BY <1>7 DEF DeleteIssue, TypeOK, Excluded, Exclusive, Completing, Shared, project, issues, requests
<1>8. ASSUME NEW i \in Issue, RestoreIssue(i)
      PROVE  Excluded'
  BY <1>8 DEF RestoreIssue, TypeOK, Excluded, Exclusive, Completing, Shared, project, issues, requests
<1>9. ASSUME NEW t \in Tx, NEW s \in Sprint, BeginStart(t, s)
      PROVE  Excluded'
  BY <1>9 DEF BeginStart, Goto, TypeOK, Excluded, Exclusive, Completing, Shared, project, issues, requests
<1>10. ASSUME NEW t \in Tx, CommitStart(t)
      PROVE  Excluded'
  BY <1>10 DEF CommitStart, SprintFree, End, Goto, TypeOK, Excluded, Exclusive, Completing, Shared, project,
    issues, requests
<1>11. ASSUME NEW t \in Tx, NEW s \in Sprint, BeginComplete(t, s)
      PROVE  Excluded'
  BY <1>11 DEF BeginComplete, SprintFree, In, Unfinished, Goto, TypeOK, Excluded, Exclusive, Completing, Shared,
    project, issues, requests
<1>12. ASSUME NEW t \in Tx, NEW i \in todo[t], RecordMember(t, i)
      PROVE  Excluded'
  BY <1>12 DEF RecordMember, In, Unfinished, TypeOK, Excluded, Exclusive, Completing, Shared, project, issues,
    requests
<1>13. ASSUME NEW t \in Tx, EndMembers(t)
      PROVE  Excluded'
  BY <1>13 DEF EndMembers, Goto, TypeOK, Excluded, Exclusive, Completing, Shared, project, issues, requests
<1>14. ASSUME NEW t \in Tx, ReadNext(t)
      PROVE  Excluded'
  BY SprintAssumption, <1>14 DEF ReadNext, In, Unfinished, Planned, StartMoving, TryNext, Goto,
    TypeOK, Excluded, Exclusive, Completing, Shared, project, issues, requests
<1>15. ASSUME NEW t \in Tx, LockNext(t)
      PROVE  Excluded'
  BY SprintAssumption, <1>15 DEF LockNext, SprintFree, In, Unfinished, Planned, StartMoving,
    TryNext, Goto, TypeOK, Excluded, Exclusive, Completing, Shared, project, issues, requests
<1>16. ASSUME NEW t \in Tx, NEW i \in todo[t], MoveOn(t, i)
      PROVE  Excluded'
  BY <1>16 DEF MoveOn, In, Unfinished, TypeOK, Excluded, Exclusive, Completing, Shared, project, issues,
    requests
<1>17. ASSUME NEW t \in Tx, CommitComplete(t)
      PROVE  Excluded'
  BY SprintAssumption, <1>17 DEF CommitComplete, End, Goto, TypeOK, Excluded, Exclusive, Completing, Shared,
    project, issues, requests
<1>18. ASSUME NEW t \in Tx, NEW i \in Issue, NEW s \in Sprint, BeginAssign(t, i, s)
      PROVE  Excluded'
  BY <1>18 DEF BeginAssign, Goto, TypeOK, Excluded, Exclusive, Completing, Shared, project, issues, requests
<1>19. ASSUME NEW t \in Tx, CheckSprint(t)
      PROVE  Excluded'
  BY <1>19 DEF CheckSprint, Shareable, Goto, TypeOK, Excluded, Exclusive, Completing, Shared, project, issues,
    requests
<1>20. ASSUME NEW t \in Tx, CommitAssign(t)
      PROVE  Excluded'
  BY <1>20 DEF CommitAssign, End, Goto, TypeOK, Excluded, Exclusive, Completing, Shared, project, issues,
    requests
<1>21. ASSUME NEW t \in Tx, Rollback(t)
      PROVE  Excluded'
  BY SprintAssumption, <1>21 DEF Rollback, End, Goto, TypeOK, Excluded, Exclusive, Completing, Shared, project,
    issues, requests
<1>22. CASE UNCHANGED vars
  BY <1>22 DEF vars, project, issues, requests, TypeOK, Excluded, Exclusive, Completing, Shared
<1> QED
  BY <1>1, <1>2, <1>3, <1>4, <1>5, <1>6, <1>7, <1>8, <1>9, <1>10, <1>11, <1>12, <1>13, <1>14, <1>15,
    <1>16, <1>17, <1>18, <1>19, <1>20, <1>21, <1>22 DEF Next, Transact

LEMMA TargetsOpenStep == TypeOK /\ TypeOK' /\ Excluded /\ TargetsOpen /\ [Next]_vars =>
    TargetsOpen'
<1> SUFFICES ASSUME TypeOK, TypeOK', Excluded, TargetsOpen, [Next]_vars PROVE TargetsOpen'
  OBVIOUS
<1>1. ASSUME NEW s \in Sprint, CreateSprint(s)
      PROVE  TargetsOpen'
  BY <1>1 DEF CreateSprint, Planned, TypeOK, Excluded, TargetsOpen, Completing, Exclusive, Shared,
    project, issues, requests
<1>2. ASSUME NEW s \in Sprint, DeleteSprint(s)
      PROVE  TargetsOpen'
  BY <1>2 DEF DeleteSprint, SprintUnlocked, TypeOK, Excluded, TargetsOpen, Completing, Exclusive,
    Shared, project, issues, requests
<1>3. ASSUME NEW order \in Orders, ReorderPlannedSprints(order)
      PROVE  TargetsOpen'
  BY <1>3 DEF ReorderPlannedSprints, SprintUnlocked, Planned, TypeOK, Excluded, TargetsOpen,
    Completing, Exclusive, Shared, project, issues, requests
<1>4. ASSUME SetSprintsEnabled
      PROVE  TargetsOpen'
  BY <1>4 DEF SetSprintsEnabled, ProjectFree, ProjectReferable, TypeOK, Excluded, TargetsOpen,
    Completing, Exclusive, Shared, project, issues, requests
<1>5. ASSUME NEW i \in Issue, Unassign(i)
      PROVE  TargetsOpen'
  BY SprintAssumption, <1>5 DEF Unassign, TypeOK, Excluded, TargetsOpen, Completing, Exclusive,
    Shared, project, issues, requests
<1>6. ASSUME NEW i \in Issue, ChangeStatus(i)
      PROVE  TargetsOpen'
  BY <1>6 DEF ChangeStatus, TypeOK, Excluded, TargetsOpen, Completing, Exclusive, Shared, project,
    issues, requests
<1>7. ASSUME NEW i \in Issue, DeleteIssue(i)
      PROVE  TargetsOpen'
  BY <1>7 DEF DeleteIssue, TypeOK, Excluded, TargetsOpen, Completing, Exclusive, Shared, project,
    issues, requests
<1>8. ASSUME NEW i \in Issue, RestoreIssue(i)
      PROVE  TargetsOpen'
  BY <1>8 DEF RestoreIssue, TypeOK, Excluded, TargetsOpen, Completing, Exclusive, Shared, project,
    issues, requests
<1>9. ASSUME NEW t \in Tx, NEW s \in Sprint, BeginStart(t, s)
      PROVE  TargetsOpen'
  BY <1>9 DEF BeginStart, Goto, TypeOK, Excluded, TargetsOpen, Completing, Exclusive, Shared,
    project, issues, requests
<1>10. ASSUME NEW t \in Tx, CommitStart(t)
      PROVE  TargetsOpen'
  BY <1>10 DEF CommitStart, SprintFree, End, Goto, TypeOK, Excluded, TargetsOpen, Completing,
    Exclusive, Shared, project, issues, requests
<1>11. ASSUME NEW t \in Tx, NEW s \in Sprint, BeginComplete(t, s)
      PROVE  TargetsOpen'
  BY <1>11 DEF BeginComplete, SprintFree, In, Unfinished, Goto, TypeOK, Excluded, TargetsOpen,
    Completing, Exclusive, Shared, project, issues, requests
<1>12. ASSUME NEW t \in Tx, NEW i \in todo[t], RecordMember(t, i)
      PROVE  TargetsOpen'
  BY <1>12 DEF RecordMember, In, Unfinished, TypeOK, Excluded, TargetsOpen, Completing, Exclusive,
    Shared, project, issues, requests
<1>13. ASSUME NEW t \in Tx, EndMembers(t)
      PROVE  TargetsOpen'
  BY <1>13 DEF EndMembers, Goto, TypeOK, Excluded, TargetsOpen, Completing, Exclusive, Shared,
    project, issues, requests
<1>14. ASSUME NEW t \in Tx, ReadNext(t)
      PROVE  TargetsOpen'
  BY SprintAssumption, <1>14 DEF ReadNext, In, Unfinished, Planned, StartMoving, TryNext, Goto,
    TypeOK, Excluded, TargetsOpen, Completing, Exclusive, Shared, project, issues, requests
<1>15. ASSUME NEW t \in Tx, LockNext(t)
      PROVE  TargetsOpen'
  BY SprintAssumption, <1>15 DEF LockNext, SprintFree, In, Unfinished, Planned, StartMoving,
    TryNext, Goto, TypeOK, Excluded, TargetsOpen, Completing, Exclusive, Shared, project, issues,
    requests
<1>16. ASSUME NEW t \in Tx, NEW i \in todo[t], MoveOn(t, i)
      PROVE  TargetsOpen'
  BY <1>16 DEF MoveOn, In, Unfinished, TypeOK, Excluded, TargetsOpen, Completing, Exclusive, Shared,
    project, issues, requests
<1>17. ASSUME NEW t \in Tx, CommitComplete(t)
      PROVE  TargetsOpen'
  BY SprintAssumption, <1>17 DEF CommitComplete, End, Goto, TypeOK, Excluded, TargetsOpen,
    Completing, Exclusive, Shared, project, issues, requests
<1>18. ASSUME NEW t \in Tx, NEW i \in Issue, NEW s \in Sprint, BeginAssign(t, i, s)
      PROVE  TargetsOpen'
  BY <1>18 DEF BeginAssign, Goto, TypeOK, Excluded, TargetsOpen, Completing, Exclusive, Shared,
    project, issues, requests
<1>19. ASSUME NEW t \in Tx, CheckSprint(t)
      PROVE  TargetsOpen'
  BY <1>19 DEF CheckSprint, Shareable, Goto, TypeOK, Excluded, TargetsOpen, Completing, Exclusive,
    Shared, project, issues, requests
<1>20. ASSUME NEW t \in Tx, CommitAssign(t)
      PROVE  TargetsOpen'
  BY <1>20 DEF CommitAssign, End, Goto, TypeOK, Excluded, TargetsOpen, Completing, Exclusive,
    Shared, project, issues, requests
<1>21. ASSUME NEW t \in Tx, Rollback(t)
      PROVE  TargetsOpen'
  BY SprintAssumption, <1>21 DEF Rollback, End, Goto, TypeOK, Excluded, TargetsOpen, Completing,
    Exclusive, Shared, project, issues, requests
<1>22. CASE UNCHANGED vars
  BY <1>22 DEF vars, project, issues, requests, TypeOK, Excluded, TargetsOpen, Completing,
    Exclusive, Shared
<1> QED
  BY <1>1, <1>2, <1>3, <1>4, <1>5, <1>6, <1>7, <1>8, <1>9, <1>10, <1>11, <1>12, <1>13, <1>14, <1>15,
    <1>16, <1>17, <1>18, <1>19, <1>20, <1>21, <1>22 DEF Next, Transact

LEMMA UnfinishedFoundStep == TypeOK /\ TypeOK' /\ Excluded /\ TargetsOpen /\
    UnfinishedFound /\ MembersFound /\ [Next]_vars => UnfinishedFound'
<1> SUFFICES ASSUME TypeOK, TypeOK', Excluded, TargetsOpen, UnfinishedFound, MembersFound,
    [Next]_vars
    PROVE UnfinishedFound'
  OBVIOUS
<1>1. ASSUME NEW s \in Sprint, CreateSprint(s)
      PROVE  UnfinishedFound'
  BY <1>1 DEF CreateSprint, Planned, TypeOK, Excluded, TargetsOpen, UnfinishedFound, Completing,
    Exclusive, Shared, In, Unfinished, project, issues, requests
<1>2. ASSUME NEW s \in Sprint, DeleteSprint(s)
      PROVE  UnfinishedFound'
  BY <1>2 DEF DeleteSprint, SprintUnlocked, TypeOK, Excluded, TargetsOpen, UnfinishedFound,
    Completing, Exclusive, Shared, In, Unfinished, project, issues, requests
<1>3. ASSUME NEW order \in Orders, ReorderPlannedSprints(order)
      PROVE  UnfinishedFound'
  BY <1>3 DEF ReorderPlannedSprints, SprintUnlocked, Planned, TypeOK, Excluded, TargetsOpen,
    UnfinishedFound, Completing, Exclusive, Shared, In, Unfinished, project, issues, requests
<1>4. ASSUME SetSprintsEnabled
      PROVE  UnfinishedFound'
  BY <1>4 DEF SetSprintsEnabled, ProjectFree, ProjectReferable, TypeOK, Excluded, TargetsOpen,
    UnfinishedFound, Completing, Exclusive, Shared, In, Unfinished, project, issues, requests
<1>5. ASSUME NEW i \in Issue, Unassign(i)
      PROVE  UnfinishedFound'
  BY SprintAssumption, <1>5 DEF Unassign, TypeOK, Excluded, TargetsOpen, UnfinishedFound,
    Completing, Exclusive, Shared, In, Unfinished, project, issues, requests
<1>6. ASSUME NEW i \in Issue, ChangeStatus(i)
      PROVE  UnfinishedFound'
  <2> SUFFICES ASSUME NEW t \in Tx, pc'[t] = "move",
                      NEW j \in Issue, j \in Unfinished(target[t])'
               PROVE  j \in todo'[t] \cup moved'[t] \cup reopened'
    BY <1>6 DEF UnfinishedFound, Unfinished, In, TypeOK
  <2>1. /\ UNCHANGED <<pc, target, todo, moved, members, live, sprint>>
        /\ reopened \subseteq reopened' /\ i \notin members[t]
    BY <1>6 DEF ChangeStatus, IssueUnlocked, Locked, requests
  <2>2. CASE j = i
    BY <2>1, <2>2 DEF MembersFound, Unfinished, In
  <2>3. CASE j # i
    <3>1. j \in Unfinished(target[t])
      BY <1>6, <2>1, <2>3 DEF ChangeStatus, Unfinished, In
    <3> QED
      BY <2>1, <3>1 DEF UnfinishedFound
  <2> QED
    BY <2>2, <2>3
<1>7. ASSUME NEW i \in Issue, DeleteIssue(i)
      PROVE  UnfinishedFound'
  BY <1>7 DEF DeleteIssue, TypeOK, Excluded, TargetsOpen, UnfinishedFound, Completing, Exclusive,
    Shared, In, Unfinished, project, issues, requests
<1>8. ASSUME NEW i \in Issue, RestoreIssue(i)
      PROVE  UnfinishedFound'
  BY <1>8 DEF RestoreIssue, Late, Completed, TypeOK, Excluded, TargetsOpen, UnfinishedFound, Completing, Exclusive,
    Shared, In, Unfinished, project, issues, requests
<1>9. ASSUME NEW t \in Tx, NEW s \in Sprint, BeginStart(t, s)
      PROVE  UnfinishedFound'
  BY <1>9 DEF BeginStart, Goto, TypeOK, Excluded, TargetsOpen, UnfinishedFound, Completing,
    Exclusive, Shared, In, Unfinished, project, issues, requests
<1>10. ASSUME NEW t \in Tx, CommitStart(t)
      PROVE  UnfinishedFound'
  BY <1>10 DEF CommitStart, SprintFree, End, Goto, TypeOK, Excluded, TargetsOpen, UnfinishedFound,
    Completing, Exclusive, Shared, In, Unfinished, project, issues, requests
<1>11. ASSUME NEW t \in Tx, NEW s \in Sprint, BeginComplete(t, s)
      PROVE  UnfinishedFound'
  BY <1>11 DEF BeginComplete, SprintFree, In, Unfinished, Goto, TypeOK, Excluded, TargetsOpen,
    UnfinishedFound, Completing, Exclusive, Shared, project, issues, requests
<1>12. ASSUME NEW t \in Tx, NEW i \in todo[t], RecordMember(t, i)
      PROVE  UnfinishedFound'
  BY <1>12 DEF RecordMember, In, Unfinished, TypeOK, Excluded, TargetsOpen, UnfinishedFound,
    Completing, Exclusive, Shared, project, issues, requests
<1>13. ASSUME NEW t \in Tx, EndMembers(t)
      PROVE  UnfinishedFound'
  BY <1>13 DEF EndMembers, Goto, TypeOK, Excluded, TargetsOpen, UnfinishedFound, Completing,
    Exclusive, Shared, In, Unfinished, project, issues, requests
<1>14. ASSUME NEW t \in Tx, ReadNext(t)
      PROVE  UnfinishedFound'
  BY SprintAssumption, <1>14 DEF ReadNext, In, Unfinished, Planned, StartMoving, TryNext, Goto,
    TypeOK, Excluded, TargetsOpen, UnfinishedFound, Completing, Exclusive, Shared, project, issues,
    requests
<1>15. ASSUME NEW t \in Tx, LockNext(t)
      PROVE  UnfinishedFound'
  BY SprintAssumption, <1>15 DEF LockNext, SprintFree, In, Unfinished, Planned, StartMoving,
    TryNext, Goto, TypeOK, Excluded, TargetsOpen, UnfinishedFound, Completing, Exclusive, Shared,
    project, issues, requests
<1>16. ASSUME NEW t \in Tx, NEW i \in todo[t], MoveOn(t, i)
      PROVE  UnfinishedFound'
  BY <1>16 DEF MoveOn, In, Unfinished, TypeOK, Excluded, TargetsOpen, UnfinishedFound, Completing,
    Exclusive, Shared, project, issues, requests
<1>17. ASSUME NEW t \in Tx, CommitComplete(t)
      PROVE  UnfinishedFound'
  BY SprintAssumption, <1>17 DEF CommitComplete, End, Goto, TypeOK, Excluded, TargetsOpen,
    UnfinishedFound, Completing, Exclusive, Shared, In, Unfinished, project, issues, requests
<1>18. ASSUME NEW t \in Tx, NEW i \in Issue, NEW s \in Sprint, BeginAssign(t, i, s)
      PROVE  UnfinishedFound'
  BY <1>18 DEF BeginAssign, Goto, TypeOK, Excluded, TargetsOpen, UnfinishedFound, Completing,
    Exclusive, Shared, In, Unfinished, project, issues, requests
<1>19. ASSUME NEW t \in Tx, CheckSprint(t)
      PROVE  UnfinishedFound'
  BY <1>19 DEF CheckSprint, Shareable, Goto, TypeOK, Excluded, TargetsOpen, UnfinishedFound,
    Completing, Exclusive, Shared, In, Unfinished, project, issues, requests
<1>20. ASSUME NEW t \in Tx, CommitAssign(t)
      PROVE  UnfinishedFound'
  BY <1>20 DEF CommitAssign, End, Goto, TypeOK, Excluded, TargetsOpen, UnfinishedFound, Completing,
    Exclusive, Shared, In, Unfinished, project, issues, requests
<1>21. ASSUME NEW t \in Tx, Rollback(t)
      PROVE  UnfinishedFound'
  BY SprintAssumption, <1>21 DEF Rollback, End, Goto, TypeOK, Excluded, TargetsOpen,
    UnfinishedFound, Completing, Exclusive, Shared, In, Unfinished, project, issues, requests
<1>22. CASE UNCHANGED vars
  BY <1>22 DEF vars, project, issues, requests, TypeOK, Excluded, TargetsOpen, UnfinishedFound,
    Completing, Exclusive, Shared, In, Unfinished
<1> QED
  BY <1>1, <1>2, <1>3, <1>4, <1>5, <1>6, <1>7, <1>8, <1>9, <1>10, <1>11, <1>12, <1>13, <1>14, <1>15,
    <1>16, <1>17, <1>18, <1>19, <1>20, <1>21, <1>22 DEF Next, Transact

LEMMA MembersFoundStep == TypeOK /\ TypeOK' /\ Excluded /\ TargetsOpen /\ MembersFound /\
    [Next]_vars => MembersFound'
<1> SUFFICES ASSUME TypeOK, TypeOK', Excluded, TargetsOpen, MembersFound, [Next]_vars
    PROVE MembersFound'
  OBVIOUS
<1>1. ASSUME NEW s \in Sprint, CreateSprint(s)
      PROVE  MembersFound'
  BY <1>1 DEF CreateSprint, Planned, TypeOK, Excluded, TargetsOpen, MembersFound, Completing,
    Exclusive, Shared, In, project, issues, requests
<1>2. ASSUME NEW s \in Sprint, DeleteSprint(s)
      PROVE  MembersFound'
  BY <1>2 DEF DeleteSprint, SprintUnlocked, TypeOK, Excluded, TargetsOpen, MembersFound, Completing,
    Exclusive, Shared, In, project, issues, requests
<1>3. ASSUME NEW order \in Orders, ReorderPlannedSprints(order)
      PROVE  MembersFound'
  BY <1>3 DEF ReorderPlannedSprints, SprintUnlocked, Planned, TypeOK, Excluded, TargetsOpen,
    MembersFound, Completing, Exclusive, Shared, In, project, issues, requests
<1>4. ASSUME SetSprintsEnabled
      PROVE  MembersFound'
  BY <1>4 DEF SetSprintsEnabled, ProjectFree, ProjectReferable, TypeOK, Excluded, TargetsOpen,
    MembersFound, Completing, Exclusive, Shared, In, project, issues, requests
<1>5. ASSUME NEW i \in Issue, Unassign(i)
      PROVE  MembersFound'
  BY SprintAssumption, <1>5 DEF Unassign, TypeOK, Excluded, TargetsOpen, MembersFound, Completing,
    Exclusive, Shared, In, project, issues, requests
<1>6. ASSUME NEW i \in Issue, ChangeStatus(i)
      PROVE  MembersFound'
  BY <1>6 DEF ChangeStatus, Completed, TypeOK, Excluded, TargetsOpen, MembersFound, Completing, Exclusive,
    Shared, In, project, issues, requests
<1>7. ASSUME NEW i \in Issue, DeleteIssue(i)
      PROVE  MembersFound'
  BY <1>7 DEF DeleteIssue, TypeOK, Excluded, TargetsOpen, MembersFound, Completing, Exclusive,
    Shared, In, project, issues, requests
<1>8. ASSUME NEW i \in Issue, RestoreIssue(i)
      PROVE  MembersFound'
  BY <1>8 DEF RestoreIssue, Late, Completed, TypeOK, Excluded, TargetsOpen, MembersFound, Completing, Exclusive,
    Shared, In, project, issues, requests
<1>9. ASSUME NEW t \in Tx, NEW s \in Sprint, BeginStart(t, s)
      PROVE  MembersFound'
  BY <1>9 DEF BeginStart, Goto, TypeOK, Excluded, TargetsOpen, MembersFound, Completing, Exclusive,
    Shared, In, project, issues, requests
<1>10. ASSUME NEW t \in Tx, CommitStart(t)
      PROVE  MembersFound'
  BY <1>10 DEF CommitStart, SprintFree, End, Goto, TypeOK, Excluded, TargetsOpen, MembersFound,
    Completing, Exclusive, Shared, In, project, issues, requests
<1>11. ASSUME NEW t \in Tx, NEW s \in Sprint, BeginComplete(t, s)
      PROVE  MembersFound'
  BY <1>11 DEF BeginComplete, SprintFree, In, Unfinished, Goto, TypeOK, Excluded, TargetsOpen,
    MembersFound, Completing, Exclusive, Shared, project, issues, requests
<1>12. ASSUME NEW t \in Tx, NEW i \in todo[t], RecordMember(t, i)
      PROVE  MembersFound'
  BY <1>12 DEF RecordMember, In, Unfinished, TypeOK, Excluded, TargetsOpen, MembersFound,
    Completing, Exclusive, Shared, project, issues, requests
<1>13. ASSUME NEW t \in Tx, EndMembers(t)
      PROVE  MembersFound'
  BY <1>13 DEF EndMembers, Goto, TypeOK, Excluded, TargetsOpen, MembersFound, Completing, Exclusive,
    Shared, In, project, issues, requests
<1>14. ASSUME NEW t \in Tx, ReadNext(t)
      PROVE  MembersFound'
  BY SprintAssumption, <1>14 DEF ReadNext, In, Unfinished, Planned, StartMoving, TryNext, Goto,
    TypeOK, Excluded, TargetsOpen, MembersFound, Completing, Exclusive, Shared, project, issues,
    requests
<1>15. ASSUME NEW t \in Tx, LockNext(t)
      PROVE  MembersFound'
  BY SprintAssumption, <1>15 DEF LockNext, SprintFree, In, Unfinished, Planned, StartMoving,
    TryNext, Goto, TypeOK, Excluded, TargetsOpen, MembersFound, Completing, Exclusive, Shared,
    project, issues, requests
<1>16. ASSUME NEW t \in Tx, NEW i \in todo[t], MoveOn(t, i)
      PROVE  MembersFound'
  BY <1>16 DEF MoveOn, In, Unfinished, TypeOK, Excluded, TargetsOpen, MembersFound, Completing,
    Exclusive, Shared, project, issues, requests
<1>17. ASSUME NEW t \in Tx, CommitComplete(t)
      PROVE  MembersFound'
  BY SprintAssumption, <1>17 DEF CommitComplete, End, Goto, TypeOK, Excluded, TargetsOpen,
    MembersFound, Completing, Exclusive, Shared, In, project, issues, requests
<1>18. ASSUME NEW t \in Tx, NEW i \in Issue, NEW s \in Sprint, BeginAssign(t, i, s)
      PROVE  MembersFound'
  BY <1>18 DEF BeginAssign, Goto, TypeOK, Excluded, TargetsOpen, MembersFound, Completing,
    Exclusive, Shared, In, project, issues, requests
<1>19. ASSUME NEW t \in Tx, CheckSprint(t)
      PROVE  MembersFound'
  BY <1>19 DEF CheckSprint, Shareable, Goto, TypeOK, Excluded, TargetsOpen, MembersFound,
    Completing, Exclusive, Shared, In, project, issues, requests
<1>20. ASSUME NEW t \in Tx, CommitAssign(t)
      PROVE  MembersFound'
  BY <1>20 DEF CommitAssign, End, Goto, TypeOK, Excluded, TargetsOpen, MembersFound, Completing,
    Exclusive, Shared, In, project, issues, requests
<1>21. ASSUME NEW t \in Tx, Rollback(t)
      PROVE  MembersFound'
  BY SprintAssumption, <1>21 DEF Rollback, End, Goto, TypeOK, Excluded, TargetsOpen, MembersFound,
    Completing, Exclusive, Shared, In, project, issues, requests
<1>22. CASE UNCHANGED vars
  BY <1>22 DEF vars, project, issues, requests, TypeOK, Excluded, TargetsOpen, MembersFound,
    Completing, Exclusive, Shared, In
<1> QED
  BY <1>1, <1>2, <1>3, <1>4, <1>5, <1>6, <1>7, <1>8, <1>9, <1>10, <1>11, <1>12, <1>13, <1>14, <1>15,
    <1>16, <1>17, <1>18, <1>19, <1>20, <1>21, <1>22 DEF Next, Transact

LEMMA NothingLeftBehindStep == TypeOK /\ TypeOK' /\ UnfinishedFound /\ TargetsOpen /\
    NothingLeftBehind /\ [Next]_vars => NothingLeftBehind'
<1> SUFFICES ASSUME TypeOK, TypeOK', UnfinishedFound, TargetsOpen, NothingLeftBehind,
    [Next]_vars PROVE NothingLeftBehind'
  OBVIOUS
<1>1. ASSUME NEW s \in Sprint, CreateSprint(s)
      PROVE  NothingLeftBehind'
  BY <1>1 DEF CreateSprint, Planned, TypeOK, UnfinishedFound, TargetsOpen, NothingLeftBehind,
    Completing, In, Unfinished, project, issues, requests
<1>2. ASSUME NEW s \in Sprint, DeleteSprint(s)
      PROVE  NothingLeftBehind'
  BY <1>2 DEF DeleteSprint, SprintUnlocked, TypeOK, UnfinishedFound, TargetsOpen, NothingLeftBehind,
    Completing, In, Unfinished, project, issues, requests
<1>3. ASSUME NEW order \in Orders, ReorderPlannedSprints(order)
      PROVE  NothingLeftBehind'
  BY <1>3 DEF ReorderPlannedSprints, SprintUnlocked, Planned, TypeOK, UnfinishedFound, TargetsOpen,
    NothingLeftBehind, Completing, In, Unfinished, project, issues, requests
<1>4. ASSUME SetSprintsEnabled
      PROVE  NothingLeftBehind'
  BY <1>4 DEF SetSprintsEnabled, ProjectFree, ProjectReferable, TypeOK, UnfinishedFound,
    TargetsOpen, NothingLeftBehind, Completing, In, Unfinished, project, issues, requests
<1>5. ASSUME NEW i \in Issue, Unassign(i)
      PROVE  NothingLeftBehind'
  BY SprintAssumption, <1>5 DEF Unassign, TypeOK, UnfinishedFound, TargetsOpen, NothingLeftBehind,
    Completing, In, Unfinished, project, issues, requests
<1>6. ASSUME NEW i \in Issue, ChangeStatus(i)
      PROVE  NothingLeftBehind'
  <2> SUFFICES ASSUME NEW s \in Sprint, status'[s] = "completed",
                      NEW j \in Issue, j \in Unfinished(s)'
               PROVE  j \in reopened'
    BY <1>6 DEF NothingLeftBehind, Unfinished, In, TypeOK
  <2>1. UNCHANGED <<status, live, sprint>> /\ reopened \subseteq reopened'
    BY <1>6 DEF ChangeStatus, project
  <2>2. CASE j = i /\ i \in done
    <3>1. Completed(i)
      BY SprintAssumption, <2>1, <2>2 DEF Completed, Unfinished, In
    <3> QED
      BY <1>6, <2>2, <3>1 DEF ChangeStatus
  <2>3. CASE j # i \/ i \notin done
    <3>1. j \in Unfinished(s)
      BY <1>6, <2>1, <2>3 DEF ChangeStatus, Unfinished, In
    <3> QED
      BY <2>1, <3>1 DEF NothingLeftBehind
  <2> QED
    BY <2>2, <2>3
<1>7. ASSUME NEW i \in Issue, DeleteIssue(i)
      PROVE  NothingLeftBehind'
  BY <1>7 DEF DeleteIssue, TypeOK, UnfinishedFound, TargetsOpen, NothingLeftBehind, Completing, In,
    Unfinished, project, issues, requests
<1>8. ASSUME NEW i \in Issue, RestoreIssue(i)
      PROVE  NothingLeftBehind'
  <2> SUFFICES ASSUME NEW s \in Sprint, status'[s] = "completed",
                      NEW j \in Issue, j \in Unfinished(s)'
               PROVE  j \in reopened'
    BY <1>8 DEF NothingLeftBehind, Unfinished, In, TypeOK
  <2>1. UNCHANGED <<status, done, sprint, snapshot>> /\ reopened \subseteq reopened'
    BY <1>8 DEF RestoreIssue, project
  <2>2. CASE j = i
    <3>1. Late(i)
      BY SprintAssumption, <2>1, <2>2 DEF Late, Completed, Unfinished, In
    <3> QED
      BY <1>8, <2>2, <3>1 DEF RestoreIssue
  <2>3. CASE j # i
    <3>1. j \in Unfinished(s)
      BY <1>8, <2>1, <2>3 DEF RestoreIssue, Unfinished, In
    <3> QED
      BY <2>1, <3>1 DEF NothingLeftBehind
  <2> QED
    BY <2>2, <2>3
<1>9. ASSUME NEW t \in Tx, NEW s \in Sprint, BeginStart(t, s)
      PROVE  NothingLeftBehind'
  BY <1>9 DEF BeginStart, Goto, TypeOK, UnfinishedFound, TargetsOpen, NothingLeftBehind, Completing,
    In, Unfinished, project, issues, requests
<1>10. ASSUME NEW t \in Tx, CommitStart(t)
      PROVE  NothingLeftBehind'
  BY <1>10 DEF CommitStart, SprintFree, End, Goto, TypeOK, UnfinishedFound, TargetsOpen,
    NothingLeftBehind, Completing, In, Unfinished, project, issues, requests
<1>11. ASSUME NEW t \in Tx, NEW s \in Sprint, BeginComplete(t, s)
      PROVE  NothingLeftBehind'
  BY <1>11 DEF BeginComplete, SprintFree, In, Unfinished, Goto, TypeOK, UnfinishedFound,
    TargetsOpen, NothingLeftBehind, Completing, project, issues, requests
<1>12. ASSUME NEW t \in Tx, NEW i \in todo[t], RecordMember(t, i)
      PROVE  NothingLeftBehind'
  BY <1>12 DEF RecordMember, In, Unfinished, TypeOK, UnfinishedFound, TargetsOpen,
    NothingLeftBehind, Completing, project, issues, requests
<1>13. ASSUME NEW t \in Tx, EndMembers(t)
      PROVE  NothingLeftBehind'
  BY <1>13 DEF EndMembers, Goto, TypeOK, UnfinishedFound, TargetsOpen, NothingLeftBehind,
    Completing, In, Unfinished, project, issues, requests
<1>14. ASSUME NEW t \in Tx, ReadNext(t)
      PROVE  NothingLeftBehind'
  BY SprintAssumption, <1>14 DEF ReadNext, In, Unfinished, Planned, StartMoving, TryNext, Goto,
    TypeOK, UnfinishedFound, TargetsOpen, NothingLeftBehind, Completing, project, issues, requests
<1>15. ASSUME NEW t \in Tx, LockNext(t)
      PROVE  NothingLeftBehind'
  BY SprintAssumption, <1>15 DEF LockNext, SprintFree, In, Unfinished, Planned, StartMoving,
    TryNext, Goto, TypeOK, UnfinishedFound, TargetsOpen, NothingLeftBehind, Completing, project,
    issues, requests
<1>16. ASSUME NEW t \in Tx, NEW i \in todo[t], MoveOn(t, i)
      PROVE  NothingLeftBehind'
  BY <1>16 DEF MoveOn, In, Unfinished, TypeOK, UnfinishedFound, TargetsOpen, NothingLeftBehind,
    Completing, project, issues, requests
<1>17. ASSUME NEW t \in Tx, CommitComplete(t)
      PROVE  NothingLeftBehind'
  BY SprintAssumption, <1>17 DEF CommitComplete, End, Goto, TypeOK, UnfinishedFound, TargetsOpen,
    NothingLeftBehind, Completing, In, Unfinished, project, issues, requests
<1>18. ASSUME NEW t \in Tx, NEW i \in Issue, NEW s \in Sprint, BeginAssign(t, i, s)
      PROVE  NothingLeftBehind'
  BY <1>18 DEF BeginAssign, Goto, TypeOK, UnfinishedFound, TargetsOpen, NothingLeftBehind,
    Completing, In, Unfinished, project, issues, requests
<1>19. ASSUME NEW t \in Tx, CheckSprint(t)
      PROVE  NothingLeftBehind'
  BY <1>19 DEF CheckSprint, Shareable, Goto, TypeOK, UnfinishedFound, TargetsOpen,
    NothingLeftBehind, Completing, In, Unfinished, project, issues, requests
<1>20. ASSUME NEW t \in Tx, CommitAssign(t)
      PROVE  NothingLeftBehind'
  BY <1>20 DEF CommitAssign, End, Goto, TypeOK, UnfinishedFound, TargetsOpen, NothingLeftBehind,
    Completing, In, Unfinished, project, issues, requests
<1>21. ASSUME NEW t \in Tx, Rollback(t)
      PROVE  NothingLeftBehind'
  BY SprintAssumption, <1>21 DEF Rollback, End, Goto, TypeOK, UnfinishedFound, TargetsOpen,
    NothingLeftBehind, Completing, In, Unfinished, project, issues, requests
<1>22. CASE UNCHANGED vars
  BY <1>22 DEF vars, project, issues, requests, TypeOK, UnfinishedFound, TargetsOpen,
    NothingLeftBehind, Completing, In, Unfinished
<1> QED
  BY <1>1, <1>2, <1>3, <1>4, <1>5, <1>6, <1>7, <1>8, <1>9, <1>10, <1>11, <1>12, <1>13, <1>14, <1>15,
    <1>16, <1>17, <1>18, <1>19, <1>20, <1>21, <1>22 DEF Next, Transact

LEMMA HistoryRecordedStep == TypeOK /\ TypeOK' /\ MembersFound /\ TargetsOpen /\
    HistoryRecorded /\ [Next]_vars => HistoryRecorded'
<1> SUFFICES ASSUME TypeOK, TypeOK', MembersFound, TargetsOpen, HistoryRecorded,
    [Next]_vars PROVE HistoryRecorded'
  OBVIOUS
<1>1. ASSUME NEW s \in Sprint, CreateSprint(s)
      PROVE  HistoryRecorded'
  BY <1>1 DEF CreateSprint, Planned, TypeOK, MembersFound, TargetsOpen, HistoryRecorded, Completing,
    In, project, issues, requests
<1>2. ASSUME NEW s \in Sprint, DeleteSprint(s)
      PROVE  HistoryRecorded'
  BY <1>2 DEF DeleteSprint, SprintUnlocked, TypeOK, MembersFound, TargetsOpen, HistoryRecorded,
    Completing, In, project, issues, requests
<1>3. ASSUME NEW order \in Orders, ReorderPlannedSprints(order)
      PROVE  HistoryRecorded'
  BY <1>3 DEF ReorderPlannedSprints, SprintUnlocked, Planned, TypeOK, MembersFound, TargetsOpen,
    HistoryRecorded, Completing, In, project, issues, requests
<1>4. ASSUME SetSprintsEnabled
      PROVE  HistoryRecorded'
  BY <1>4 DEF SetSprintsEnabled, ProjectFree, ProjectReferable, TypeOK, MembersFound, TargetsOpen,
    HistoryRecorded, Completing, In, project, issues, requests
<1>5. ASSUME NEW i \in Issue, Unassign(i)
      PROVE  HistoryRecorded'
  BY SprintAssumption, <1>5 DEF Unassign, TypeOK, MembersFound, TargetsOpen, HistoryRecorded,
    Completing, In, project, issues, requests
<1>6. ASSUME NEW i \in Issue, ChangeStatus(i)
      PROVE  HistoryRecorded'
  BY <1>6 DEF ChangeStatus, Completed, TypeOK, MembersFound, TargetsOpen, HistoryRecorded, Completing, In,
    project, issues, requests
<1>7. ASSUME NEW i \in Issue, DeleteIssue(i)
      PROVE  HistoryRecorded'
  BY <1>7 DEF DeleteIssue, TypeOK, MembersFound, TargetsOpen, HistoryRecorded, Completing, In,
    project, issues, requests
<1>8. ASSUME NEW i \in Issue, RestoreIssue(i)
      PROVE  HistoryRecorded'
  <2> SUFFICES ASSUME NEW s \in Sprint, status'[s] = "completed",
                      NEW j \in Issue, j \in In(s)'
               PROVE  j \in snapshot'[s] \cup reopened'
    BY <1>8 DEF HistoryRecorded, Unfinished, In, TypeOK
  <2>1. UNCHANGED <<status, done, sprint, snapshot>> /\ reopened \subseteq reopened'
    BY <1>8 DEF RestoreIssue, project
  <2>2. CASE j = i
    <3>1. Late(i)
      BY SprintAssumption, <2>1, <2>2 DEF Late, Completed, Unfinished, In
    <3> QED
      BY <1>8, <2>2, <3>1 DEF RestoreIssue
  <2>3. CASE j # i
    <3>1. j \in In(s)
      BY <1>8, <2>1, <2>3 DEF RestoreIssue, Unfinished, In
    <3> QED
      BY <2>1, <3>1 DEF HistoryRecorded
  <2> QED
    BY <2>2, <2>3
<1>9. ASSUME NEW t \in Tx, NEW s \in Sprint, BeginStart(t, s)
      PROVE  HistoryRecorded'
  BY <1>9 DEF BeginStart, Goto, TypeOK, MembersFound, TargetsOpen, HistoryRecorded, Completing, In,
    project, issues, requests
<1>10. ASSUME NEW t \in Tx, CommitStart(t)
      PROVE  HistoryRecorded'
  BY <1>10 DEF CommitStart, SprintFree, End, Goto, TypeOK, MembersFound, TargetsOpen,
    HistoryRecorded, Completing, In, project, issues, requests
<1>11. ASSUME NEW t \in Tx, NEW s \in Sprint, BeginComplete(t, s)
      PROVE  HistoryRecorded'
  BY <1>11 DEF BeginComplete, SprintFree, In, Unfinished, Goto, TypeOK, MembersFound, TargetsOpen,
    HistoryRecorded, Completing, project, issues, requests
<1>12. ASSUME NEW t \in Tx, NEW i \in todo[t], RecordMember(t, i)
      PROVE  HistoryRecorded'
  BY <1>12 DEF RecordMember, In, Unfinished, TypeOK, MembersFound, TargetsOpen, HistoryRecorded,
    Completing, project, issues, requests
<1>13. ASSUME NEW t \in Tx, EndMembers(t)
      PROVE  HistoryRecorded'
  BY <1>13 DEF EndMembers, Goto, TypeOK, MembersFound, TargetsOpen, HistoryRecorded, Completing, In,
    project, issues, requests
<1>14. ASSUME NEW t \in Tx, ReadNext(t)
      PROVE  HistoryRecorded'
  BY SprintAssumption, <1>14 DEF ReadNext, In, Unfinished, Planned, StartMoving, TryNext, Goto,
    TypeOK, MembersFound, TargetsOpen, HistoryRecorded, Completing, project, issues, requests
<1>15. ASSUME NEW t \in Tx, LockNext(t)
      PROVE  HistoryRecorded'
  BY SprintAssumption, <1>15 DEF LockNext, SprintFree, In, Unfinished, Planned, StartMoving,
    TryNext, Goto, TypeOK, MembersFound, TargetsOpen, HistoryRecorded, Completing, project, issues,
    requests
<1>16. ASSUME NEW t \in Tx, NEW i \in todo[t], MoveOn(t, i)
      PROVE  HistoryRecorded'
  BY <1>16 DEF MoveOn, In, Unfinished, TypeOK, MembersFound, TargetsOpen, HistoryRecorded,
    Completing, project, issues, requests
<1>17. ASSUME NEW t \in Tx, CommitComplete(t)
      PROVE  HistoryRecorded'
  BY SprintAssumption, <1>17 DEF CommitComplete, End, Goto, TypeOK, MembersFound, TargetsOpen,
    HistoryRecorded, Completing, In, project, issues, requests
<1>18. ASSUME NEW t \in Tx, NEW i \in Issue, NEW s \in Sprint, BeginAssign(t, i, s)
      PROVE  HistoryRecorded'
  BY <1>18 DEF BeginAssign, Goto, TypeOK, MembersFound, TargetsOpen, HistoryRecorded, Completing,
    In, project, issues, requests
<1>19. ASSUME NEW t \in Tx, CheckSprint(t)
      PROVE  HistoryRecorded'
  BY <1>19 DEF CheckSprint, Shareable, Goto, TypeOK, MembersFound, TargetsOpen, HistoryRecorded,
    Completing, In, project, issues, requests
<1>20. ASSUME NEW t \in Tx, CommitAssign(t)
      PROVE  HistoryRecorded'
  BY <1>20 DEF CommitAssign, End, Goto, TypeOK, MembersFound, TargetsOpen, HistoryRecorded,
    Completing, In, project, issues, requests
<1>21. ASSUME NEW t \in Tx, Rollback(t)
      PROVE  HistoryRecorded'
  BY SprintAssumption, <1>21 DEF Rollback, End, Goto, TypeOK, MembersFound, TargetsOpen,
    HistoryRecorded, Completing, In, project, issues, requests
<1>22. CASE UNCHANGED vars
  BY <1>22 DEF vars, project, issues, requests, TypeOK, MembersFound, TargetsOpen, HistoryRecorded,
    Completing, In
<1> QED
  BY <1>1, <1>2, <1>3, <1>4, <1>5, <1>6, <1>7, <1>8, <1>9, <1>10, <1>11, <1>12, <1>13, <1>14, <1>15,
    <1>16, <1>17, <1>18, <1>19, <1>20, <1>21, <1>22 DEF Next, Transact

LEMMA MovesStep == TypeOK /\ TargetsOpen /\ [Next]_vars => MovesToOpenSprint
<1> SUFFICES ASSUME TypeOK, TargetsOpen, [Next]_vars PROVE MovesToOpenSprint
  OBVIOUS
<1>1. ASSUME NEW s \in Sprint, CreateSprint(s)
      PROVE  MovesToOpenSprint
  BY <1>1 DEF CreateSprint, MovesToOpenSprint, project, issues, requests
<1>2. ASSUME NEW s \in Sprint, DeleteSprint(s)
      PROVE  MovesToOpenSprint
  BY <1>2 DEF DeleteSprint, MovesToOpenSprint, project, issues, requests
<1>3. ASSUME NEW order \in Orders, ReorderPlannedSprints(order)
      PROVE  MovesToOpenSprint
  BY <1>3 DEF ReorderPlannedSprints, MovesToOpenSprint, project, issues, requests
<1>4. ASSUME SetSprintsEnabled
      PROVE  MovesToOpenSprint
  BY <1>4 DEF SetSprintsEnabled, MovesToOpenSprint, project, issues, requests
<1>5. ASSUME NEW i \in Issue, Unassign(i)
      PROVE  MovesToOpenSprint
  BY <1>5 DEF Unassign, MovesToOpenSprint, project, issues, requests
<1>6. ASSUME NEW i \in Issue, ChangeStatus(i)
      PROVE  MovesToOpenSprint
  BY <1>6 DEF ChangeStatus, MovesToOpenSprint, project, issues, requests
<1>7. ASSUME NEW i \in Issue, DeleteIssue(i)
      PROVE  MovesToOpenSprint
  BY <1>7 DEF DeleteIssue, MovesToOpenSprint, project, issues, requests
<1>8. ASSUME NEW i \in Issue, RestoreIssue(i)
      PROVE  MovesToOpenSprint
  BY <1>8 DEF RestoreIssue, MovesToOpenSprint, project, issues, requests
<1>9. ASSUME NEW t \in Tx, NEW s \in Sprint, BeginStart(t, s)
      PROVE  MovesToOpenSprint
  BY <1>9 DEF BeginStart, Goto, MovesToOpenSprint, project, issues, requests
<1>10. ASSUME NEW t \in Tx, CommitStart(t)
      PROVE  MovesToOpenSprint
  BY <1>10 DEF CommitStart, End, Goto, MovesToOpenSprint, project, issues, requests
<1>11. ASSUME NEW t \in Tx, NEW s \in Sprint, BeginComplete(t, s)
      PROVE  MovesToOpenSprint
  BY <1>11 DEF BeginComplete, Goto, MovesToOpenSprint, project, issues, requests
<1>12. ASSUME NEW t \in Tx, NEW i \in todo[t], RecordMember(t, i)
      PROVE  MovesToOpenSprint
  BY <1>12 DEF RecordMember, MovesToOpenSprint, project, issues, requests
<1>13. ASSUME NEW t \in Tx, EndMembers(t)
      PROVE  MovesToOpenSprint
  BY <1>13 DEF EndMembers, Goto, MovesToOpenSprint, project, issues, requests
<1>14. ASSUME NEW t \in Tx, ReadNext(t)
      PROVE  MovesToOpenSprint
  BY <1>14 DEF ReadNext, StartMoving, TryNext, Goto, MovesToOpenSprint, project, issues, requests
<1>15. ASSUME NEW t \in Tx, LockNext(t)
      PROVE  MovesToOpenSprint
  BY <1>15 DEF LockNext, StartMoving, TryNext, Goto, MovesToOpenSprint, project, issues, requests
<1>16. ASSUME NEW t \in Tx, NEW i \in todo[t], MoveOn(t, i)
      PROVE  MovesToOpenSprint
  BY <1>16 DEF MoveOn, MovesToOpenSprint, project, issues, requests
<1>17. ASSUME NEW t \in Tx, CommitComplete(t)
      PROVE  MovesToOpenSprint
  BY <1>17 DEF CommitComplete, End, Goto, TypeOK, TargetsOpen, Completing, MovesToOpenSprint,
    project, issues, requests
<1>18. ASSUME NEW t \in Tx, NEW i \in Issue, NEW s \in Sprint, BeginAssign(t, i, s)
      PROVE  MovesToOpenSprint
  BY <1>18 DEF BeginAssign, Goto, MovesToOpenSprint, project, issues, requests
<1>19. ASSUME NEW t \in Tx, CheckSprint(t)
      PROVE  MovesToOpenSprint
  BY <1>19 DEF CheckSprint, Goto, MovesToOpenSprint, project, issues, requests
<1>20. ASSUME NEW t \in Tx, CommitAssign(t)
      PROVE  MovesToOpenSprint
  BY <1>20 DEF CommitAssign, End, Goto, TypeOK, TargetsOpen, Completing, MovesToOpenSprint, project,
    issues, requests
<1>21. ASSUME NEW t \in Tx, Rollback(t)
      PROVE  MovesToOpenSprint
  BY <1>21 DEF Rollback, End, Goto, MovesToOpenSprint, project, issues, requests
<1>22. CASE UNCHANGED vars
  BY <1>22 DEF vars, issues, MovesToOpenSprint
<1> QED
  BY <1>1, <1>2, <1>3, <1>4, <1>5, <1>6, <1>7, <1>8, <1>9, <1>10, <1>11, <1>12, <1>13, <1>14, <1>15,
    <1>16, <1>17, <1>18, <1>19, <1>20, <1>21, <1>22 DEF Next, Transact

-------------------------------------------------------------------------------
(* The theorems *)

SprintInv ==
    /\ TypeOK
    /\ StartsInMode
    /\ Excluded
    /\ TargetsOpen
    /\ UnfinishedFound
    /\ MembersFound
    /\ NothingLeftBehind
    /\ HistoryRecorded

LEMMA SprintInvInit == Init => SprintInv
<1> SUFFICES ASSUME Init PROVE SprintInv
  OBVIOUS
<1>1. TypeOK
  BY TypeInit
<1>2. \A t \in Tx : pc[t] = "idle"
  BY DEF Init
<1>3. \A s \in Sprint : status[s] = "none"
  BY DEF Init
<1>4. StartsInMode /\ NothingLeftBehind /\ HistoryRecorded
  BY <1>2, <1>3 DEF StartsInMode, ActiveInSprintMode, NothingLeftBehind, HistoryRecorded
<1>5. Excluded
  BY <1>2 DEF Excluded, Exclusive, Completing, Shared
<1>6. TargetsOpen /\ UnfinishedFound /\ MembersFound
  BY <1>2 DEF TargetsOpen, Completing, UnfinishedFound, MembersFound
<1> QED
  BY <1>1, <1>4, <1>5, <1>6 DEF SprintInv

LEMMA SprintInvStep == SprintInv /\ [Next]_vars => SprintInv'
<1> SUFFICES ASSUME SprintInv, [Next]_vars PROVE SprintInv'
  OBVIOUS
<1>1. TypeOK'
  BY TypeStep DEF SprintInv
<1>2. StartsInMode' /\ Excluded'
  BY <1>1, StartsInModeStep, ExcludedStep DEF SprintInv
<1>3. TargetsOpen'
  BY <1>1, TargetsOpenStep DEF SprintInv
<1>4. UnfinishedFound' /\ MembersFound'
  BY <1>1, UnfinishedFoundStep, MembersFoundStep DEF SprintInv
<1>5. NothingLeftBehind' /\ HistoryRecorded'
  BY <1>1, NothingLeftBehindStep, HistoryRecordedStep DEF SprintInv
<1> QED
  BY <1>1, <1>2, <1>3, <1>4, <1>5 DEF SprintInv

LEMMA SprintInvAlways == Spec => []SprintInv
  BY SprintInvInit, SprintInvStep, PTL DEF Spec

\* Every reachable state of the sprint transactions is well typed, and exactly
\* the planned sprints have a rank.
THEOREM SprintsTyped == Spec => []TypeOK
<1>1. SprintInv => TypeOK
  BY DEF SprintInv
<1> QED
  BY SprintInvAlways, <1>1, PTL

\* The lock on the project's row keeps "turn sprints off" and "start a sprint"
\* apart: with any number of requests, an active sprint implies sprint mode.
THEOREM ActiveOnlyInSprintMode == Spec => []ActiveInSprintMode
<1>1. SprintInv => ActiveInSprintMode
  BY DEF SprintInv, StartsInMode
<1> QED
  BY SprintInvAlways, <1>1, PTL

\* FOR SHARE against FOR UPDATE on the sprint keeps assignments out of a sprint
\* that is being completed: no unfinished work stays in it.
THEOREM NoWorkLeftBehind == Spec => []NothingLeftBehind
<1>1. SprintInv => NothingLeftBehind
  BY DEF SprintInv
<1> QED
  BY SprintInvAlways, <1>1, PTL

\* A completed sprint's snapshot has every issue left in the sprint, except
\* those restored when the completion had begun.
THEOREM HistoryIsRecorded == Spec => []HistoryRecorded
<1>1. SprintInv => HistoryRecorded
  BY DEF SprintInv
<1> QED
  BY SprintInvAlways, <1>1, PTL

\* Whoever moves an issue to a sprint, that sprint is planned or active then.
THEOREM OnlyOpenSprintsGain == Spec => OpenSprintsGainIssues
<1>1. SprintInv /\ [Next]_vars => [MovesToOpenSprint]_vars
  BY MovesStep DEF SprintInv
<1> QED
  BY SprintInvAlways, <1>1, PTL DEF Spec, OpenSprintsGainIssues

==============================================================================
