---------------------------- MODULE ProjectsProofs ----------------------------
(* Proofs about the settings of a project in Permissions, the order of its     *)
(* pages in ContextPages and the checks of its doors in Doors, for any number  *)
(* of concurrent requests and of changes while a request is under way; and     *)
(* about the run that joins them with the repeat schedules.                    *)
EXTENDS MCProjects, RepeatSchedulesProofs, FiniteSetTheorems, TLAPS

-------------------------------------------------------------------------------
(* A grant checks the block, and a block the role, before it commits: what it  *)
(* read must still be so then.  FOR UPDATE makes it so by leaving one of them  *)
(* at a time.                                                                  *)

OneHoldsTheProject ==
    \A s, q \in Setter : setting[s] # "idle" /\ setting[q] # "idle" => s = q

GranteeNotBlocked ==
    \A s \in Setter : setting[s] \in {"readonly", "member"} => ~project.blocked

SettingsInv ==
    /\ PermissionsTypeOK
    /\ BlockedAreNoMembers
    /\ OneHoldsTheProject
    /\ GranteeNotBlocked

LEMMA SettingsInvInit == SettingsInit => SettingsInv
  BY DEF SettingsInit, SettingsInv, PermissionsTypeOK, BlockedAreNoMembers,
         OneHoldsTheProject, GranteeNotBlocked, Project, Mode, Role

LEMMA SettingsInvStep == SettingsInv /\ [SettingsNext]_permissionVars => SettingsInv'
<1> SUFFICES ASSUME SettingsInv, [SettingsNext]_permissionVars PROVE SettingsInv'
  OBVIOUS
<1> USE DEF SettingsInv, PermissionsTypeOK, BlockedAreNoMembers,
            OneHoldsTheProject, GranteeNotBlocked, Project
<1>1. ASSUME NEW s \in Setter, NEW role \in {"readonly", "member"}, BeginGrant(s, role)
      PROVE  SettingsInv'
  BY <1>1 DEF BeginGrant, ProjectUnlocked
<1>2. ASSUME NEW s \in Setter, CommitGrant(s) PROVE SettingsInv'
  <2>1. setting[s] \in {"readonly", "member"} /\ ~project.blocked
    BY <1>2 DEF CommitGrant, Role
  <2>2. project' = [project EXCEPT !.role = setting[s]]
    BY <1>2 DEF CommitGrant, Granted
  <2>3. setting' = [setting EXCEPT ![s] = "idle"]
    BY <1>2 DEF CommitGrant
  <2> QED
    BY <2>1, <2>2, <2>3 DEF Role
<1>3. ASSUME NEW s \in Setter, BeginBlock(s) PROVE SettingsInv'
  BY <1>3 DEF BeginBlock, ProjectUnlocked
<1>4. ASSUME NEW s \in Setter, CommitBlock(s) PROVE SettingsInv'
  <2>1. \A q \in Setter : setting'[q] = "idle"
    BY <1>4 DEF CommitBlock
  <2> QED
    BY <1>4, <2>1 DEF CommitBlock, Blocked, Role
<1>5. ASSUME NEW s \in Setter, RollBack(s) PROVE SettingsInv'
  BY <1>5 DEF RollBack
<1>6. ASSUME RevokeProjectAccess PROVE SettingsInv'
  BY <1>6 DEF RevokeProjectAccess, Revoked, Role
<1>7. ASSUME UnblockProjectUser PROVE SettingsInv'
  BY <1>7 DEF UnblockProjectUser, Unblocked
<1>8. ASSUME NEW mode \in Mode, UpdateProjectAccessMode(mode) PROVE SettingsInv'
  BY <1>8 DEF UpdateProjectAccessMode, InMode
<1>9. CASE UNCHANGED permissionVars
  BY <1>9 DEF permissionVars
<1> QED
  BY <1>1, <1>2, <1>3, <1>4, <1>5, <1>6, <1>7, <1>8, <1>9 DEF SettingsNext

-------------------------------------------------------------------------------
\* The invariant of the transactions that change members and blocks, for any
\* number of them (internal/store/permissions.go).
THEOREM SettingsInvAlways == SettingsSpec => []SettingsInv
<1>1. SettingsInit => SettingsInv
  BY SettingsInvInit
<1>2. SettingsInv /\ [SettingsNext]_permissionVars => SettingsInv'
  BY SettingsInvStep
<1> QED
  BY <1>1, <1>2, PTL DEF SettingsSpec

\* However many grants, revocations and blocks race, a user who is blocked in a
\* project is never left one of its members.
THEOREM BlockedAreNeverMembers == SettingsSpec => []BlockedAreNoMembers
<1>1. SettingsInv => BlockedAreNoMembers
  BY DEF SettingsInv
<1> QED
  BY SettingsInvAlways, <1>1, PTL

-------------------------------------------------------------------------------
(* The order of the context pages *)

Edit == [stage : {"free", "unlinked", "page", "project", "shifted"},
         page : Page \cup {NoPage}, at : Int, target : Int, rows : SUBSET Page]

PagesTyped ==
    /\ position \in [Page -> Int] /\ \A p \in Page : position[p] >= Absent
    /\ edit \in [Editor -> Edit]

\* The pages of the project are numbered from one without gap or duplicate.
Numbered(at, n) ==
    /\ \A p, q \in Page : at[p] > 0 /\ at[p] = at[q] => p = q
    /\ \A p \in Page : at[p] <= n
    /\ \A v \in 1..n : \E p \in Page : at[p] = v

\* The page an editor has locked stays where it was read.
Locked == {"page", "project", "shifted"}
PageHeld ==
    \A e \in Editor : edit[e].stage \in Locked =>
      /\ edit[e].page \in Page /\ position[edit[e].page] = edit[e].at /\ edit[e].at >= 0
      /\ \A f \in Editor \ {e} : ~Locks(f, edit[e].page) /\ edit[e].page \notin edit[f].rows

\* Only one editor at a time holds the project, and pages move no further than
\* there are pages.
ProjectHeld ==
    /\ \A e, f \in Editor : HoldsProject(e) /\ HoldsProject(f) => e = f
    /\ \A e \in Editor :
         /\ edit[e].target = Absent \/ (edit[e].target > 0 /\ edit[e].at > 0)
         /\ edit[e].stage = "unlinked" => edit[e].target = Absent
         /\ edit[e].stage = "project" => edit[e].at > 0
         /\ HoldsProject(e) => edit[e].target <= count

\* The rows an editor is renumbering are those between the two positions.
RowsBetween ==
    \A e \in Editor :
      edit[e].rows = IF edit[e].stage = "shifted" /\ edit[e].at > 0
                       THEN Renumbered(edit[e].page, edit[e].at, edit[e].target) ELSE {}

PagesInv == PagesTyped /\ Numbered(position, count) /\ PageHeld /\ ProjectHeld /\ RowsBetween

LEMMA CountNat == count \in Nat /\ IsFiniteSet(Positioned)
<1>1. Positioned \in SUBSET Page
  BY DEF Positioned
<1> QED
  BY <1>1, PagesAssumption, FS_Subset, FS_CardinalityType DEF count

LEMMA PagesInvInit == PagesInit => PagesInv
<1> SUFFICES ASSUME PagesInit PROVE PagesInv
  OBVIOUS
<1>1. Positioned = {} /\ count = 0
  <2>1. Positioned = {}
    BY DEF PagesInit, Positioned, Absent
  <2> QED
    BY <2>1, FS_EmptySet DEF count
<1>2. Numbered(position, count)
  BY <1>1 DEF PagesInit, Numbered, Absent
<1>3. \A e \in Editor : edit[e] = Free
  BY DEF PagesInit
<1>4. PagesTyped
  BY DEF PagesInit, PagesTyped, Edit, Free, Absent
<1>5. \A e \in Editor : /\ edit[e].stage = "free" /\ edit[e].target = Absent
                       /\ edit[e].rows = {} /\ ~HoldsProject(e)
  BY <1>3 DEF Free, HoldsProject
<1>6. PageHeld /\ RowsBetween
  BY <1>5 DEF PageHeld, RowsBetween, Locked
<1>7. ProjectHeld
  BY <1>5 DEF ProjectHeld
<1> QED
  BY <1>2, <1>4, <1>6, <1>7 DEF PagesInv

-------------------------------------------------------------------------------
(* Renumbering *)

\* A page moved up or down, and those between shifted by one.
LEMMA MovedNumbered ==
    ASSUME PagesTyped, Numbered(position, count), NEW page \in Page, NEW to \in 1..count,
           position[page] > 0
    PROVE  LET to2 == Moved(page, position[page], to, Renumbered(page, position[page], to)) IN
           /\ Numbered(to2, count)
           /\ to2 \in [Page -> Int]
           /\ \A p \in Page : to2[p] > 0 <=> position[p] > 0
<1> DEFINE from == position[page]
           rows == Renumbered(page, from, to)
           new == Moved(page, from, to, rows)
<1>0. count \in Nat /\ from \in 1..count
  BY CountNat DEF PagesTyped, Numbered
<1>1. \A p \in Page : p \in rows <=>
        /\ p # page /\ position[p] > 0
        /\ IF to < from THEN position[p] >= to /\ position[p] < from
                        ELSE position[p] > from /\ position[p] <= to
  BY <1>0 DEF Renumbered, Positioned, Absent, PagesTyped
<1>2. /\ new \in [Page -> Int]
      /\ \A p \in Page : new[p] = IF from = to THEN position[p]
                                  ELSE IF p = page THEN to
                                  ELSE IF p \in rows THEN position[p] + (IF to < from THEN 1 ELSE -1)
                                  ELSE position[p]
  BY <1>0 DEF Moved, Placed, Shifted, Parked, PagesTyped
<1> HIDE DEF rows, new
<1> USE DEF PagesTyped
<1>3. ASSUME NEW p \in Page PROVE new[p] <= count /\ (new[p] > 0 <=> position[p] > 0)
  <2>1. position[p] \in Int /\ position[p] <= count
    BY DEF Numbered
  <2>2. CASE p \in rows
    BY <2>1, <2>2, <1>0, <1>1, <1>2
  <2>3. CASE p \notin rows
    BY <2>1, <2>3, <1>0, <1>2
  <2> QED
    BY <2>2, <2>3
<1>4. ASSUME NEW p \in Page, NEW q \in Page, new[p] > 0, new[p] = new[q] PROVE p = q
  <2>1. /\ position[p] \in Int /\ position[q] \in Int /\ position[page] = from
        /\ position[p] > 0 /\ position[q] > 0
    BY <1>3, <1>4
  <2>2. \A o \in {p, q} : position[o] = from => o = page
    BY <2>1 DEF Numbered
  <2>3. position[p] = position[q] => p = q
    BY <2>1 DEF Numbered
  <2>4. CASE p \in rows
    BY <1>4, <2>1, <2>2, <2>3, <2>4, <1>0, <1>1, <1>2
  <2>5. CASE p \notin rows
    BY <1>4, <2>1, <2>2, <2>3, <2>5, <1>0, <1>1, <1>2
  <2> QED
    BY <2>4, <2>5
<1>5. ASSUME NEW v \in 1..count PROVE \E p \in Page : new[p] = v
  <2>1. CASE from = to
    BY <2>1, <1>2 DEF Numbered
  <2>2. CASE from # to /\ v = to
    BY <2>2, <1>2
  <2>3. CASE to < from /\ v # to
    <3>1. PICK p \in Page : position[p] = IF v > to /\ v <= from THEN v - 1 ELSE v
      BY <2>3, <1>0 DEF Numbered
    <3> QED
      BY <2>3, <3>1, <1>0, <1>1, <1>2 DEF Numbered
  <2>4. CASE from < to /\ v # to
    <3>1. PICK p \in Page : position[p] = IF v >= from /\ v < to THEN v + 1 ELSE v
      BY <2>4, <1>0 DEF Numbered
    <3> QED
      BY <2>4, <3>1, <1>0, <1>1, <1>2 DEF Numbered
  <2> QED
    BY <2>1, <2>2, <2>3, <2>4, <1>0
<1>6. Numbered(new, count)
  BY <1>3, <1>4, <1>5 DEF Numbered
<1> QED
  BY <1>2, <1>3, <1>6 DEF new, rows

\* The pages above a deleted one move down by one.
LEMMA ClosedNumbered ==
    ASSUME PagesTyped, Numbered(position, count), NEW page \in Page, position[page] > 0
    PROVE  LET new == Closed(page, Renumbered(page, position[page], Absent)) IN
           /\ Numbered(new, count - 1)
           /\ new \in [Page -> Int]
           /\ \A p \in Page : /\ new[p] > 0 <=> position[p] > 0 /\ p # page
                              /\ new[p] >= Absent
<1> DEFINE from == position[page]
           rows == Renumbered(page, from, Absent)
           new == Closed(page, rows)
<1>0. count \in Nat /\ from \in 1..count
  BY CountNat DEF PagesTyped, Numbered
<1>1. \A p \in Page : p \in rows <=> p # page /\ position[p] > from
  BY <1>0 DEF Renumbered, Positioned, Absent, PagesTyped
<1>2. /\ new \in [Page -> Int]
      /\ \A p \in Page : new[p] = IF p = page THEN -1
                                  ELSE IF p \in rows THEN position[p] - 1 ELSE position[p]
  BY <1>0, <1>1 DEF Closed, PagesTyped, Absent
<1> HIDE DEF rows, new
<1> USE DEF PagesTyped
<1>3. ASSUME NEW p \in Page
      PROVE  /\ new[p] <= count - 1 /\ new[p] >= Absent
             /\ new[p] > 0 <=> position[p] > 0 /\ p # page
  <2>1. position[p] \in Int /\ position[p] <= count /\ position[p] >= -1
    BY DEF Numbered, Absent
  <2>2. p # page => position[p] # from \/ from <= 0
    BY DEF Numbered
  <2>3. CASE p = page
    BY <2>3, <1>0, <1>2 DEF Absent
  <2>4. CASE p # page /\ p \in rows
    BY <2>1, <2>4, <1>0, <1>1, <1>2 DEF Absent
  <2>5. CASE p # page /\ p \notin rows
    BY <2>1, <2>2, <2>5, <1>0, <1>1, <1>2 DEF Absent
  <2> QED
    BY <2>3, <2>4, <2>5
<1>4. \A p, q \in Page : new[p] > 0 /\ new[p] = new[q] => p = q
  BY <1>0, <1>1, <1>2 DEF Numbered
<1>5. ASSUME NEW v \in 1..count - 1 PROVE \E p \in Page : new[p] = v
  <2>1. PICK p \in Page : position[p] = IF v >= from THEN v + 1 ELSE v
    BY <1>0 DEF Numbered
  <2> QED
    BY <2>1, <1>0, <1>1, <1>2
<1>6. Numbered(new, count - 1)
  BY <1>3, <1>4, <1>5 DEF Numbered
<1> QED
  BY <1>2, <1>3, <1>6 DEF new, rows
-------------------------------------------------------------------------------
(* Editors *)

\* What an editor may become while the others go on.
Fits(e, new) ==
    /\ new \in Edit
    /\ new.stage \in Locked =>
         /\ new.page \in Page /\ position[new.page] = new.at /\ new.at >= 0
         /\ \A f \in Editor \ {e} : ~Locks(f, new.page) /\ new.page \notin edit[f].rows
    /\ new.stage = "free" => new.page = NoPage
    /\ \A f \in Editor \ {e} : edit[f].stage \in Locked => edit[f].page \notin new.rows
    /\ new.target = Absent \/ (new.target > 0 /\ new.at > 0)
    /\ new.stage = "unlinked" => new.target = Absent
    /\ new.stage = "project" => new.at > 0
    /\ new.stage \in {"project", "shifted"} /\ new.at > 0 =>
         new.target <= count /\ \A f \in Editor \ {e} : ~HoldsProject(f)
    /\ new.rows = IF new.stage = "shifted" /\ new.at > 0
                    THEN Renumbered(new.page, new.at, new.target) ELSE {}

LEMMA EditKeeps ==
    ASSUME PagesInv, NEW e \in Editor, NEW new, Fits(e, new),
           edit' = [edit EXCEPT ![e] = new], UNCHANGED position
    PROVE  PagesInv'
<1>1. edit'[e] = new /\ \A f \in Editor \ {e} : edit'[f] = edit[f]
  BY DEF PagesInv, PagesTyped
<1>2. PagesTyped' /\ Numbered(position, count)'
  BY DEF PagesInv, PagesTyped, Fits, Numbered, count, Positioned
<1>3. PageHeld'
  <2> SUFFICES ASSUME NEW f \in Editor, edit'[f].stage \in Locked
               PROVE  (/\ edit[f].page \in Page /\ position[edit[f].page] = edit[f].at
                       /\ edit[f].at >= 0
                       /\ \A g \in Editor \ {f} :
                            ~Locks(g, edit[f].page) /\ edit[f].page \notin edit[g].rows)'
    BY DEF PageHeld
  <2>1. CASE f = e
    BY <2>1, <1>1 DEF Fits, Locks
  <2>2. CASE f # e
    <3>1. edit'[f] = edit[f]
      BY <2>2, <1>1
    <3>2. /\ edit[f].page \in Page /\ position[edit[f].page] = edit[f].at /\ edit[f].at >= 0
          /\ \A g \in Editor \ {f} : ~Locks(g, edit[f].page) /\ edit[f].page \notin edit[g].rows
      BY <3>1 DEF PagesInv, PageHeld
    <3>3. edit[f].page \notin new.rows
      BY <2>2, <3>1 DEF Fits
    <3>4. new.page = edit[f].page => new.stage = "unlinked"
      <4>1. new.stage \in Locked => ~Locks(f, new.page)
        BY <2>2 DEF Fits
      <4>2. edit[f].stage # "unlinked"
        BY <3>1 DEF Locked
      <4>3. new.stage \in Locked \/ new.stage \in {"free", "unlinked"}
        BY DEF Fits, Edit, Locked
      <4> QED
        BY <4>1, <4>2, <4>3, <3>2, PagesAssumption DEF Locks, Fits
    <3> QED
      BY <1>1, <2>2, <3>1, <3>2, <3>3, <3>4 DEF Locks
  <2> QED
    BY <2>1, <2>2
<1>4. ProjectHeld'
  <2>1. count' = count
    BY DEF count, Positioned
  <2>2. \A f \in Editor \ {e} : HoldsProject(f)' = HoldsProject(f)
    BY <1>1 DEF HoldsProject
  <2>3. HoldsProject(e)' <=> new.stage \in {"project", "shifted"} /\ new.at > 0
    BY <1>1 DEF HoldsProject
  <2>4. ASSUME NEW f \in Editor, NEW g \in Editor, HoldsProject(f)', HoldsProject(g)'
        PROVE  f = g
    BY <2>2, <2>3, <2>4 DEF Fits, PagesInv, ProjectHeld
  <2>5. ASSUME NEW f \in Editor
        PROVE  /\ edit'[f].target = Absent \/ (edit'[f].target > 0 /\ edit'[f].at > 0)
               /\ edit'[f].stage = "unlinked" => edit'[f].target = Absent
               /\ edit'[f].stage = "project" => edit'[f].at > 0
               /\ HoldsProject(f)' => edit'[f].target <= count
    BY <1>1, <2>2, <2>3 DEF Fits, PagesInv, ProjectHeld
  <2> QED
    BY <2>1, <2>4, <2>5 DEF ProjectHeld
<1>5. RowsBetween'
  <2>1. \A q, a, b : Renumbered(q, a, b)' = Renumbered(q, a, b)
    BY DEF Renumbered, Positioned
  <2> QED
    BY <1>1, <2>1 DEF Fits, PagesInv, RowsBetween
<1> QED
  BY <1>2, <1>3, <1>4, <1>5 DEF PagesInv

\* An editor that holds nothing fits in anywhere.
LEMMA FreeFits == ASSUME NEW e \in Editor PROVE Fits(e, Free)
<1>1. /\ Free.stage = "free" /\ Free.page = NoPage /\ Free.at = Absent /\ Free.target = Absent
      /\ Free.rows = {} /\ Free \in Edit
  BY DEF Free, Edit, Absent
<1> QED
  BY <1>1 DEF Fits, Absent, Locked

LEMMA LockPageKeeps ==
    ASSUME PagesInv, NEW e \in Editor, NEW p \in Page, NEW target \in Int, LockPage(e, p, target),
           target = Absent \/ (target > 0 /\ position[p] > 0)
    PROVE  PagesInv'
<1> DEFINE new == [stage |-> "page", page |-> p, at |-> position[p], target |-> target,
                   rows |-> {}]
<1>1. /\ edit' = [edit EXCEPT ![e] = new] /\ UNCHANGED position
      /\ position[p] # Absent /\ RowFree(p, e)
  BY DEF LockPage, Existing
<1>2. /\ new \in Edit /\ new.stage = "page" /\ new.page = p /\ new.at = position[p]
      /\ new.target = target /\ new.rows = {}
  BY DEF Edit, PagesInv, PagesTyped
<1> HIDE DEF new
<1>3. position[p] >= 0
  BY <1>1 DEF PagesInv, PagesTyped, Absent
<1>4. Fits(e, new)
  BY <1>1, <1>2, <1>3 DEF Fits, RowFree, Locked
<1> QED
  BY <1>1, <1>4, EditKeeps

LEMMA LockProjectKeeps ==
    ASSUME PagesInv, NEW e \in Editor, LockProject(e) PROVE PagesInv'
<1>1. /\ edit[e].stage = "page" /\ UNCHANGED position
      /\ edit[e].at > 0 => \A f \in Editor \ {e} : ~HoldsProject(f)
  BY DEF LockProject, ProjectFree
<1>2. CASE edit[e].target <= count
  <2> DEFINE new == [edit[e] EXCEPT !.stage = IF edit[e].at > 0 THEN "project" ELSE "shifted"]
  <2>1. edit' = [edit EXCEPT ![e] = new]
    BY <1>2 DEF LockProject
  <2>2. /\ new \in Edit /\ new.stage = IF edit[e].at > 0 THEN "project" ELSE "shifted"
        /\ new.page = edit[e].page /\ new.at = edit[e].at /\ new.target = edit[e].target
        /\ new.rows = edit[e].rows
    BY DEF PagesInv, PagesTyped, Edit
  <2> HIDE DEF new
  <2>3. edit[e].rows = {}
    BY <1>1 DEF PagesInv, RowsBetween
  <2>4. Fits(e, new)
    BY <1>1, <1>2, <2>2, <2>3 DEF Fits, PagesInv, PageHeld, ProjectHeld, Locked
  <2> QED
    BY <1>1, <2>1, <2>4, EditKeeps
<1>3. CASE ~(edit[e].target <= count)
  BY <1>1, <1>3, FreeFits, EditKeeps DEF LockProject
<1> QED
  BY <1>2, <1>3

LEMMA ShiftRowsKeeps ==
    ASSUME PagesInv, NEW e \in Editor, ShiftRows(e) PROVE PagesInv'
<1> DEFINE between == Renumbered(edit[e].page, edit[e].at, edit[e].target)
           new == [edit[e] EXCEPT !.stage = "shifted", !.rows = between]
<1>1. /\ edit[e].stage = "project" /\ UNCHANGED position
      /\ \A p \in between : RowFree(p, e)
      /\ edit' = [edit EXCEPT ![e] = new]
  BY DEF ShiftRows
<1>2. /\ new \in Edit /\ new.stage = "shifted" /\ new.page = edit[e].page /\ new.at = edit[e].at
      /\ new.target = edit[e].target /\ new.rows = between
  <2>1. between \in SUBSET Page
    BY DEF Renumbered, Positioned
  <2> HIDE DEF between
  <2> QED
    BY <2>1 DEF PagesInv, PagesTyped, Edit
<1> HIDE DEF new
<1>3. edit[e].at > 0
  BY <1>1 DEF PagesInv, ProjectHeld
<1>4. HoldsProject(e)
  BY <1>1, <1>3 DEF HoldsProject
<1>5. \A f \in Editor \ {e} : edit[f].stage \in Locked => edit[f].page \notin between
  BY <1>1 DEF RowFree, Locks, Locked
<1>6. Fits(e, new)
  BY <1>1, <1>2, <1>3, <1>4, <1>5 DEF Fits, PagesInv, PageHeld, ProjectHeld, Locked
<1> QED
  BY <1>1, <1>6, EditKeeps
LEMMA AbandonKeeps ==
    ASSUME PagesInv, NEW e \in Editor, AbandonEdit(e) PROVE PagesInv'
  BY FreeFits, EditKeeps DEF AbandonEdit

LEMMA UnlinkKeeps ==
    ASSUME PagesInv, NEW e \in Editor, NEW i \in Topic, NEW p \in Page,
           DeleteIssueContextLink(e, i, p)
    PROVE  PagesInv'
<1>1. CASE position[p] = AnIssues
  <2> DEFINE new == [Free EXCEPT !.stage = "unlinked", !.page = p]
  <2>1. edit' = [edit EXCEPT ![e] = new] /\ UNCHANGED position
    BY <1>1 DEF DeleteIssueContextLink
  <2>2. new \in Edit
    <3>1. [Free EXCEPT !.stage = "unlinked"] \in Edit
      BY DEF Free, Edit, Absent
    <3>2. new = [[Free EXCEPT !.stage = "unlinked"] EXCEPT !.page = p]
      OBVIOUS
    <3> QED
      BY <3>1, <3>2 DEF Edit
  <2>3. new.stage = "unlinked" /\ new.target = Absent /\ new.rows = {}
    BY DEF Free
  <2> HIDE DEF new
  <2>4. Fits(e, new)
    BY <2>2, <2>3 DEF Fits, Locked
  <2> QED
    BY <2>1, <2>4, EditKeeps
<1>2. CASE position[p] # AnIssues
  <2>1. UNCHANGED <<position, edit>>
    BY <1>2 DEF DeleteIssueContextLink
  <2>2. \A q, a, b : Renumbered(q, a, b)' = Renumbered(q, a, b)
    BY <2>1 DEF Renumbered, Positioned
  <2> QED
    BY <2>1, <2>2
    DEF PagesInv, PagesTyped, PageHeld, ProjectHeld, RowsBetween, Numbered, count, Positioned,
        Locks, HoldsProject
<1> QED
  BY <1>1, <1>2

LEMMA DeleteUnlinkedKeeps ==
    ASSUME PagesInv, NEW e \in Editor, DeleteUnlinked(e) PROVE PagesInv'
<1> DEFINE p == edit[e].page
<1>1. edit[e].stage = "unlinked" /\ UNCHANGED position /\ RowFree(p, e)
  BY DEF DeleteUnlinked
<1>2. CASE p \notin Existing
  BY <1>1, <1>2, FreeFits, EditKeeps DEF DeleteUnlinked
<1>3. CASE p \in Existing
  <2> DEFINE new == [edit[e] EXCEPT !.stage = "page", !.at = position[p]]
  <2>1. edit' = [edit EXCEPT ![e] = new]
    BY <1>3 DEF DeleteUnlinked
  <2>2. p \in Page /\ position[p] >= 0 /\ position[p] \in Int
    BY <1>3 DEF Existing, Absent, PagesInv, PagesTyped
  <2>3. edit[e].target = Absent /\ edit[e].rows = {}
    BY <1>1 DEF PagesInv, ProjectHeld, RowsBetween
  <2>4. /\ new \in Edit /\ new.stage = "page" /\ new.page = p /\ new.at = position[p]
        /\ new.target = Absent /\ new.rows = {}
    BY <2>2, <2>3 DEF PagesInv, PagesTyped, Edit
  <2> HIDE DEF new
  <2>5. Fits(e, new)
    BY <1>1, <2>2, <2>4 DEF Fits, RowFree, Locked
  <2> QED
    BY <1>1, <2>1, <2>5, EditKeeps
<1> QED
  BY <1>2, <1>3

-------------------------------------------------------------------------------
(* Positions *)

\* A page is made where no editor has locked one, at the end or of an issue.
LEMMA CreateKeeps ==
    ASSUME PagesInv, NEW p \in Page, position[p] = Absent, ProjectFree(Editor),
           NEW v \in {AnIssues, count + 1}, position' = [position EXCEPT ![p] = v],
           UNCHANGED edit
    PROVE  PagesInv'
<1>1. count \in Nat /\ v \in Int /\ v >= 0
  BY CountNat DEF AnIssues
<1>2. PagesTyped'
  BY <1>1 DEF PagesInv, PagesTyped, Absent
<1>3. position[p] = -1 /\ \A q \in Page \ {p} : position'[q] = position[q]
  BY DEF Absent, PagesInv, PagesTyped
<1>4. Numbered(position, count)'
  <2>1. CASE v = AnIssues
    <3>1. Positioned' = Positioned
      BY <1>3, <2>1 DEF Positioned, AnIssues, PagesInv, PagesTyped
    <3>2. count' = count
      BY <3>1 DEF count
    <3>3. position'[p] = 0
      BY <2>1 DEF AnIssues, PagesInv, PagesTyped
    <3> QED
      BY <1>1, <1>3, <3>2, <3>3 DEF PagesInv, PagesTyped, Numbered
  <2>2. CASE v = count + 1
    <3>1. position'[p] = count + 1
      BY <2>2 DEF PagesInv, PagesTyped
    <3>2. Positioned' = Positioned \cup {p} /\ p \notin Positioned
      BY <1>1, <1>3, <3>1 DEF Positioned
    <3>3. count' = count + 1
      BY <3>2, CountNat, FS_AddElement DEF count
    <3>4. \A q \in Page : position[q] <= count /\ position[q] \in Int
      BY DEF PagesInv, PagesTyped, Numbered
    <3>5. \A q, o \in Page : position'[q] > 0 /\ position'[q] = position'[o] => q = o
      BY <1>1, <1>3, <3>1, <3>4 DEF PagesInv, Numbered
    <3>6. \A q \in Page : position'[q] <= count + 1
      BY <1>1, <1>3, <3>1, <3>4
    <3>7. \A w \in 1..count + 1 : \E q \in Page : position'[q] = w
      <4> SUFFICES ASSUME NEW w \in 1..count + 1 PROVE \E q \in Page : position'[q] = w
        OBVIOUS
      <4>1. CASE w = count + 1
        BY <4>1, <3>1
      <4>2. CASE w \in 1..count
        <5>1. PICK q \in Page : position[q] = w
          BY <4>2 DEF PagesInv, Numbered
        <5> QED
          BY <4>2, <5>1, <1>1, <1>3
      <4> QED
        BY <4>1, <4>2, <1>1
    <3> QED
      BY <3>3, <3>5, <3>6, <3>7 DEF Numbered
  <2> QED
    BY <2>1, <2>2
<1>5. \A e \in Editor : ~HoldsProject(e) /\ ~HoldsProject(e)'
  BY DEF ProjectFree, HoldsProject
<1>6. PageHeld'
  BY <1>3 DEF PagesInv, PageHeld, Locks
<1>7. ProjectHeld'
  BY <1>5 DEF PagesInv, ProjectHeld
<1>8. RowsBetween'
  BY <1>5 DEF PagesInv, RowsBetween, HoldsProject
<1> QED
  BY <1>2, <1>4, <1>6, <1>7, <1>8 DEF PagesInv

\* What an editor commits: only its own page and rows change, and if it does not
\* hold the project, no position.
LEMMA CommitKeeps ==
    ASSUME PagesInv, NEW e \in Editor, edit[e].stage = "shifted",
           edit' = [edit EXCEPT ![e] = Free],
           position' \in [Page -> Int], \A p \in Page : position'[p] >= Absent,
           Numbered(position, count)',
           \A p \in Page : p # edit[e].page /\ p \notin edit[e].rows => position'[p] = position[p],
           HoldsProject(e) \/ \A p \in Page : (position[p] > 0 \/ position'[p] > 0) =>
                                                position'[p] = position[p],
           HoldsProject(e) \/ count' = count
    PROVE  PagesInv'
<1>0. /\ Free.stage = "free" /\ Free.page = NoPage /\ Free.at = Absent /\ Free.target = Absent
      /\ Free.rows = {} /\ Free \in Edit
  BY DEF Free, Edit, Absent
<1>1. edit'[e] = Free /\ \A f \in Editor \ {e} : edit'[f] = edit[f]
  BY DEF PagesInv, PagesTyped
<1>2. PagesTyped'
  BY <1>0 DEF PagesInv, PagesTyped
<1>3. PageHeld'
  <2> SUFFICES ASSUME NEW f \in Editor, edit'[f].stage \in Locked
               PROVE  (/\ edit[f].page \in Page /\ position[edit[f].page] = edit[f].at
                       /\ edit[f].at >= 0
                       /\ \A g \in Editor \ {f} :
                            ~Locks(g, edit[f].page) /\ edit[f].page \notin edit[g].rows)'
    BY DEF PageHeld
  <2>1. f # e /\ edit'[f] = edit[f]
    BY <1>0, <1>1 DEF Locked
  <2>2. /\ edit[f].page \in Page /\ position[edit[f].page] = edit[f].at /\ edit[f].at >= 0
        /\ \A g \in Editor \ {f} : ~Locks(g, edit[f].page) /\ edit[f].page \notin edit[g].rows
    BY <2>1 DEF PagesInv, PageHeld
  <2>3. edit[f].page # edit[e].page /\ edit[f].page \notin edit[e].rows
    BY <2>1, <2>2 DEF Locks
  <2>4. \A g \in Editor \ {f} : (~Locks(g, edit[f].page) /\ edit[f].page \notin edit[g].rows)'
    BY <1>0, <1>1, <2>1, <2>2, PagesAssumption DEF Locks
  <2> QED
    BY <2>1, <2>2, <2>3, <2>4
<1>4. \A f \in Editor : HoldsProject(f)' => f # e /\ HoldsProject(f)
  BY <1>0, <1>1 DEF HoldsProject
<1>5. ProjectHeld'
  <2>1. \A f \in Editor : HoldsProject(f)' => count' = count
    BY <1>4 DEF PagesInv, ProjectHeld
  <2>2. ASSUME NEW f \in Editor
        PROVE  (/\ edit[f].target = Absent \/ (edit[f].target > 0 /\ edit[f].at > 0)
                /\ edit[f].stage = "unlinked" => edit[f].target = Absent
                /\ edit[f].stage = "project" => edit[f].at > 0
                /\ HoldsProject(f) => edit[f].target <= count)'
    <3>1. CASE f = e
      BY <3>1, <1>0, <1>1, <1>4
    <3>2. CASE f # e
      BY <3>2, <1>1, <1>4, <2>1 DEF PagesInv, ProjectHeld
    <3> QED
      BY <3>1, <3>2
  <2> QED
    BY <1>4, <2>2 DEF PagesInv, ProjectHeld
<1>6. RowsBetween'
  <2> SUFFICES ASSUME NEW f \in Editor
               PROVE  (edit[f].rows = IF edit[f].stage = "shifted" /\ edit[f].at > 0
                         THEN Renumbered(edit[f].page, edit[f].at, edit[f].target) ELSE {})'
    BY DEF RowsBetween
  <2>1. CASE f = e
    BY <2>1, <1>0, <1>1
  <2>2. CASE f # e /\ ~HoldsProject(f)
    BY <2>2, <1>1 DEF PagesInv, RowsBetween, HoldsProject
  <2>3. CASE f # e /\ HoldsProject(f)
    <3>1. \A p \in Page : (position[p] > 0 \/ position'[p] > 0) => position'[p] = position[p]
      BY <2>3 DEF PagesInv, ProjectHeld
    <3>2. Positioned' = Positioned /\ \A p \in Positioned : position'[p] = position[p]
      BY <3>1 DEF Positioned
    <3>3. \A q, a, b : Renumbered(q, a, b)' = Renumbered(q, a, b)
      BY <3>2 DEF Renumbered
    <3> QED
      BY <2>3, <1>1, <3>3 DEF PagesInv, RowsBetween
  <2> QED
    BY <2>1, <2>2, <2>3
<1> QED
  BY <1>2, <1>3, <1>5, <1>6 DEF PagesInv

LEMMA CommitEditKeeps ==
    ASSUME PagesInv, NEW e \in Editor, CommitEdit(e) PROVE PagesInv'
<1> DEFINE page == edit[e].page
           from == edit[e].at
           to == edit[e].target
           rows == edit[e].rows
<1>1. /\ edit[e].stage = "shifted" /\ edit' = [edit EXCEPT ![e] = Free]
      /\ position' = IF to = Absent THEN Closed(page, rows) ELSE Moved(page, from, to, rows)
  BY DEF CommitEdit
<1>2. page \in Page /\ position[page] = from /\ from >= 0 /\ from \in Int
  BY <1>1 DEF PagesInv, PageHeld, Locked, PagesTyped, Edit
<1>3. rows = IF from > 0 THEN Renumbered(page, from, to) ELSE {}
  BY <1>1 DEF PagesInv, RowsBetween
<1>4. to = Absent \/ (to > 0 /\ from > 0)
  BY DEF PagesInv, ProjectHeld
<1>5. count \in Nat
  BY CountNat
<1>6. HoldsProject(e) <=> from > 0
  BY <1>1 DEF HoldsProject
<1> HIDE DEF page, from, to, rows
<1>7. CASE from > 0 /\ to # Absent
  <2>1. to \in 1..count
    BY <1>1, <1>4, <1>5, <1>6, <1>7 DEF PagesInv, ProjectHeld, PagesTyped, Edit, to
  <2>2. /\ Numbered(position', count) /\ position' \in [Page -> Int]
        /\ \A p \in Page : position'[p] > 0 <=> position[p] > 0
    BY <1>1, <1>2, <1>3, <1>7, <2>1, MovedNumbered DEF PagesInv
  <2>3. Positioned' = Positioned
    BY <2>2 DEF Positioned
  <2>4. Numbered(position, count)'
    BY <2>2, <2>3 DEF count, Numbered
  <2>5. \A p \in Page : p # page /\ p \notin rows => position'[p] = position[p]
    BY <1>1, <1>7 DEF Moved, Placed, Shifted, Parked, PagesInv, PagesTyped
  <2>6. \A p \in Page : position'[p] >= Absent
    <3>1. \A p \in Page : p = page \/ p \in rows => position'[p] > 0
      BY <1>2, <1>3, <1>7, <2>2 DEF Renumbered, Positioned
    <3> QED
      BY <2>2, <2>5, <3>1 DEF PagesInv, PagesTyped, Absent
  <2> QED
    BY <1>1, <1>6, <1>7, <2>2, <2>4, <2>5, <2>6, CommitKeeps DEF page, rows
<1>8. CASE from > 0 /\ to = Absent
  <2>1. /\ Numbered(position', count - 1) /\ position' \in [Page -> Int]
        /\ \A p \in Page : /\ position'[p] > 0 <=> position[p] > 0 /\ p # page
                           /\ position'[p] >= Absent
    BY <1>1, <1>2, <1>3, <1>8, ClosedNumbered DEF PagesInv
  <2>2. Positioned' = Positioned \ {page} /\ page \in Positioned
    BY <1>2, <1>8, <2>1 DEF Positioned
  <2>3. count' = count - 1
    BY <2>2, CountNat, FS_RemoveElement DEF count
  <2>4. Numbered(position, count)'
    BY <2>1, <2>3 DEF Numbered
  <2>5. \A p \in Page : p # page /\ p \notin rows => position'[p] = position[p]
    BY <1>1, <1>8 DEF Closed
  <2> QED
    BY <1>1, <1>6, <1>8, <2>1, <2>4, <2>5, CommitKeeps DEF page, rows
<1>9. CASE from = 0
  <2>1. to = Absent /\ rows = {}
    BY <1>3, <1>4, <1>9
  <2>2. position' = [p \in Page |-> IF p = page THEN Absent ELSE position[p]]
    BY <1>1, <2>1 DEF Closed
  <2>3. /\ position' \in [Page -> Int] /\ \A p \in Page : position'[p] >= Absent
        /\ \A p \in Page : (position[p] > 0 \/ position'[p] > 0) => position'[p] = position[p]
    BY <1>2, <1>9, <2>2 DEF Absent, PagesInv, PagesTyped
  <2>4. Positioned' = Positioned
    BY <2>3 DEF Positioned, PagesInv, PagesTyped
  <2>5. count' = count
    BY <2>4 DEF count
  <2>6. Numbered(position, count)'
    <3>1. \A p \in Page : position'[p] <= position[p] /\ position[p] \in Int
      BY <1>2, <1>9, <2>2 DEF Absent, PagesInv, PagesTyped
    <3> QED
      BY <1>5, <2>3, <2>5, <3>1 DEF Numbered, PagesInv
  <2> QED
    BY <1>1, <2>1, <2>2, <2>3, <2>5, <2>6, CommitKeeps DEF page, rows
<1> QED
  BY <1>2, <1>7, <1>8, <1>9
-------------------------------------------------------------------------------
LEMMA PagesInvStep == PagesInv /\ [PagesNext]_pageVars => PagesInv'
<1> SUFFICES ASSUME PagesInv, [PagesNext]_pageVars PROVE PagesInv'
  OBVIOUS
<1>1. ASSUME UNCHANGED <<position, edit>> PROVE PagesInv'
  <2>1. \A q, a, b : Renumbered(q, a, b)' = Renumbered(q, a, b)
    BY <1>1 DEF Renumbered, Positioned
  <2> QED
    BY <1>1, <2>1
    DEF PagesInv, PagesTyped, PageHeld, ProjectHeld, RowsBetween, Numbered, count, Positioned,
        Locks, HoldsProject
<1>2. ASSUME NEW p \in Page, CreateProjectContext(p) PROVE PagesInv'
  BY <1>2, CreateKeeps DEF CreateProjectContext
<1>3. ASSUME NEW i \in Topic, NEW p \in Page, CreateIssueContext(i, p) PROVE PagesInv'
  BY <1>3, CreateKeeps DEF CreateIssueContext
<1>4. ASSUME NEW i \in Topic, NEW p \in Page, CreateIssueContextLink(i, p) PROVE PagesInv'
  BY <1>1, <1>4 DEF CreateIssueContextLink
<1>5. ASSUME NEW i \in Topic, NEW pages \in SUBSET Page, CreateIssueContextLinks(i, pages)
      PROVE  PagesInv'
  BY <1>1, <1>5 DEF CreateIssueContextLinks
<1>6. ASSUME NEW e \in Editor, NEW p \in Page, BeginDelete(e, p) PROVE PagesInv'
  BY <1>6, LockPageKeeps DEF BeginDelete, Absent
<1>7. ASSUME NEW e \in Editor, NEW p \in Page, NEW target \in 1..Cardinality(Page),
             BeginMove(e, p, target)
      PROVE  PagesInv'
  BY <1>7, LockPageKeeps DEF BeginMove, Positioned
<1>8. ASSUME NEW e \in Editor, NEW i \in Topic, NEW p \in Page, DeleteIssueContextLink(e, i, p)
      PROVE  PagesInv'
  BY <1>8, UnlinkKeeps
<1>9. ASSUME NEW e \in Editor,
             \/ DeleteUnlinked(e) \/ LockProject(e) \/ ShiftRows(e) \/ CommitEdit(e)
             \/ AbandonEdit(e)
      PROVE  PagesInv'
  BY <1>9, DeleteUnlinkedKeeps, LockProjectKeeps, ShiftRowsKeeps, CommitEditKeeps, AbandonKeeps
<1>10. CASE UNCHANGED pageVars
  BY <1>1, <1>10 DEF pageVars
<1> QED
  BY <1>1, <1>2, <1>3, <1>4, <1>5, <1>6, <1>7, <1>8, <1>9, <1>10 DEF PagesNext

\* While an editor holds the project, each of its statements keeps the positions
\* of the project's pages apart.
LEMMA StatementsApart ==
    ASSUME PagesInv, NEW e \in Editor, edit[e].stage = "shifted", edit[e].target > 0,
           edit[e].target # edit[e].at
    PROVE  /\ Distinct(Parked(edit[e].page))
           /\ Distinct(Lifted(edit[e].page, edit[e].rows))
           /\ Distinct(Shifted(edit[e].page, edit[e].at, edit[e].target, edit[e].rows))
           /\ Distinct(Placed(edit[e].page, edit[e].at, edit[e].target, edit[e].rows))
<1> DEFINE page == edit[e].page
           from == edit[e].at
           to == edit[e].target
           rows == edit[e].rows
<1>1. page \in Page /\ position[page] = from /\ from \in Int /\ to \in Int
  BY DEF PagesInv, PageHeld, Locked, PagesTyped, Edit
<1>2. from > 0 /\ count \in Nat
  BY <1>1, CountNat DEF PagesInv, ProjectHeld, Absent
<1>3. to \in 1..count
  BY <1>1, <1>2 DEF PagesInv, ProjectHeld, HoldsProject
<1>4. rows = Renumbered(page, from, to)
  BY <1>2 DEF PagesInv, RowsBetween
<1> HIDE DEF page, from, to, rows
<1>5. /\ position \in [Page -> Int]
      /\ \A p \in Page : position[p] <= count
      /\ \A p, q \in Page : position[p] > 0 /\ position[p] = position[q] => p = q
      /\ from <= count
  BY <1>1 DEF PagesInv, PagesTyped, Numbered
<1>6. \A p \in Page : p \in rows <=>
        /\ p # page /\ position[p] > 0
        /\ IF to < from THEN position[p] >= to /\ position[p] < from
                        ELSE position[p] > from /\ position[p] <= to
  BY <1>1, <1>2, <1>3, <1>4, <1>5 DEF Renumbered, Positioned, Absent
<1>7. \A p \in Page :
        /\ Parked(page)[p] = IF p = page THEN 2 * count + 2 ELSE position[p]
        /\ Lifted(page, rows)[p] = IF p \in rows THEN position[p] + count + 1
                                   ELSE IF p = page THEN 2 * count + 2 ELSE position[p]
        /\ Shifted(page, from, to, rows)[p] =
             IF p \in rows THEN position[p] + (IF to < from THEN 1 ELSE -1)
             ELSE IF p = page THEN 2 * count + 2 ELSE position[p]
  BY <1>1, <1>2, <1>5 DEF Parked, Lifted, Shifted, offset
<1>8. Distinct(Parked(page))
  BY <1>2, <1>5, <1>7 DEF Distinct
<1>9. Distinct(Lifted(page, rows))
  BY <1>2, <1>5, <1>6, <1>7 DEF Distinct
<1>10. Distinct(Shifted(page, from, to, rows))
  <2> SUFFICES ASSUME NEW p \in Page, NEW q \in Page, Shifted(page, from, to, rows)[p] > 0,
                      Shifted(page, from, to, rows)[p] = Shifted(page, from, to, rows)[q]
               PROVE  p = q
    BY DEF Distinct
  <2>1. \A o \in Page : position[o] = from => o = page
    BY <1>1, <1>2, <1>5
  <2>2. CASE p \in rows
    BY <2>1, <2>2, <1>1, <1>2, <1>3, <1>5, <1>6, <1>7
  <2>3. CASE p \notin rows
    BY <2>1, <2>3, <1>1, <1>2, <1>3, <1>5, <1>6, <1>7
  <2> QED
    BY <2>2, <2>3
<1>11. Distinct(Placed(page, from, to, rows))
  <2>1. Numbered(Moved(page, from, to, rows), count)
    BY <1>1, <1>2, <1>3, <1>4, MovedNumbered DEF PagesInv
  <2>2. from # to
    BY DEF from, to
  <2> QED
    BY <2>1, <2>2 DEF Moved, Numbered, Distinct
<1> QED
  BY <1>8, <1>9, <1>10, <1>11 DEF page, from, to, rows

LEMMA PagesAreInOrder == PagesInv => PagesInOrder
<1> SUFFICES ASSUME PagesInv PROVE PagesInOrder
  OBVIOUS
<1>1. {position[p] : p \in Positioned} = 1..count
  <2>1. count \in Nat
    BY CountNat
  <2>2. \A p \in Positioned : position[p] \in 1..count
    BY <2>1 DEF PagesInv, PagesTyped, Numbered, Positioned
  <2>3. \A v \in 1..count : \E p \in Positioned : position[p] = v
    BY <2>1 DEF PagesInv, Numbered, Positioned
  <2> QED
    BY <2>2, <2>3
<1> QED
  BY <1>1, StatementsApart DEF PagesInOrder

-------------------------------------------------------------------------------
(* Links.  A page that is gone has none, and one of an issue no other's.        *)

LinksInv ==
    /\ linked \in SUBSET (Topic \X Page)
    /\ \A l \in linked : position[l[2]] # Absent
    /\ \A l, k \in linked : l[2] = k[2] /\ position[l[2]] = AnIssues => l[1] = k[1]

\* What a commit does to the links: those of a page that goes, go with it.
LEMMA CommitKeepsLinks ==
    ASSUME PagesInv, LinksInv, NEW e \in Editor, CommitEdit(e) PROVE LinksInv'
<1> DEFINE page == edit[e].page
           from == edit[e].at
           to == edit[e].target
           rows == edit[e].rows
<1>1. /\ edit[e].stage = "shifted"
      /\ position' = IF to = Absent THEN Closed(page, rows) ELSE Moved(page, from, to, rows)
      /\ linked' = IF to = Absent THEN {l \in linked : l[2] # page} ELSE linked
  BY DEF CommitEdit
<1>2. page \in Page /\ position[page] = from /\ from >= 0 /\ from \in Int
  BY <1>1 DEF PagesInv, PageHeld, Locked, PagesTyped, Edit
<1>3. rows = IF from > 0 THEN Renumbered(page, from, to) ELSE {}
  BY <1>1 DEF PagesInv, RowsBetween
<1>4. to = Absent \/ (to > 0 /\ from > 0)
  BY DEF PagesInv, ProjectHeld
<1>5. count \in Nat
  BY CountNat
<1>6. position \in [Page -> Int]
  BY DEF PagesInv, PagesTyped
<1>7. rows \subseteq Positioned
  BY <1>3 DEF Renumbered
<1>8. from > 0 /\ to # Absent => to \in 1..count
  BY <1>1, <1>4, <1>5 DEF PagesInv, ProjectHeld, HoldsProject, PagesTyped, Edit
<1> HIDE DEF page, from, to, rows
\* A page that stays keeps its place, or moves among those of the project.
<1>9. ASSUME NEW p \in Page, p # page \/ to # Absent
      PROVE  position'[p] = position[p] \/ (position[p] > 0 /\ position'[p] > 0)
  <2>1. CASE to # Absent
    <3>1. from > 0 /\ to \in 1..count
      BY <1>4, <1>8, <2>1
    <3>2. \A q \in Page : position'[q] > 0 <=> position[q] > 0
      BY <1>1, <1>2, <1>3, <2>1, <3>1, MovedNumbered DEF PagesInv
    <3>3. CASE p # page /\ p \notin rows
      BY <1>1, <1>6, <2>1, <3>3 DEF Moved, Placed, Shifted, Parked
    <3>4. CASE p = page \/ p \in rows
      BY <1>2, <1>7, <3>1, <3>2, <3>4 DEF Positioned
    <3> QED
      BY <3>3, <3>4
  <2>2. CASE to = Absent /\ from > 0
    <3>1. \A q \in Page : position'[q] > 0 <=> position[q] > 0 /\ q # page
      BY <1>1, <1>2, <1>3, <2>2, ClosedNumbered DEF PagesInv
    <3>2. CASE p \notin rows
      BY <1>1, <1>9, <2>2, <3>2 DEF Closed
    <3>3. CASE p \in rows
      BY <1>7, <1>9, <2>2, <3>1, <3>3 DEF Positioned
    <3> QED
      BY <3>2, <3>3
  <2>3. CASE to = Absent /\ ~(from > 0)
    BY <1>1, <1>3, <1>9, <2>3 DEF Closed
  <2> QED
    BY <2>1, <2>2, <2>3
<1>10. linked' \subseteq linked /\ \A l \in linked' : l[2] # page \/ to # Absent
  BY <1>1
<1>11. \A l \in linked' : /\ l[2] \in Page /\ position'[l[2]] # Absent
                          /\ position'[l[2]] = AnIssues => position[l[2]] = AnIssues
  <2> TAKE l \in linked'
  <2>1. l[2] \in Page /\ position[l[2]] # Absent
    BY <1>10 DEF LinksInv
  <2> QED
    BY <1>9, <1>10, <2>1 DEF Absent, AnIssues
<1> QED
  BY <1>10, <1>11 DEF LinksInv

LEMMA LinksInvStep == PagesInv /\ LinksInv /\ [PagesNext]_pageVars => LinksInv'
<1> SUFFICES ASSUME PagesInv, LinksInv, [PagesNext]_pageVars PROVE LinksInv'
  OBVIOUS
<1>0. position \in [Page -> Int] /\ count \in Nat
  BY CountNat DEF PagesInv, PagesTyped
<1>1. ASSUME UNCHANGED position, linked' \subseteq linked PROVE LinksInv'
  BY <1>1 DEF LinksInv
<1>2. ASSUME NEW p \in Page, CreateProjectContext(p) PROVE LinksInv'
  <2>1. /\ position[p] = Absent /\ linked' = linked
        /\ position' = [position EXCEPT ![p] = count + 1]
    BY <1>2 DEF CreateProjectContext
  <2>2. \A l \in linked : l[2] # p /\ position'[l[2]] = position[l[2]]
    BY <1>0, <2>1 DEF LinksInv
  <2> QED
    BY <2>1, <2>2 DEF LinksInv
<1>3. ASSUME NEW i \in Topic, NEW p \in Page, CreateIssueContext(i, p) PROVE LinksInv'
  <2>1. /\ position[p] = Absent /\ linked' = linked \cup {<<i, p>>}
        /\ position' = [position EXCEPT ![p] = AnIssues]
    BY <1>3 DEF CreateIssueContext
  <2>2. \A l \in linked : l[2] # p /\ position'[l[2]] = position[l[2]]
    BY <1>0, <2>1 DEF LinksInv
  <2>3. position'[p] = AnIssues /\ AnIssues # Absent
    BY <1>0, <2>1 DEF AnIssues, Absent
  <2>4. \A l \in linked' : l \in linked \/ (l = <<i, p>> /\ l[1] = i /\ l[2] = p)
    BY <2>1
  <2> QED
    BY <2>1, <2>2, <2>3, <2>4 DEF LinksInv
<1>4. ASSUME NEW i \in Topic, NEW pages \in SUBSET Positioned, UNCHANGED position,
             linked' = linked \cup {<<i, p>> : p \in pages}
      PROVE  LinksInv'
  <2>1. \A l \in linked' : l \in linked \/ (l \in Topic \X Page /\ position[l[2]] > 0)
    BY <1>4 DEF Positioned
  <2>2. \A l \in linked' : l \in Topic \X Page /\ position'[l[2]] # Absent
    BY <1>4, <2>1 DEF LinksInv, Absent
  <2>3. \A l \in linked' : position'[l[2]] = AnIssues => l \in linked
    BY <1>4, <2>1 DEF AnIssues
  <2> QED
    BY <1>4, <2>2, <2>3 DEF LinksInv
<1>5. ASSUME NEW i \in Topic, NEW p \in Page, CreateIssueContextLink(i, p) PROVE LinksInv'
  <2>1. /\ p \in Positioned /\ UNCHANGED position
        /\ linked' = linked \cup {<<i, q>> : q \in {p}}
    BY <1>5 DEF CreateIssueContextLink
  <2> QED
    BY <1>4, <2>1
<1>6. ASSUME NEW i \in Topic, NEW pages \in SUBSET Page, CreateIssueContextLinks(i, pages)
      PROVE  LinksInv'
  BY <1>4, <1>6 DEF CreateIssueContextLinks
<1>7. ASSUME NEW e \in Editor, NEW p \in Page, NEW target,
             BeginDelete(e, p) \/ BeginMove(e, p, target)
      PROVE  LinksInv'
  BY <1>1, <1>7 DEF BeginDelete, BeginMove, LockPage
<1>8. ASSUME NEW e \in Editor, NEW i \in Topic, NEW p \in Page, DeleteIssueContextLink(e, i, p)
      PROVE  LinksInv'
  BY <1>1, <1>8 DEF DeleteIssueContextLink
<1>9. ASSUME NEW e \in Editor,
             DeleteUnlinked(e) \/ LockProject(e) \/ ShiftRows(e) \/ AbandonEdit(e)
      PROVE  LinksInv'
  BY <1>1, <1>9 DEF DeleteUnlinked, LockProject, ShiftRows, AbandonEdit
<1>10. CASE UNCHANGED pageVars
  BY <1>1, <1>10 DEF pageVars
<1> QED
  BY <1>2, <1>3, <1>5, <1>6, <1>7, <1>8, <1>9, <1>10, CommitKeepsLinks DEF PagesNext

LEMMA PagesAreTyped == PagesInv /\ LinksInv => PagesTypeOK
<1> SUFFICES ASSUME PagesInv, LinksInv PROVE PagesTypeOK
  OBVIOUS
<1>1. count \in Nat /\ Cardinality(Page) \in Nat /\ count <= Cardinality(Page)
  <2>1. Positioned \in SUBSET Page
    BY DEF Positioned
  <2> QED
    BY <2>1, CountNat, PagesAssumption, FS_Subset, FS_CardinalityType DEF count
<1>2. position \in [Page -> Absent..Cardinality(Page)]
  <2>1. \A p \in Page : position[p] \in Int /\ position[p] >= Absent /\ position[p] <= count
    BY DEF PagesInv, PagesTyped, Numbered
  <2> QED
    BY <1>1, <2>1 DEF PagesInv, PagesTyped, Absent
<1>3. linked \in SUBSET (Topic \X Existing)
  BY DEF LinksInv, Existing
<1>4. ASSUME NEW p \in Page, position[p] = AnIssues
      PROVE  Cardinality({i \in Topic : <<i, p>> \in linked}) <= 1
  <2> DEFINE of == {i \in Topic : <<i, p>> \in linked}
  <2>1. \A i, j \in of : i = j
    <3> TAKE i, j \in of
    <3>1. /\ <<i, p>> \in linked /\ <<j, p>> \in linked
          /\ <<i, p>>[2] = p /\ <<j, p>>[2] = p /\ <<i, p>>[1] = i /\ <<j, p>>[1] = j
      OBVIOUS
    <3> QED
      BY <1>4, <3>1 DEF LinksInv
  <2>2. of = {} \/ \E i \in of : of = {i}
    BY <2>1
  <2> HIDE DEF of
  <2>3. Cardinality(of) = 0 \/ Cardinality(of) = 1
    BY <2>2, FS_EmptySet, FS_Singleton
  <2> QED
    BY <2>3 DEF of
<1>5. \A e \in Editor : edit[e].stage \in {"free", "unlinked", "page", "project", "shifted"}
  BY DEF PagesInv, PagesTyped, Edit
<1> QED
  BY <1>2, <1>3, <1>4, <1>5 DEF PagesTypeOK

-------------------------------------------------------------------------------
\* The invariant of the context pages under any number of concurrent editors
\* (internal/store/project_context.go).
THEOREM PagesInvAlways == PagesSpec => []PagesInv
<1> QED
  BY PagesInvInit, PagesInvStep, PTL DEF PagesSpec

\* However pages are created, linked, moved and deleted at once, no link outlives
\* its page, and a page of an issue is linked to no other.
THEOREM PagesStayTyped == PagesSpec => []PagesTypeOK
<1>1. PagesInit => LinksInv
  BY DEF PagesInit, LinksInv
<1> QED
  BY <1>1, PagesInvInit, PagesInvStep, LinksInvStep, PagesAreTyped, PTL DEF PagesSpec

\* However many pages are created, moved and deleted at once, the project's pages
\* stay numbered from one without gap or duplicate, and no renumbering statement
\* runs into the unique index of the positions.
THEOREM PagesKeepOrder == PagesSpec => []PagesInOrder
  BY PagesAreInOrder, PagesInvAlways, PTL

-------------------------------------------------------------------------------
(* The doors.  A request without standing meets a step it cannot pass.         *)

\* The rights to an issue are all rights, what the reporter has left, or none.
LEMMA ForIssueCases ==
    ASSUME NEW who, NEW p, NEW rights, NEW private
    PROVE  \/ ForIssue(who, p, rights, private) = rights /\ ~Hides(rights, private)
           \/ ForIssue(who, p, rights, private) = {"privateReport"}
           \/ ForIssue(who, p, rights, private) = {}
  BY DEF ForIssue

\* What standing is made of.
LEMMA StandingIs ==
    ASSUME NEW who, NEW token, NEW p
    PROVE  LET mine == ForIssue(who, p, Rights(who, p), p.private)
               standing == Standing(who, token, p) IN
           /\ Rights(who, p) \subseteq standing
           /\ "read" \in mine => "sees" \in standing
           /\ Follows(who, p, mine) => "follows" \in standing
           /\ who # "anonymous" => "signed in" \in standing
           /\ token = "account" => "account" \in standing
           /\ who = "admin" /\ token = "account" => "admin" \in standing
  BY DEF Standing

\* Members read.
LEMMA MembersRead ==
    ASSUME NEW who, NEW p, "membersOnly" \in Rights(who, p)
    PROVE  "read" \in Rights(who, p)
  BY DEF Rights, Ordinary, Everything

\* What a request may still need it has not had.
Unentitled ==
    \A right \in request.need :
      right \notin Standing(request.who, request.token, project)

\* Nor has it by the issue as it was loaded.
Unheard(q, p) ==
    LET mine == Narrowed(q.who, q.loaded, Rights(q.who, p)) IN
    /\ "sees" \in q.need => "read" \notin mine
    /\ "follows" \in q.need => ~Follows(q.who, q.loaded, mine)

\* A step that recalls a right the request has not seen.
RefusesRecall(q, s) ==
    /\ s \in DOMAIN Recalls /\ Recalls[s] \cap q.seen = {}
    /\ s \in {"follow", "comments"} => ~Follows(q.who, q.loaded, q.seen)

\* The step at i lets no request through that lacks what it needs.
Bars(q, i, heeds) ==
    LET s == q.steps[i] IN
    \/ Checks(s, q.need, heeds)
    \/ \E j \in 1..i - 1 :
         LastRefresh(q.steps, i, j) /\ ChecksAfter(q.steps[j], s, q.need, heeds)
    \/ RefusesRecall(q, s) /\ \A k \in 1..i - 1 : q.steps[k] \notin Refreshes
    \/ s = "admin" /\ q.who # "admin"
    \/ s = "firstParty" /\ q.token = "oauth"

Barred(q, heeds) ==
    \E i \in DOMAIN q.steps : Reached(q.steps, i, q.need, heeds) /\ Bars(q, i, heeds)

RequestTyped ==
    /\ request.steps \in Seq(Steps)
    /\ request.who \in Person /\ request.token \in {"account", "oauth", "none"}
    /\ request.left \in 0..Changes
    /\ request = Waiting <=> request.steps = <<>>
    /\ request.steps # <<>> => request.steps[Len(request.steps)] \in Acts

\* A request that lacks what it needs is barred.
DoorsInv(heeds) ==
    request.need # {} =>
      Unentitled /\ Barred(request, heeds) /\ (heeds => Unheard(request, project))

\* An issue that was not loaded, or is as it was, entitles to nothing else than itself.
LEMMA UnheardAfresh ==
    ASSUME NEW q, NEW p, q.loaded \in {Unloaded, Loaded(p)},
           \A right \in q.need : right \notin Standing(q.who, q.token, p)
    PROVE  Unheard(q, p)
<1> DEFINE rights == Rights(q.who, p)
           mine == ForIssue(q.who, p, rights, p.private)
<1>1. /\ "sees" \in q.need => "read" \notin mine
      /\ "follows" \in q.need => ~Follows(q.who, p, mine)
  BY StandingIs
<1>2. CASE q.loaded = Loaded(p)
  <2>1. Narrowed(q.who, q.loaded, rights) = mine
    BY <1>2 DEF Narrowed, Loaded, ForIssue
  <2>2. Follows(q.who, q.loaded, mine) = Follows(q.who, p, mine)
    BY <1>2 DEF Follows, Loaded
  <2> QED
    BY <1>1, <2>1, <2>2 DEF Unheard
<1>3. CASE q.loaded = Unloaded
  <2>1. ~Follows(q.who, q.loaded, Narrowed(q.who, q.loaded, rights))
    BY <1>3 DEF Follows, Unloaded
  <2>2. ASSUME "read" \in Narrowed(q.who, q.loaded, rights) PROVE "read" \in mine
    <3>1. "read" \in rights /\ "membersOnly" \in rights
      BY <1>3, <2>2 DEF Narrowed, Unloaded, ForIssue, Hides
    <3> QED
      BY <3>1 DEF ForIssue, Hides
  <2> QED
    BY <1>1, <2>1, <2>2 DEF Unheard
<1> QED
  BY <1>2, <1>3

\* The rights to an issue that was loaded are all rights, what the reporter has
\* left, or none.
LEMMA NarrowedCases ==
    ASSUME NEW who, NEW issue, NEW rights
    PROVE  LET mine == Narrowed(who, issue, rights) IN
           /\ mine \subseteq rights \cup {"privateReport"}
           /\ ~Hides(rights, issue.private) => mine = rights
  BY DEF Narrowed, ForIssue

\* A check of the loaded issue refuses whom it gives no right they need.
LEMMA JudgementRefuses ==
    ASSUME NEW q, NEW p, NEW s, Judges(s, q.need), Unheard(q, p),
           \A right \in q.need : right \notin Standing(q.who, q.token, p)
    PROVE  Judgement(s, q.who, q.loaded, Rights(q.who, p)) # "ok"
<1> DEFINE rights == Rights(q.who, p)
           mine == Narrowed(q.who, q.loaded, rights)
<1>1. ASSUME "sees" \in q.need PROVE IssueAccess(q.who, q.loaded, rights) # "ok"
  <2>1. "read" \notin mine
    BY <1>1 DEF Unheard
  <2>2. ~Hides(rights, q.loaded.private) => "read" \notin rights
    BY <2>1, NarrowedCases
  <2> QED
    BY <2>2 DEF IssueAccess
<1>2. CASE s = "issueAccess" /\ "sees" \in q.need
  BY <1>1, <1>2 DEF Judgement
<1>3. CASE s = "opens" /\ "sees" \in q.need
  <2>1. "membersOnly" \notin rights
    <3> SUFFICES ASSUME "membersOnly" \in rights PROVE FALSE
      OBVIOUS
    <3>1. "read" \in ForIssue(q.who, p, rights, p.private)
      BY MembersRead DEF ForIssue, Hides
    <3> QED
      BY <1>3, <3>1, StandingIs
  <2>2. Judgement(s, q.who, q.loaded, rights) = Opens(q.who, q.loaded, rights)
    BY <1>3 DEF Judgement
  <2> QED
    BY <1>1, <1>3, <2>1, <2>2 DEF Opens, Grants
<1>4. CASE s = "replies" /\ {"write", "follows"} \subseteq q.need
  <2>1. "write" \notin rights
    BY <1>4, StandingIs
  <2>2. "write" \notin mine
    BY <2>1, NarrowedCases
  <2>3. ~Following(q.who, q.loaded, rights)
    BY <1>4 DEF Unheard, Following
  <2>4. Judgement(s, q.who, q.loaded, rights) = Replies(q.who, q.loaded, rights)
    BY <1>4 DEF Judgement
  <2> QED
    BY <2>2, <2>3, <2>4 DEF Replies, Grants
<1> QED
  BY <1>2, <1>3, <1>4 DEF Judges

\* A step that bars a request at once does not let it pass.
LEMMA BarsRefuse ==
    ASSUME NEW q, NEW p, NEW heeds, Bars(q, 1, heeds), heeds => Unheard(q, p),
           \A right \in q.need : right \notin Standing(q.who, q.token, p)
    PROVE  Answer(q.steps[1], q, p) # "ok"
<1> DEFINE s == q.steps[1]
           rights == Rights(q.who, p)
<1>1. rights \cap q.need = {}
  BY StandingIs
<1>2. CASE Vouches(s, q.need)
  <2>1. s \in DOMAIN Asks /\ Asks[s] # {} /\ Asks[s] \cap rights = {}
    BY <1>1, <1>2 DEF Vouches
  <2>2. /\ s \notin DOMAIN Loads /\ s \notin DOMAIN Recalls
        /\ s \notin {"project", "reopen", "route", "issueAccess", "opens", "replies",
                      "signedIn", "firstParty", "admin"}
    BY <2>1 DEF Asks, Loads, Recalls
  <2>3. Answer(s, q, p) =
          IF p.live THEN Grants(Asks[s] = {} \/ Asks[s] \cap rights # {}) ELSE "missing"
    BY <2>1, <2>2 DEF Answer
  <2> QED
    BY <2>1, <2>3 DEF Grants
<1>3. CASE heeds /\ Judges(s, q.need)
  <2>1. s \in {"issueAccess", "opens", "replies"}
    BY <1>3 DEF Judges
  <2>2. /\ s \notin DOMAIN Loads /\ s \notin DOMAIN Asks /\ s \notin DOMAIN Recalls
        /\ s \in {"route", "issueAccess", "opens", "replies"}
        /\ s \notin {"project", "reopen", "signedIn", "firstParty", "admin"}
    BY <2>1 DEF Asks, Loads, Recalls
  <2>3. Answer(s, q, p) = IF p.live THEN Judgement(s, q.who, q.loaded, rights) ELSE "missing"
    BY <2>1, <2>2 DEF Answer
  <2>4. Judgement(s, q.who, q.loaded, rights) # "ok"
    BY <1>3, JudgementRefuses
  <2> QED
    BY <2>3, <2>4
<1>4. CASE RefusesRecall(q, s)
  <2>1. /\ s \in DOMAIN Recalls
        /\ s \notin DOMAIN Loads /\ s \notin DOMAIN Asks
        /\ s \notin {"project", "reopen", "route", "issueAccess", "opens", "replies",
                      "signedIn", "firstParty", "admin"}
    BY <1>4 DEF RefusesRecall, Recalls, Asks, Loads
  <2>2. Answer(s, q, p) =
          IF s = "batch" /\ "privateReport" \in q.seen THEN "missing"
          ELSE Grants(\/ Recalls[s] \cap q.seen # {}
                      \/ s \in {"follow", "comments"} /\ Follows(q.who, q.loaded, q.seen))
    BY <2>1 DEF Answer
  <2> QED
    BY <1>4, <2>2 DEF RefusesRecall, Grants
<1>5. CASE s = "admin" /\ q.who # "admin"
  BY <1>5 DEF Answer, Recalls, Asks, Loads, Grants
<1>6. CASE s = "firstParty" /\ q.token = "oauth"
  BY <1>6 DEF Answer, Recalls, Asks, Loads, Grants
<1> QED
  BY <1>2, <1>3, <1>4, <1>5, <1>6 DEF Bars, Checks

\* What a step remembers for a request that is not entitled bars the request at the
\* step that recalls it.
LEMMA RememberedRefuses ==
    ASSUME NEW q, NEW p, NEW source, NEW s, NEW heeds,
           \A right \in q.need : right \notin Standing(q.who, q.token, p),
           heeds => Unheard(q, p), ChecksAfter(source, s, q.need, heeds)
    PROVE  RefusesRecall(Passed(source, q, p), s)
<1> DEFINE rights == Rights(q.who, p)
           mine == Narrowed(q.who, q.loaded, rights)
           after == Passed(source, q, p)
<1>1. /\ after.who = q.who
      /\ source = "route" => after.seen \in {{}, mine} /\ after.loaded \in {Unloaded, q.loaded}
      /\ source \in Remembers => after.seen \in {{}, rights}
  BY DEF Passed, Remembered, Loads, Remembers
<1>2. mine \subseteq rights \cup {"privateReport"}
  BY NarrowedCases
<1>3. rights \cap q.need = {}
  BY StandingIs
<1>4. CASE VouchesAfter(source, s, q.need)
  <2>1. s \in DOMAIN Recalls /\ Recalls[s] \subseteq q.need \ {"privateReport"}
        /\ s \notin {"follow", "comments"}
    BY <1>4 DEF VouchesAfter, Recalls
  <2>2. after.seen \subseteq rights \cup {"privateReport"}
    BY <1>1, <1>2, <1>4 DEF VouchesAfter
  <2> QED
    BY <1>3, <2>1, <2>2 DEF RefusesRecall
<1>5. CASE heeds /\ JudgesAfter(source, s, q.need)
  <2>1. /\ "sees" \in q.need => "read" \notin mine
        /\ "follows" \in q.need => ~Follows(q.who, q.loaded, mine)
    BY <1>5 DEF Unheard
  <2>2. after.seen \in {{}, mine} /\ after.loaded \in {Unloaded, q.loaded}
    BY <1>1, <1>5 DEF JudgesAfter
  <2>3. "write" \in q.need => "write" \notin mine
    BY <1>2, <1>3
  <2>4. s \in DOMAIN Recalls /\ Recalls[s] \cap after.seen = {}
    BY <1>5, <2>1, <2>2, <2>3 DEF JudgesAfter, Recalls
  <2>5. s \in {"follow", "comments"} => "follows" \in q.need
    BY <1>5 DEF JudgesAfter
  <2>6. ~Follows(q.who, Unloaded, after.seen) /\ ~Follows(q.who, q.loaded, {})
    BY DEF Follows, Unloaded
  <2>7. s \in {"follow", "comments"} => ~Follows(after.who, after.loaded, after.seen)
    BY <1>1, <2>1, <2>2, <2>5, <2>6
  <2> QED
    BY <2>4, <2>7 DEF RefusesRecall
<1> QED
  BY <1>4, <1>5 DEF ChecksAfter

-------------------------------------------------------------------------------
(* The requests are well typed.                                                *)

LEMMA TailOfSteps ==
    ASSUME NEW steps \in Seq(Steps), steps # <<>>
    PROVE  /\ Len(steps) \in Nat \ {0} /\ Head(steps) = steps[1]
           /\ Tail(steps) \in Seq(Steps) /\ Len(Tail(steps)) = Len(steps) - 1
           /\ DOMAIN steps = 1..Len(steps) /\ DOMAIN Tail(steps) = 1..Len(steps) - 1
           /\ \A i \in 1..Len(steps) - 1 : Tail(steps)[i] = steps[i + 1]
  OBVIOUS

LEMMA RequestTypedInit == DoorsInit => RequestTyped
  BY ChangesAssumption DEF DoorsInit, RequestTyped, Waiting, Person

LEMMA StartTyped ==
    ASSUME NEW door \in AllDoors, NEW who \in Person,
           NEW token \in {"account", "oauth", "none"}, Start(door, who, token)
    PROVE  RequestTyped'
<1>1. /\ Bearing(door.steps) \in Seq(Steps) /\ Bearing(door.steps) # <<>>
      /\ Bearing(door.steps)[Len(Bearing(door.steps))] \in Acts
  BY DoorsAct
<1>2. /\ request'.steps = Bearing(door.steps) /\ request'.who = who
      /\ request'.left = Changes /\ request'.token \in {token, "none"}
  BY DEF Start, Received, Waiting
<1>3. request' # Waiting
  BY <1>1, <1>2 DEF Waiting
<1> QED
  BY <1>1, <1>2, <1>3, ChangesAssumption DEF RequestTyped

\* What is left of the steps.
LEMMA StepsLeftAre ==
    ASSUME NEW s, NEW q, NEW p
    PROVE  \/ StepsLeft(s, q, p) = Tail(q.steps)
           \/ StepsLeft(s, q, p) = Tail(Tail(q.steps)) /\ s = "unlessFollows"
           \/ StepsLeft(s, q, p) = <<q.steps[Len(q.steps)]>>
  BY DEF StepsLeft, Skips, ForFollowers

LEMMA StepTyped == RequestTyped /\ Step => RequestTyped'
<1> SUFFICES ASSUME RequestTyped, Step PROVE RequestTyped'
  OBVIOUS
<1> DEFINE steps == request.steps
           s == Head(steps)
           next == Passed(s, request, project)
<1>1. steps \in Seq(Steps) /\ steps # <<>> /\ steps[Len(steps)] \in Acts
  BY DEF RequestTyped, Step
<1>2. CASE request' = Waiting
  BY <1>2, ChangesAssumption DEF RequestTyped, Waiting, Person
<1>3. CASE request' = next /\ next.steps # <<>>
  <2>1. /\ next.who = request.who /\ next.token = request.token
        /\ next.left = request.left /\ next.steps = StepsLeft(s, request, project)
        /\ \/ next.steps = Tail(steps)
           \/ next.steps = Tail(Tail(steps)) /\ s = "unlessFollows"
           \/ next.steps = <<steps[Len(steps)]>>
    <3>1. /\ next.who = request.who /\ next.token = request.token
          /\ next.left = request.left /\ next.steps = StepsLeft(s, request, project)
      BY DEF Passed
    <3> HIDE DEF next
    <3> QED
      BY <3>1, StepsLeftAre
  <2>2. Tail(steps) \in Seq(Steps)
        /\ (Tail(steps) # <<>> => Tail(steps)[Len(Tail(steps))] \in Acts)
    BY <1>1, TailOfSteps
  <2>3. ASSUME s = "unlessFollows" PROVE Tail(steps) # <<>>
    <3>1. steps[1] = "unlessFollows"
      BY <1>1, <2>3, TailOfSteps
    <3>2. Len(steps) # 1
      BY <1>1, <3>1 DEF Acts
    <3>3. Len(Tail(steps)) # 0
      BY <1>1, <3>2, TailOfSteps
    <3>4. Tail(steps) = <<>> => Len(Tail(steps)) = 0
      <4>1. Len(<<>>) = 0
        OBVIOUS
      <4> QED
        BY <4>1
    <3> QED
      BY <3>3, <3>4
  <2>4. Tail(steps) # <<>> =>
          /\ Tail(Tail(steps)) \in Seq(Steps)
          /\ Tail(Tail(steps)) # <<>> => Tail(Tail(steps))[Len(Tail(Tail(steps)))] \in Acts
    <3> SUFFICES ASSUME Tail(steps) # <<>>
                 PROVE  /\ Tail(Tail(steps)) \in Seq(Steps)
                        /\ Tail(Tail(steps)) # <<>> =>
                             Tail(Tail(steps))[Len(Tail(Tail(steps)))] \in Acts
      OBVIOUS
    <3> DEFINE rest == Tail(steps)
    <3>1. rest \in Seq(Steps) /\ rest # <<>> /\ rest[Len(rest)] \in Acts
      BY <2>2
    <3> HIDE DEF rest
    <3>2. /\ Tail(rest) \in Seq(Steps)
          /\ Tail(rest) # <<>> => Tail(rest)[Len(Tail(rest))] \in Acts
      BY <3>1, TailOfSteps
    <3> QED
      BY <3>2 DEF rest
  <2>5. next.steps \in Seq(Steps) /\ next.steps[Len(next.steps)] \in Acts
    <3>1. CASE next.steps = <<steps[Len(steps)]>>
      <4> DEFINE last == steps[Len(steps)]
      <4>1. last \in Steps /\ last \in Acts
        BY <1>1, TailOfSteps
      <4> HIDE DEF last
      <4>2. <<last>> \in Seq(Steps) /\ <<last>>[Len(<<last>>)] = last
        BY <4>1
      <4> QED
        BY <3>1, <4>1, <4>2 DEF last
    <3> QED
      BY <1>3, <2>1, <2>2, <2>3, <2>4, <3>1
  <2>6. next # Waiting
    BY <1>3 DEF Waiting
  <2> QED
    BY <1>3, <2>1, <2>5, <2>6 DEF RequestTyped
<1> QED
  BY <1>2, <1>3 DEF Step

LEMMA BecomeTyped ==
    ASSUME RequestTyped, NEW p, Become(p)
    PROVE  RequestTyped'
<1>1. /\ request'.steps = request.steps /\ request'.who = request.who
      /\ request'.token = request.token /\ request'.left = request.left - 1
  BY DEF Become
<1>2. request.left \in 1..Changes /\ request.steps # <<>>
  BY ChangesAssumption DEF Become, RequestTyped, Waiting
<1>3. request' # Waiting
  BY <1>1, <1>2 DEF Waiting
<1> QED
  BY <1>1, <1>2, <1>3, ChangesAssumption DEF RequestTyped

\* Whatever others commit, it leaves a project.
LEMMA MeanwhileBecomes ==
    ASSUME project \in Project, Meanwhile
    PROVE  \E p \in Project : Become(p)
<1> USE DEF Project, Mode, Role
<1>1. CASE RoleChanges
  BY <1>1 DEF RoleChanges, Granted
<1>2. CASE AccessRevoked
  BY <1>2 DEF AccessRevoked, Revoked
<1>3. CASE UserBlocked
  BY <1>3 DEF UserBlocked, Blocked
<1>4. CASE UserUnblocked
  BY <1>4 DEF UserUnblocked, Unblocked
<1>5. CASE ModeChanges
  BY <1>5 DEF ModeChanges, InMode
<1>6. CASE ProjectDeleted
  BY <1>6 DEF ProjectDeleted
<1>7. CASE IssueDeleted
  BY <1>7 DEF IssueDeleted
<1>8. CASE IssueRestored
  BY <1>8 DEF IssueRestored
<1>9. CASE PrivacyChanges
  BY <1>9 DEF PrivacyChanges
<1>10. CASE ReporterChanges
  BY <1>10 DEF ReporterChanges
<1> QED
  BY <1>1, <1>2, <1>3, <1>4, <1>5, <1>6, <1>7, <1>8, <1>9, <1>10 DEF Meanwhile

DoorsTyped ==
    project \in Project /\ setting = [s \in Setter |-> "idle"] /\ RequestTyped

LEMMA DoorsTypedStep == DoorsTyped /\ [DoorsNext]_doorVars => DoorsTyped'
<1> SUFFICES ASSUME DoorsTyped, [DoorsNext]_doorVars PROVE DoorsTyped'
  OBVIOUS
<1> USE DEF DoorsTyped
<1>1. ASSUME NEW door \in AllDoors, NEW who \in Person, NEW token \in {"account", "oauth", "none"},
             Start(door, who, token)
      PROVE  DoorsTyped'
  <2>1. RequestTyped'
    BY <1>1, StartTyped
  <2> QED
    BY <1>1, <2>1 DEF Start, permissionVars
<1>2. CASE Step
  BY <1>2, StepTyped DEF Step, permissionVars
<1>3. CASE Refuse
  <2>1. RequestTyped'
    BY <1>3, ChangesAssumption DEF Refuse, RequestTyped, Waiting, Person
  <2> QED
    BY <1>3, <2>1 DEF Refuse, permissionVars
<1>4. CASE Meanwhile
  <2>1. PICK p \in Project : Become(p)
    BY <1>4, MeanwhileBecomes
  <2>2. RequestTyped'
    BY <2>1, BecomeTyped
  <2> QED
    BY <2>1, <2>2 DEF Become
<1>5. CASE UNCHANGED doorVars
  BY <1>5 DEF doorVars, permissionVars, RequestTyped
<1> QED
  BY <1>1, <1>2, <1>3, <1>4, <1>5 DEF DoorsNext

LEMMA DoorsTypedInit == DoorsInit => DoorsTyped
  BY RequestTypedInit DEF DoorsInit, DoorsTyped

LEMMA DoorsTypedSays == DoorsTyped => DoorsTypeOK
  BY DEF DoorsTyped, RequestTyped, DoorsTypeOK

\* Every reachable state of a request and of the project under it is well typed,
\* and a request that is under way has steps left (the handlers of the API, the
\* pages and the MCP tools).
THEOREM DoorsStayTyped == DoorsSpec => []DoorsTypeOK
  BY DoorsTypedSays, DoorsTypedInit, DoorsTypedStep, PTL DEF DoorsSpec

-------------------------------------------------------------------------------
(* What a request needs it meets at a step that asks for it.                   *)

\* Without a credential there is nothing more to stand on.
LEMMA LessStanding ==
    ASSUME NEW who, NEW token, NEW p
    PROVE  Standing(who, "none", p) \subseteq Standing(who, token, p)
  BY DEF Standing

LEMMA BarredAtTheDoor ==
    ASSUME NEW door \in AllDoors, NEW who \in Person,
           NEW token \in {"account", "oauth", "none"}, Start(door, who, token),
           NEW heeds, Guarded(door, heeds)
    PROVE  DoorsInv(heeds)'
<1> DEFINE steps == Bearing(door.steps)
           need == Need(door.does)
           before == {i \in DOMAIN steps : Reached(steps, i, need, heeds)}
           q == request'
<1> SUFFICES ASSUME q.need # {}
             PROVE  Unentitled' /\ Barred(q, heeds) /\ Unheard(request, project)'
  BY DEF DoorsInv
<1>1. /\ q.steps = steps /\ q.who = who /\ q.need = need /\ q.loaded = Unloaded
      /\ \A right \in need : right \notin Standing(who, token, project)
      /\ q.token = IF ToSet(steps) \cap AboutToken = {} THEN "none" ELSE token
      /\ project' = project
  BY DEF Start, Received, Waiting, Wanting, permissionVars
<1>2. Unentitled' /\ Unheard(request, project)'
  <2>1. Standing(who, q.token, project) \subseteq Standing(who, token, project)
    BY <1>1, LessStanding
  <2>2. \A right \in q.need : right \notin Standing(q.who, q.token, project)
    BY <1>1, <2>1
  <2>3. Unheard(q, project)
    BY <1>1, <2>2, UnheardAfresh
  <2> QED
    BY <1>1, <2>2, <2>3 DEF Unentitled, Unheard
<1> SUFFICES Barred(q, heeds)
  BY <1>2
<1>3. \/ who # "anonymous" /\ token # "none"
      \/ need \cap {"read", "sees", "membersOnly", "reports"} # {}
  BY DEF Start, Mcp, Rest, Pages, Visitor, anonymousProjectReadAllowed
<1>4. need \in {{"account"}, {"admin"}} => who # "anonymous" /\ token # "none"
  BY <1>3
<1>5. ASSUME NEW i \in before, steps[i] = "firstParty", token = "oauth"
      PROVE  Barred(q, heeds)
  <2>1. "firstParty" \in ToSet(steps)
    BY <1>5 DEF ToSet
  <2>2. q.token = "oauth"
    BY <1>1, <1>5, <2>1 DEF AboutToken
  <2> QED
    BY <1>1, <1>5, <2>2 DEF Barred, Bars
<1>6. CASE \E i \in before :
             \/ Checks(steps[i], need, heeds)
             \/ \E j \in 1..i - 1 :
                  LastRefresh(steps, i, j) /\ ChecksAfter(steps[j], steps[i], need, heeds)
  <2>1. PICK i \in before :
          \/ Checks(steps[i], need, heeds)
          \/ \E j \in 1..i - 1 :
               LastRefresh(steps, i, j) /\ ChecksAfter(steps[j], steps[i], need, heeds)
    BY <1>6
  <2> HIDE DEF steps, need, q
  <2>2. Bars(q, i, heeds)
    BY <1>1, <2>1 DEF Bars
  <2> QED
    BY <1>1, <2>1, <2>2 DEF Barred
<1>7. CASE need = {"signed in"}
  BY <1>1, <1>3, <1>7, StandingIs
<1>8. CASE need = {"account"} /\ door \notin McpDoorsSet \cup RestDoorsSet
  <2>1. token = "account"
    BY <1>4, <1>8 DEF Start, Pages, Mcp, Visitor
  <2> QED
    BY <1>1, <1>8, <2>1, StandingIs
<1>9. CASE need = {"account"} /\ \E i \in before : steps[i] = "firstParty"
  <2>1. token = "oauth"
    BY <1>1, <1>4, <1>9, StandingIs
  <2>2. PICK i \in before : steps[i] = "firstParty"
    BY <1>9
  <2> HIDE DEF steps, need, q, before
  <2> QED
    BY <1>5, <2>1, <2>2
<1>10. CASE /\ need = {"admin"}
            /\ \E i, j \in before : steps[i] = "firstParty" /\ steps[j] = "admin"
  <2>1. PICK i \in before, j \in before : steps[i] = "firstParty" /\ steps[j] = "admin"
    BY <1>10
  <2>2. who = "admin" => token = "oauth"
    BY <1>1, <1>4, <1>10, StandingIs
  <2>3. j \in DOMAIN steps /\ Reached(steps, j, need, heeds)
    BY <2>1
  <2> HIDE DEF steps, need, q, before
  <2>4. CASE who # "admin"
    BY <1>1, <2>1, <2>3, <2>4 DEF Barred, Bars
  <2>5. CASE who = "admin"
    BY <1>5, <2>1, <2>2, <2>5
  <2> QED
    BY <2>4, <2>5
<1> QED
  BY <1>6, <1>7, <1>8, <1>9, <1>10 DEF Guarded

\* After a step that is no refresh the request knows no more than before, and what it
\* loads is the issue of the project.
LEMMA PassedKnows ==
    ASSUME NEW s, NEW q, NEW p
    PROVE  LET next == Passed(s, q, p) IN
           /\ next.need = q.need /\ next.who = q.who /\ next.token = q.token
           /\ next.left = q.left /\ next.steps = StepsLeft(s, q, p)
           /\ next.loaded \in {Unloaded, q.loaded, Loaded(p)}
           /\ s \notin Refreshes =>
                next.seen \in {{}, q.seen} /\ next.loaded \in {Unloaded, q.loaded}
  BY DEF Passed, Remembered, Refreshes

\* So it stays unentitled by the issue that it loaded.
LEMMA StillUnheard ==
    ASSUME NEW s, NEW q, NEW p, Unheard(q, p),
           \A right \in q.need : right \notin Standing(q.who, q.token, p)
    PROVE  Unheard(Passed(s, q, p), p)
<1> DEFINE next == Passed(s, q, p)
<1>1. /\ next.need = q.need /\ next.who = q.who /\ next.token = q.token
      /\ next.loaded \in {Unloaded, q.loaded, Loaded(p)}
  BY PassedKnows
<1> HIDE DEF next
<1>2. CASE next.loaded \in {Unloaded, Loaded(p)}
  BY <1>1, <1>2, UnheardAfresh DEF next
<1>3. CASE next.loaded = q.loaded
  BY <1>1, <1>3 DEF Unheard, next
<1> QED
  BY <1>1, <1>2, <1>3 DEF next

\* A request that goes on comes nearer to the step that bars it.
LEMMA StillBarred ==
    ASSUME NEW heeds, RequestTyped, DoorsInv(heeds), Step, request'.need # {}
    PROVE  DoorsInv(heeds)'
<1> DEFINE q == request
           s == Head(q.steps)
           next == Passed(s, q, project)
<1>1. /\ q.steps \in Seq(Steps) /\ q.steps # <<>>
      /\ request' = next /\ Answer(s, q, project) = "ok" /\ project' = project
  BY DEF RequestTyped, Step, Waiting, permissionVars
<1>2. /\ Len(q.steps) \in Nat \ {0} /\ s = q.steps[1]
      /\ DOMAIN q.steps = 1..Len(q.steps) /\ DOMAIN Tail(q.steps) = 1..Len(q.steps) - 1
      /\ \A i \in 1..Len(q.steps) - 1 : Tail(q.steps)[i] = q.steps[i + 1]
  BY <1>1, TailOfSteps
<1>3. /\ next.need = q.need /\ next.who = q.who /\ next.token = q.token
      /\ next.steps = StepsLeft(s, q, project)
      /\ s \notin Refreshes =>
           next.seen \in {{}, q.seen} /\ next.loaded \in {Unloaded, q.loaded}
  BY PassedKnows
<1>4. q.need # {} /\ Unentitled /\ Barred(q, heeds) /\ (heeds => Unheard(q, project))
  BY <1>1, <1>3 DEF DoorsInv
<1>5. Unentitled' /\ (heeds => Unheard(next, project))
  BY <1>1, <1>3, <1>4, StillUnheard DEF Unentitled
<1>6. PICK i \in DOMAIN q.steps : Reached(q.steps, i, q.need, heeds) /\ Bars(q, i, heeds)
  BY <1>4 DEF Barred
<1>7. i # 1
  BY <1>1, <1>2, <1>4, <1>6, BarsRefuse DEF Unentitled
<1>8. i \in 2..Len(q.steps) /\ i - 1 \in DOMAIN Tail(q.steps)
  BY <1>2, <1>6, <1>7
<1>9. s \in ForFollowers => heeds /\ "follows" \in q.need
  <2>1. 1 \in 1..i
    BY <1>8
  <2> QED
    BY <1>2, <1>6, <2>1 DEF Reached, Passes
<1>10. next.steps = Tail(q.steps)
  <2>1. s \in ForFollowers => ~Following(q.who, q.loaded, Rights(q.who, project))
    BY <1>4, <1>9 DEF Unheard, Following
  <2>2. ~Skips(s, q, project)
    BY <2>1 DEF Skips
  <2> QED
    BY <1>3, <2>2 DEF StepsLeft
<1> HIDE DEF next
<1>11. \A k \in 1..i - 1 : next.steps[k] = q.steps[k + 1]
  BY <1>2, <1>8, <1>10
<1>12. Reached(next.steps, i - 1, next.need, heeds)
  <2>1. \A k \in 1..i - 1 : k + 1 \in 1..i
    BY <1>8
  <2> QED
    BY <1>3, <1>6, <1>11, <2>1 DEF Reached
<1>13. next.steps[i - 1] = q.steps[i]
  BY <1>8, <1>11
<1>14. Bars(next, i - 1, heeds)
  <2>1. CASE Checks(q.steps[i], q.need, heeds)
    BY <1>3, <1>13, <2>1 DEF Bars
  <2>2. ASSUME NEW j \in 1..i - 1, LastRefresh(q.steps, i, j),
               ChecksAfter(q.steps[j], q.steps[i], q.need, heeds)
        PROVE  Bars(next, i - 1, heeds)
    <3>1. CASE j = 1
      <4>1. RefusesRecall(next, q.steps[i])
        BY <1>2, <1>4, <2>2, <3>1, RememberedRefuses DEF Unentitled, next
      <4>2. ASSUME NEW k \in 1..i - 2 PROVE next.steps[k] \notin Refreshes
        <5>1. k \in 1..i - 1 /\ k + 1 \in j + 1..i - 1
          BY <1>8, <3>1
        <5> QED
          BY <1>11, <2>2, <5>1 DEF LastRefresh
      <4> QED
        BY <1>8, <1>13, <4>1, <4>2 DEF Bars
    <3>2. CASE j # 1
      <4>1. j - 1 \in 1..i - 2 /\ next.steps[j - 1] = q.steps[j]
        BY <1>8, <1>11, <2>2, <3>2
      <4>2. ASSUME NEW k \in (j - 1) + 1..(i - 1) - 1 PROVE next.steps[k] \notin Refreshes
        <5>1. k \in 1..i - 1 /\ k + 1 \in j + 1..i - 1
          BY <1>8, <4>1
        <5> QED
          BY <1>11, <2>2, <5>1 DEF LastRefresh
      <4>3. LastRefresh(next.steps, i - 1, j - 1)
        BY <2>2, <4>1, <4>2 DEF LastRefresh
      <4> QED
        BY <1>3, <1>8, <1>13, <2>2, <4>1, <4>3 DEF Bars
    <3> QED
      BY <3>1, <3>2
  <2>3. CASE RefusesRecall(q, q.steps[i]) /\ \A k \in 1..i - 1 : q.steps[k] \notin Refreshes
    <3>1. s \notin Refreshes
      BY <1>2, <1>8, <2>3
    <3>2. next.seen \in {{}, q.seen} /\ next.loaded \in {Unloaded, q.loaded}
      BY <1>3, <3>1
    <3>3. RefusesRecall(next, q.steps[i])
      BY <1>3, <2>3, <3>2 DEF RefusesRecall, Follows, Unloaded
    <3>4. ASSUME NEW k \in 1..i - 2 PROVE next.steps[k] \notin Refreshes
      <4>1. k \in 1..i - 1 /\ k + 1 \in 1..i - 1
        BY <1>8
      <4> QED
        BY <1>11, <2>3, <4>1
    <3> QED
      BY <1>8, <1>13, <3>3, <3>4 DEF Bars
  <2>4. CASE q.steps[i] = "admin" /\ q.who # "admin"
    BY <1>3, <1>13, <2>4 DEF Bars
  <2>5. CASE q.steps[i] = "firstParty" /\ q.token = "oauth"
    BY <1>3, <1>13, <2>5 DEF Bars
  <2> QED
    BY <1>6, <2>1, <2>2, <2>3, <2>4, <2>5 DEF Bars
<1>15. Barred(next, heeds)
  BY <1>8, <1>10, <1>12, <1>14 DEF Barred
<1> QED
  BY <1>1, <1>5, <1>15 DEF DoorsInv

\* Not both the rights of a caller and the issue they loaded are others than when it
\* was loaded.
OneIsAsItWas ==
    request # Waiting =>
      \/ Rights(request.who, project') = Rights(request.who, project)
      \/ request.loaded \in {Unloaded, Loaded(project')}

\* A change that entitles ends what the request needs; no other touches it.
LEMMA BarredMeanwhile ==
    ASSUME NEW heeds, DoorsInv(heeds), NEW p, Become(p), heeds => OneIsAsItWas
    PROVE  DoorsInv(heeds)'
<1> SUFFICES ASSUME request'.need # {}
             PROVE  /\ Unentitled' /\ Barred(request', heeds)
                    /\ heeds => Unheard(request', p)
  BY DEF DoorsInv, Become
<1>1. /\ request'.need = Wanting(request.need, request.who, request.token, p)
      /\ request'.steps = request.steps /\ request'.who = request.who
      /\ request'.token = request.token /\ request'.seen = request.seen
      /\ request'.loaded = request.loaded /\ project' = p
  BY DEF Become
<1>2. /\ request'.need = request.need
      /\ \A right \in request.need : right \notin Standing(request.who, request.token, p)
  BY <1>1 DEF Wanting
<1>3. Unentitled'
  BY <1>1, <1>2 DEF Unentitled
<1>4. Barred(request, heeds) /\ (heeds => Unheard(request, project))
  BY <1>2 DEF DoorsInv
<1>5. Barred(request', heeds)
  BY <1>1, <1>2, <1>4 DEF Barred, Bars, RefusesRecall
<1>6. ASSUME heeds PROVE Unheard(request', p)
  <2>1. request # Waiting
    BY <1>2 DEF Waiting
  <2>2. CASE Rights(request.who, p) = Rights(request.who, project)
    <3>1. Unheard(request, p)
      BY <1>4, <1>6, <2>2 DEF Unheard
    <3> QED
      BY <1>1, <1>2, <3>1 DEF Unheard
  <2>3. CASE request'.loaded \in {Unloaded, Loaded(p)}
    BY <1>1, <1>2, <2>3, UnheardAfresh
  <2> QED
    BY <1>1, <1>6, <2>1, <2>2, <2>3 DEF OneIsAsItWas
<1> QED
  BY <1>3, <1>5, <1>6

\* The request comes through a door that is guarded, heeding what was loaded or not.
AtGuarded(heeds) ==
    \/ request # Waiting \/ request' = Waiting
    \/ \E door \in AllDoors, who \in Person, token \in {"account", "oauth", "none"} :
         Guarded(door, heeds) /\ Start(door, who, token)

LEMMA DoorsInvStep ==
    ASSUME NEW heeds, DoorsTyped, DoorsInv(heeds), [DoorsNext]_doorVars,
           [AtGuarded(heeds)]_doorVars, heeds => OneIsAsItWas
    PROVE  DoorsInv(heeds)'
<1>1. CASE request' = Waiting
  BY <1>1 DEF DoorsInv, Waiting
<1>2. CASE request = Waiting /\ request' # Waiting
  <2>1. PICK door \in AllDoors, who \in Person, token \in {"account", "oauth", "none"} :
          Guarded(door, heeds) /\ Start(door, who, token)
    BY <1>2 DEF AtGuarded, doorVars, permissionVars
  <2> QED
    BY <2>1, BarredAtTheDoor
<1>3. CASE Step
  BY <1>3, StillBarred DEF DoorsInv, DoorsTyped
<1>4. CASE Meanwhile
  <2>1. PICK p \in Project : Become(p)
    BY <1>4, MeanwhileBecomes DEF DoorsTyped
  <2> QED
    BY <2>1, BarredMeanwhile
<1>5. CASE UNCHANGED doorVars
  BY <1>5 DEF doorVars, permissionVars, DoorsInv, Unentitled, Unheard
<1> QED
  BY <1>1, <1>2, <1>3, <1>4, <1>5 DEF DoorsNext, Refuse

LEMMA DoorsInvInit ==
    ASSUME NEW heeds, DoorsInit
    PROVE  DoorsInv(heeds)
  BY DEF DoorsInit, DoorsInv, Waiting

LEMMA BarredAreEntitled ==
    ASSUME NEW heeds, DoorsTyped, DoorsInv(heeds)
    PROVE  Entitled
<1> SUFFICES ASSUME request # Waiting, Head(request.steps) \in Acts, request.need # {}
             PROVE  FALSE
  BY DEF Entitled
<1>1. PICK i \in DOMAIN request.steps : Reached(request.steps, i, request.need, heeds)
  BY DEF DoorsInv, Barred
<1>2. request.steps \in Seq(Steps) /\ request.steps # <<>>
  BY DEF DoorsTyped, RequestTyped
<1>3. 1 \in 1..i /\ Head(request.steps) = request.steps[1]
  BY <1>1, <1>2, TailOfSteps
<1> QED
  BY <1>1, <1>3 DEF Reached, Passes

\* One change leaves either the issue or everyone's rights to the project as they were.
LEMMA ChangesOneOf ==
    ASSUME project \in Project, Meanwhile
    PROVE  \/ Loaded(project') = Loaded(project)
           \/ \A who : Rights(who, project') = Rights(who, project)
<1> USE DEF Project
<1>1. CASE RoleChanges \/ AccessRevoked \/ UserBlocked \/ UserUnblocked \/ ModeChanges
           \/ ProjectDeleted
  BY <1>1 DEF RoleChanges, AccessRevoked, UserBlocked, UserUnblocked, ModeChanges,
              ProjectDeleted, Become, Granted, Revoked, Blocked, Unblocked, InMode, Loaded
<1>2. CASE IssueDeleted \/ IssueRestored \/ PrivacyChanges \/ ReporterChanges
  <2>1. /\ project'.live = project.live /\ project'.mode = project.mode
        /\ project'.role = project.role /\ project'.blocked = project.blocked
    BY <1>2 DEF IssueDeleted, IssueRestored, PrivacyChanges, ReporterChanges, Become
  <2> QED
    BY <2>1 DEF Rights, Ordinary
<1> QED
  BY <1>1, <1>2 DEF Meanwhile

LEMMA FreshIsAsItWas ==
    ASSUME DoorsTyped, [DoorsNext]_doorVars,
           request.loaded \in {Unloaded, Loaded(project)}
    PROVE  OneIsAsItWas
<1>1. CASE Meanwhile
  BY <1>1, ChangesOneOf DEF DoorsTyped, OneIsAsItWas
<1>2. CASE project' = project
  BY <1>2 DEF OneIsAsItWas
<1> QED
  BY <1>1, <1>2 DEF DoorsNext, Start, Step, Refuse, doorVars, permissionVars

-------------------------------------------------------------------------------
(* Who acts is entitled.                                                       *)

\* The request comes through a door where no right to the issue is needed.
AtTheProject ==
    \/ request # Waiting \/ request' = Waiting
    \/ \E door \in AboutTheProject, who \in Person, token \in {"account", "oauth", "none"} :
         Start(door, who, token)

\* However many changes land between the steps of a request, where no right to the issue
\* is needed it never gets to act for someone who was at no moment of the request
\* entitled to it: the right is asked for in one query, and what is recalled of it
\* was so when it was read (requireProjectAccess, uiRequireProjectAccess).
THEOREM RightsToTheProjectHold ==
    DoorsSpec /\ [][AtTheProject]_doorVars => []Entitled
<1>1. [AtTheProject]_doorVars => [AtGuarded(FALSE)]_doorVars
  BY DoorsAreGuarded DEF AtTheProject, AtGuarded, AboutTheProject
<1>2. DoorsTyped /\ DoorsInv(FALSE) /\ [DoorsNext]_doorVars /\ [AtTheProject]_doorVars =>
        DoorsInv(FALSE)'
  BY <1>1, DoorsInvStep
<1>3. DoorsInit => DoorsInv(FALSE)
  BY DoorsInvInit
<1>4. DoorsTyped /\ DoorsInv(FALSE) => Entitled
  BY BarredAreEntitled
<1> QED
  BY <1>2, <1>3, <1>4, DoorsTypedInit, DoorsTypedStep, PTL DEF DoorsSpec

LEMMA AllAreGuarded == [DoorsNext]_doorVars => [AtGuarded(TRUE)]_doorVars
<1> SUFFICES ASSUME DoorsNext, request = Waiting, request' # Waiting PROVE AtGuarded(TRUE)
  BY DEF AtGuarded, doorVars
<1>1. PICK door \in AllDoors, who \in Person, token \in {"account", "oauth", "none"} :
        Start(door, who, token)
  <2>1. ~Meanwhile
    BY DEF Meanwhile, RoleChanges, AccessRevoked, UserBlocked, UserUnblocked, ModeChanges,
           ProjectDeleted, IssueDeleted, IssueRestored, PrivacyChanges, ReporterChanges,
           Become, Waiting
  <2> QED
    BY <2>1 DEF DoorsNext, Step, Refuse
<1> QED
  BY <1>1, DoorsAreGuarded DEF AtGuarded

\* The caller's rights to the project do not change while the issue that the request
\* loaded is no longer as it was.
RightsStayWhileStale ==
    request # Waiting /\ request.loaded \notin {Unloaded, Loaded(project)} =>
      Rights(request.who, project') = Rights(request.who, project)

\* Where a right to the issue is needed, however many changes land, someone who was at no
\* moment entitled acts only if both the issue and their rights change between its load
\* and its check (issueFromRoute then issueRouteAccess, mcpIssue, uiIssuePage).
THEOREM RightsToTheIssueHold ==
    DoorsSpec /\ [][RightsStayWhileStale]_doorVars => []Entitled
<1>1. DoorsTyped /\ [DoorsNext]_doorVars /\ [RightsStayWhileStale]_doorVars => OneIsAsItWas
  BY FreshIsAsItWas DEF RightsStayWhileStale, OneIsAsItWas, doorVars, permissionVars
<1>2. DoorsTyped /\ DoorsInv(TRUE) /\ [DoorsNext]_doorVars /\ [RightsStayWhileStale]_doorVars =>
        DoorsInv(TRUE)'
  BY <1>1, AllAreGuarded, DoorsInvStep
<1>3. DoorsInit => DoorsInv(TRUE)
  BY DoorsInvInit
<1>4. DoorsTyped /\ DoorsInv(TRUE) => Entitled
  BY BarredAreEntitled
<1> QED
  BY <1>2, <1>3, <1>4, DoorsTypedInit, DoorsTypedStep, PTL DEF DoorsSpec

\* What a request loaded is as it was until something changed.
LoadedAfresh ==
    request # Waiting /\ request.left = Changes => request.loaded \in {Unloaded, Loaded(project)}

LEMMA LoadedAfreshStep == DoorsTyped /\ LoadedAfresh /\ [DoorsNext]_doorVars => LoadedAfresh'
<1> SUFFICES ASSUME DoorsTyped, LoadedAfresh, [DoorsNext]_doorVars,
                    request' # Waiting, request'.left = Changes
             PROVE  request'.loaded \in {Unloaded, Loaded(project')}
  BY DEF LoadedAfresh
<1>1. ASSUME NEW door \in AllDoors, NEW who \in Person,
             NEW token \in {"account", "oauth", "none"}, Start(door, who, token)
      PROVE  request'.loaded = Unloaded
  BY <1>1 DEF Start, Received, Waiting
<1>2. CASE Step
  <2>1. /\ request' = Passed(Head(request.steps), request, project)
        /\ request # Waiting /\ project' = project
    BY <1>2 DEF Step, permissionVars
  <2>2. /\ request'.left = request.left
        /\ request'.loaded \in {Unloaded, request.loaded, Loaded(project)}
    BY <2>1, PassedKnows
  <2> QED
    BY <2>1, <2>2 DEF LoadedAfresh
<1>3. CASE Meanwhile
  <2>1. PICK p \in Project : Become(p)
    BY <1>3, MeanwhileBecomes DEF DoorsTyped
  <2>2. request'.left = request.left - 1 /\ request.left \in 0..Changes
    BY <2>1 DEF Become, DoorsTyped, RequestTyped
  <2> QED
    BY <2>2, ChangesAssumption
<1>4. CASE UNCHANGED doorVars
  BY <1>4 DEF LoadedAfresh, doorVars, permissionVars
<1> QED
  BY <1>1, <1>2, <1>3, <1>4 DEF DoorsNext, Refuse

\* Whatever one change lands between two steps of a request, also between the load of an
\* issue and the check of the rights to it, at no door it gets to act for someone who
\* was at no moment of the request entitled to it.
THEOREM OneChangeIsHarmless ==
    ASSUME Changes <= 1
    PROVE  DoorsSpec => []Entitled
<1>1. DoorsTyped /\ LoadedAfresh /\ [DoorsNext]_doorVars => OneIsAsItWas
  <2> SUFFICES ASSUME DoorsTyped, LoadedAfresh, [DoorsNext]_doorVars, request # Waiting
               PROVE  OneIsAsItWas
    BY DEF OneIsAsItWas
  <2>1. CASE request.left = Changes
    BY <2>1, FreshIsAsItWas DEF LoadedAfresh
  <2>2. CASE request.left # Changes
    <3>1. request.left = 0
      BY <2>2, ChangesAssumption DEF DoorsTyped, RequestTyped
    <3>2. ~Meanwhile
      BY <3>1 DEF Meanwhile, RoleChanges, AccessRevoked, UserBlocked, UserUnblocked,
                  ModeChanges, ProjectDeleted, IssueDeleted, IssueRestored,
                  PrivacyChanges, ReporterChanges, Become
    <3>3. project' = project
      BY <3>2 DEF DoorsNext, Start, Step, Refuse, doorVars, permissionVars
    <3> QED
      BY <3>3 DEF OneIsAsItWas
  <2> QED
    BY <2>1, <2>2
<1>2. DoorsTyped /\ LoadedAfresh /\ DoorsInv(TRUE) /\ [DoorsNext]_doorVars => DoorsInv(TRUE)'
  BY <1>1, AllAreGuarded, DoorsInvStep
<1>3. DoorsInit => DoorsInv(TRUE) /\ LoadedAfresh
  BY DoorsInvInit DEF DoorsInit, LoadedAfresh
<1>4. DoorsTyped /\ DoorsInv(TRUE) => Entitled
  BY BarredAreEntitled
<1> QED
  BY <1>2, <1>3, <1>4, LoadedAfreshStep, DoorsTypedInit, DoorsTypedStep, PTL DEF DoorsSpec

-------------------------------------------------------------------------------
(* An issue its caller may not see.                                            *)

WithoutIssue(p) == [p EXCEPT !.issue = "none"]

\* The issue of p is hidden from someone who did not report it.
HiddenFrom(who, p) ==
    /\ p.issue = "live" /\ ~(who = "user" /\ p.mine)
    /\ Hides(Rights(who, p), p.private) \/ "reports" \in Rights(who, p)

\* The requests of who that have not come to the issue of p.
Before(who, token, p) ==
    {q \in [steps : Seq(Steps), need : {{}}, who : {who}, token : {token},
            loaded : {Unloaded}, left : {0},
            seen : {{}, Rights(who, p), Narrowed(who, Unloaded, Rights(who, p))}] :
       /\ q.steps # <<>> /\ q.steps[Len(q.steps)] \in Acts
       /\ ComesByRoute(q.steps)}

\* Rights do not depend on the issue.
LEMMA SameRights ==
    ASSUME NEW p \in Project, NEW who
    PROVE  LET without == WithoutIssue(p) IN
           /\ without.live = p.live /\ without.private = p.private
           /\ without.mine = p.mine /\ without.issue = "none"
           /\ Rights(who, without) = Rights(who, p)
<1> DEFINE without == WithoutIssue(p)
<1>1. /\ without.live = p.live /\ without.private = p.private /\ without.mine = p.mine
      /\ without.issue = "none" /\ without.mode = p.mode /\ without.role = p.role
      /\ without.blocked = p.blocked
  BY DEF WithoutIssue, Project
<1> HIDE DEF without
<1>2. Ordinary(who, without) = Ordinary(who, p)
  BY <1>1 DEF Ordinary
<1>3. Rights(who, without) = Rights(who, p)
  BY <1>1, <1>2 DEF Rights
<1> QED
  BY <1>1, <1>3 DEF without

LEMMA ReportersAreApart ==
    ASSUME NEW p, NEW who, "reports" \in Rights(who, p)
    PROVE  "blocked" \notin Rights(who, p)
  BY DEF Rights, Ordinary, Everything

\* The route to a hidden issue that was loaded refuses it as missing.
LEMMA RouteHides ==
    ASSUME NEW p \in Project, NEW who, HiddenFrom(who, p)
    PROVE  p.live /\ Route(who, Loaded(p), Rights(who, p)) = "missing"
<1> DEFINE issue == Loaded(p)
           rights == Rights(who, p)
           mine == Narrowed(who, issue, rights)
<1>1. /\ issue.issue = "live" /\ issue.private = p.private /\ issue.mine = p.mine
      /\ ~(who = "user" /\ issue.mine)
  BY DEF HiddenFrom, Loaded
<1>2. p.live
  BY DEF HiddenFrom, Hides, Rights
<1> HIDE DEF issue
<1>3. CASE Hides(rights, p.private)
  <2>1. mine = {}
    BY <1>1, <1>3 DEF Narrowed, ForIssue
  <2>2. issueRouteAccess(who, issue, rights) = "missing"
    BY <1>1, <1>3, <2>1 DEF issueRouteAccess
  <2> QED
    BY <1>1, <1>2, <2>2 DEF Route, issue
<1>4. CASE ~Hides(rights, p.private)
  <2>1. mine = rights /\ "reports" \in rights
    BY <1>1, <1>4 DEF Narrowed, ForIssue, HiddenFrom
  <2>2. "blocked" \notin mine
    BY <2>1, ReportersAreApart
  <2>3. ~Follows(who, issue, mine)
    BY <1>1 DEF Follows
  <2>4. issueRouteAccess(who, issue, rights) = "missing"
    BY <1>1, <1>4, <2>1, <2>2, <2>3 DEF issueRouteAccess
  <2> QED
    BY <1>1, <1>2, <2>4 DEF Route, issue
<1> QED
  BY <1>3, <1>4

\* A step that does not look for the issue answers the same with and without it.
LEMMA AnswersAlike ==
    ASSUME NEW p \in Project, NEW q, NEW s, s \notin DOMAIN Loads \cup {"reopen"}
    PROVE  Answer(s, q, p) = Answer(s, q, WithoutIssue(p))
<1> DEFINE without == WithoutIssue(p)
<1>1. /\ Rights(q.who, without) = Rights(q.who, p) /\ without.live = p.live
  BY SameRights
<1> HIDE DEF without
<1> SUFFICES Answer(s, q, p) = Answer(s, q, without)
  BY DEF without
<1>2. CASE s = "project"
  <2>1. \A at : Answer(s, q, at) = Finds(at.live)
    BY <1>2 DEF Answer, Asks, Recalls, Loads
  <2> QED
    BY <1>1, <2>1
<1>3. CASE s \in DOMAIN Asks
  <2>1. \A at : Answer(s, q, at) =
          IF at.live THEN Grants(Asks[s] = {} \/ Asks[s] \cap Rights(q.who, at) # {})
          ELSE "missing"
    BY <1>3 DEF Answer, Asks, Recalls, Loads
  <2> QED
    BY <1>1, <2>1
<1>4. CASE s \in {"route", "issueAccess", "opens", "replies"}
  <2>1. \A at : Answer(s, q, at) =
          IF at.live THEN Judgement(s, q.who, q.loaded, Rights(q.who, at)) ELSE "missing"
    BY <1>4 DEF Answer, Asks, Recalls, Loads
  <2> QED
    BY <1>1, <2>1
<1>5. CASE s \in DOMAIN Recalls
  <2>1. \A at : Answer(s, q, at) =
          IF s = "batch" /\ "privateReport" \in q.seen THEN "missing"
          ELSE Grants(\/ Recalls[s] \cap q.seen # {}
                      \/ s \in {"follow", "comments"} /\ Follows(q.who, q.loaded, q.seen))
    BY <1>5 DEF Answer, Asks, Recalls, Loads
  <2> QED
    BY <2>1
<1>6. CASE /\ s \notin {"project", "route", "issueAccess", "opens", "replies"}
           /\ s \notin DOMAIN Asks /\ s \notin DOMAIN Recalls
  BY <1>6 DEF Answer
<1> QED
  BY <1>2, <1>3, <1>4, <1>5, <1>6

\* One request has its answer with the issue of p, the other without it, and the answers
\* are the same.
BothEnd(q, r, p) ==
    LET without == WithoutIssue(p) IN
    /\ Onward(q, p) = q /\ Onward(r, without) = r
    /\ Answer(Head(q.steps), q, p) = Answer(Head(r.steps), r, without)

\* A request that has not come to the issue goes on to where it has not, or ends alike.
GoesOnAlike(q, p, V) ==
    LET next == Onward(q, p) IN
    \/ /\ Onward(q, WithoutIssue(p)) = next /\ next \in V
       /\ Len(next.steps) = Len(q.steps) - 1
    \/ BothEnd(next, Onward(q, WithoutIssue(p)), p)

\* A request that loads a hidden issue is refused by its route as if it were missing.
LEMMA LoadsAlike ==
    ASSUME NEW p \in Project, NEW who, NEW token, HiddenFrom(who, p),
           NEW q \in Before(who, token, p), Head(q.steps) \in DOMAIN Loads
    PROVE  BothEnd(Onward(q, p), Onward(q, WithoutIssue(p)), p)
<1> DEFINE s == Head(q.steps)
           without == WithoutIssue(p)
           next == Passed(s, q, p)
<1>1. /\ q.steps \in Seq(Steps) /\ q.steps # <<>>
      /\ ComesByRoute(q.steps) /\ q.who = who
  BY DEF Before
<1>2. s = q.steps[1] /\ 1 \in DOMAIN q.steps /\ Len(q.steps) \in Nat
  BY <1>1, TailOfSteps
<1>3. 1 < Len(q.steps) /\ q.steps[2] = "route"
  BY <1>1, <1>2 DEF ComesByRoute
<1>4. \A at : Answer(s, q, at) = Finds(at.live /\ at.issue \in Loads[s])
  BY DEF Answer, Asks, Recalls, Loads
<1>5. Answer(s, q, without) = "missing"
  <2>1. without.issue = "none" /\ "none" \notin Loads[s]
    BY SameRights DEF Loads
  <2> QED
    BY <1>4, <2>1 DEF Finds
<1>6. Onward(q, without) = q
  BY <1>5 DEF Onward
<1>7. CASE Answer(s, q, p) # "ok"
  <2>1. Answer(s, q, p) = "missing"
    BY <1>4, <1>7 DEF Finds
  <2>2. Onward(q, p) = q
    BY <1>7 DEF Onward
  <2> QED
    BY <1>5, <1>6, <2>1, <2>2 DEF BothEnd
<1>8. CASE Answer(s, q, p) = "ok"
  <2>1. Onward(q, p) = next
    BY <1>8 DEF Onward, Loads, Acts
  <2>2. Tail(q.steps)[1] = "route" /\ 1 \in DOMAIN Tail(q.steps) /\ Tail(q.steps) \in Seq(Steps)
    BY <1>1, <1>3, TailOfSteps
  <2>3. "route" \in ToSet(Tail(q.steps))
    BY <2>2 DEF ToSet
  <2>4. StepsLeft(s, q, p) = Tail(q.steps)
    BY DEF StepsLeft, Skips, ForFollowers, Loads
  <2>5. next.steps = Tail(q.steps) /\ next.loaded = Loaded(p) /\ next.who = who
    BY <1>1, <2>3, <2>4 DEF Passed, AboutLoaded
  <2>6. Head(next.steps) = "route"
    <3>1. Len(Tail(q.steps)) # 0
      BY <1>1, <1>3, TailOfSteps
    <3>2. Tail(q.steps) = <<>> => Len(Tail(q.steps)) = 0
      <4>1. Len(<<>>) = 0
        OBVIOUS
      <4> QED
        BY <4>1
    <3> QED
      BY <2>2, <2>5, <3>1, <3>2, TailOfSteps
  <2> HIDE DEF next
  <2>7. Answer("route", next, p) = "missing"
    <3>1. Answer("route", next, p) =
            IF p.live THEN Judgement("route", who, Loaded(p), Rights(who, p)) ELSE "missing"
      BY <2>5 DEF Answer, Asks, Recalls, Loads
    <3> QED
      BY <3>1, RouteHides DEF Judgement
  <2>8. Onward(next, p) = next
    BY <2>6, <2>7 DEF Onward
  <2> QED
    BY <1>5, <1>6, <2>1, <2>6, <2>7, <2>8 DEF BothEnd
<1> QED
  BY <1>7, <1>8

\* A request that has not come to the issue takes the same step with and without
\* it, and has not come to it after the step, or ends alike.
LEMMA OnwardAlike ==
    ASSUME NEW p \in Project, NEW who, NEW token, HiddenFrom(who, p),
           NEW q \in Before(who, token, p)
    PROVE  GoesOnAlike(q, p, Before(who, token, p))
<1> DEFINE s == Head(q.steps)
           without == WithoutIssue(p)
<1>1. /\ q.steps \in Seq(Steps) /\ q.steps # <<>> /\ q.steps[Len(q.steps)] \in Acts
      /\ ComesByRoute(q.steps) /\ q.who = who /\ q.loaded = Unloaded
      /\ q.seen \in {{}, Rights(who, p), Narrowed(who, Unloaded, Rights(who, p))}
      /\ q.need = {} /\ q.token = token /\ q.left = 0
  BY DEF Before
<1>2. CASE s \in DOMAIN Loads
  BY <1>2, LoadsAlike DEF GoesOnAlike
<1> SUFFICES ASSUME s \notin DOMAIN Loads PROVE GoesOnAlike(q, p, Before(who, token, p))
  BY <1>2
<1>3. s = q.steps[1] /\ s \notin {"reopen"} \cup ForFollowers
  <2>1. s = q.steps[1] /\ 1 \in DOMAIN q.steps /\ 1..1 - 1 = {}
    BY <1>1, TailOfSteps
  <2> QED
    BY <1>1, <2>1 DEF ComesByRoute
<1>4. Answer(s, q, p) = Answer(s, q, without)
  BY <1>3, AnswersAlike
<1>5. CASE s \in Acts \/ Answer(s, q, p) # "ok"
  <2>1. Onward(q, p) = q /\ Onward(q, without) = q
    BY <1>4, <1>5 DEF Onward
  <2> QED
    BY <1>4, <2>1 DEF GoesOnAlike, BothEnd
<1>6. CASE s \notin Acts /\ Answer(s, q, p) = "ok"
  <2> DEFINE next == Passed(s, q, p)
             rest == Tail(q.steps)
             rights == Rights(who, p)
             seen(r) == IF ToSet(rest) \cap DOMAIN Recalls = {} THEN {}
                        ELSE Remembered(s, q, r)
  <2>1. \A at : Passed(s, q, at) =
          [q EXCEPT !.steps = rest, !.seen = seen(Rights(who, at)), !.loaded = Unloaded]
    <3>1. \A at : StepsLeft(s, q, at) = rest
      BY <1>3 DEF StepsLeft, Skips
    <3>2. s \notin DOMAIN Loads /\ ~(s = "reopen" /\ q.loaded.issue # "deleted")
      BY <1>3
    <3> HIDE DEF s, rest
    <3>3. ASSUME NEW at
          PROVE  Passed(s, q, at) =
                   [q EXCEPT
                      !.steps = rest,
                      !.seen = IF ToSet(rest) \cap DOMAIN Recalls = {} THEN {}
                               ELSE Remembered(s, q, Rights(q.who, at)),
                      !.loaded = IF ToSet(rest) \cap AboutLoaded = {} THEN Unloaded
                                 ELSE q.loaded]
      <4>1. StepsLeft(s, q, at) = rest
        BY <3>1
      <4> QED
        BY <3>2, <4>1, Zenon DEF Passed
    <3> QED
      BY <1>1, <3>3
  <2>2. Passed(s, q, without) = next
    <3>1. Rights(who, without) = rights
      BY SameRights
    <3> QED
      BY <2>1, <3>1
  <2>3. next = [q EXCEPT !.steps = rest, !.seen = seen(rights), !.loaded = Unloaded]
    BY <2>1
  <2>4. /\ rest \in Seq(Steps) /\ Len(rest) = Len(q.steps) - 1
        /\ DOMAIN rest = 1..Len(q.steps) - 1 /\ Len(q.steps) \in Nat \ {0}
        /\ \A i \in 1..Len(q.steps) - 1 : rest[i] = q.steps[i + 1]
    BY <1>1, TailOfSteps
  <2>5. Len(q.steps) # 1
    BY <1>1, <1>3, <1>6
  <2>6. seen(rights) \in {{}, rights, Narrowed(who, Unloaded, rights)}
    BY <1>1 DEF Remembers, Remembered
  <2> HIDE DEF rest, seen
  <2>7. Len(q.steps) - 1 \in 1..Len(q.steps) - 1
    <3>1. Len(q.steps) \in Nat /\ Len(q.steps) # 0 /\ Len(q.steps) # 1
      BY <2>4, <2>5
    <3>2. \A n \in Nat : n # 0 /\ n # 1 => n - 1 \in 1..n - 1
      OBVIOUS
    <3> QED
      BY <3>1, <3>2
  <2>8. rest # <<>> /\ rest[Len(rest)] \in Acts
    <3>1. rest[Len(rest)] = q.steps[Len(q.steps)] /\ Len(rest) # 0
      BY <2>4, <2>7
    <3>2. rest = <<>> => Len(rest) = 0
      <4>1. Len(<<>>) = 0
        OBVIOUS
      <4> QED
        BY <4>1
    <3> QED
      BY <1>1, <3>1, <3>2
  <2>9. ComesByRoute(rest)
    <3> SUFFICES ASSUME NEW i \in DOMAIN rest,
                        rest[i] \in DOMAIN Loads \cup ForFollowers \cup {"reopen"},
                        \A j \in 1..i - 1 : rest[j] \notin DOMAIN Loads
                 PROVE  /\ rest[i] \in DOMAIN Loads
                        /\ i < Len(rest) /\ rest[i + 1] = "route"
      BY DEF ComesByRoute
    <3>1. /\ i \in 1..Len(q.steps) - 1 /\ rest[i] = q.steps[i + 1]
          /\ i + 1 \in DOMAIN q.steps
      BY <1>1, <2>4, TailOfSteps
    <3>2. ASSUME NEW j \in 1..i + 1 - 1 PROVE q.steps[j] \notin DOMAIN Loads
      <4>1. CASE j = 1
        BY <1>3, <4>1
      <4>2. CASE j # 1
        <5>1. j - 1 \in 1..i - 1 /\ j - 1 \in 1..Len(q.steps) - 1 /\ j - 1 + 1 = j
          BY <2>4, <3>1, <4>2
        <5>2. rest[j - 1] = q.steps[j]
          BY <2>4, <5>1
        <5> QED
          BY <5>1, <5>2
      <4> QED
        BY <4>1, <4>2
    <3>3. /\ q.steps[i + 1] \in DOMAIN Loads
          /\ i + 1 < Len(q.steps) /\ q.steps[i + 1 + 1] = "route"
      BY <1>1, <3>1, <3>2 DEF ComesByRoute
    <3>4. i + 1 \in 1..Len(q.steps) - 1 /\ i < Len(rest)
      BY <2>4, <3>1, <3>3
    <3> QED
      BY <2>4, <3>1, <3>3, <3>4
  <2>10. next \in Before(who, token, p)
    <3>1. next \in [steps : {rest}, need : {{}}, who : {who}, token : {token},
                    loaded : {Unloaded}, left : {0}, seen : {seen(rights)}]
      BY <1>1, <2>3 DEF Before
    <3> QED
      BY <2>4, <2>6, <2>8, <2>9, <3>1 DEF Before
  <2>11. Onward(q, p) = next /\ Onward(q, without) = next
    BY <1>4, <1>6, <2>2 DEF Onward
  <2>12. next.steps = rest
    BY <1>1, <2>3 DEF Before
  <2> QED
    BY <2>4, <2>10, <2>11, <2>12 DEF GoesOnAlike
<1> QED
  BY <1>5, <1>6

\* The values a walk in V takes, step by step, from a.
IsWalk(g, V, a, step, N) ==
    g \in [0..N -> V] /\ g[0] = a /\ \A n \in 1..N : g[n] = step[g[n - 1]]

\* One of them ends with the outcome of request a.
WalksTo(V, a, step, N, p) ==
    \E g :
      /\ IsWalk(g, V, a, step, N)
      /\ Outcome(a, p) = Answer(Head(g[N].steps), g[N], p)

\* The outcome is the answer at the end of a walk.
LEMMA OutcomeIs ==
    ASSUME NEW V, NEW a \in V, NEW N \in Nat, N = Len(a.steps), NEW p,
           NEW step \in [V -> V], \A q \in V : step[q] = Onward(q, p)
    PROVE  WalksTo(V, a, step, N, p)
<1> USE DEF WalksTo, IsWalk
<1> DEFINE Is(g) == g = [n \in 0..N |-> IF n = 0 THEN a ELSE Onward(g[n - 1], p)]
           after == CHOOSE g : Is(g)
<1>1. PICK g \in [0..N -> V] : g[0] = a /\ \A n \in 1..N : g[n] = step[g[n - 1]]
  <2>1. Walks(V, a, step, N)
    BY StepByStep
  <2> QED
    BY <2>1 DEF Walks
<1>2. Is(g)
  <2>1. g = [n \in 0..N |-> g[n]]
    BY <1>1
  <2>2. ASSUME NEW n \in 0..N
        PROVE  g[n] = IF n = 0 THEN a ELSE Onward(g[n - 1], p)
    <3>1. CASE n = 0
      BY <1>1, <3>1
    <3>2. CASE n # 0
      <4>1. n \in 1..N /\ n - 1 \in 0..N
        BY <3>2
      <4>2. g[n] = step[g[n - 1]] /\ g[n - 1] \in V
        BY <1>1, <4>1
      <4> QED
        BY <3>2, <4>2
    <3> QED
      BY <3>1, <3>2
  <2> QED
    BY <2>1, <2>2
<1>3. Outcome(a, p) = Answer(Head(after[N].steps), after[N], p)
  BY DEF Outcome
<1>4. Is(after)
  <2> HIDE DEF Is
  <2> QED
    BY <1>2
<1> HIDE DEF after
<1>5. \A n \in 0..N : after[n] \in V
  <2> DEFINE Bad == {n \in 0..N : after[n] \notin V}
  <2> SUFFICES ASSUME Bad # {} PROVE FALSE
    OBVIOUS
  <2>1. Bad \in SUBSET Nat
    OBVIOUS
  <2>2. PICK n \in Bad : \A k \in Bad : n <= k
    <3> HIDE DEF Bad
    <3> QED
      BY <2>1, LeastExists
  <2>3. n \in 0..N /\ after[n] \notin V
    OBVIOUS
  <2>4. n # 0
    BY <1>4, <2>3
  <2>5. n - 1 \in 0..N /\ n - 1 \notin Bad
    BY <2>2, <2>3, <2>4
  <2>6. after[n - 1] \in V
    BY <2>5
  <2>7. after[n] = Onward(after[n - 1], p)
    BY <1>4, <2>3, <2>4
  <2> QED
    BY <2>3, <2>6, <2>7
<1>6. after \in [0..N -> V] /\ after[0] = a
  <2>1. after = [n \in 0..N |-> after[n]]
    BY <1>4
  <2>2. after[0] = a
    BY <1>4
  <2> QED
    BY <1>5, <2>1, <2>2
<1>7. ASSUME NEW n \in 1..N PROVE after[n] = step[after[n - 1]]
  <2>1. n \in 0..N /\ n # 0 /\ n - 1 \in 0..N
    OBVIOUS
  <2>2. after[n] = Onward(after[n - 1], p) /\ after[n - 1] \in V
    BY <1>4, <1>5, <2>1
  <2> QED
    BY <2>2
<1> QED
  BY <1>3, <1>6, <1>7

\* Requests that have not come to the issue of p, or are one step on.
AtMostOneOn(V, at) == V \cup {Onward(q, at) : q \in V}

\* With and without the issue of p the walks are the same until both have ended alike.
WalkAlike(V, a, p, g, h, n) ==
    \/ g[n] = h[n] /\ g[n] \in V /\ Len(g[n].steps) = Len(a.steps) - n
    \/ BothEnd(g[n], h[n], p)

LEMMA WalksAlike ==
    ASSUME NEW p, NEW V, NEW a \in V, \A q \in V : GoesOnAlike(q, p, V),
           NEW N \in Nat, N = Len(a.steps), NEW g, NEW h, g[0] = a, h[0] = a,
           \A n \in 1..N : g[n] = Onward(g[n - 1], p),
           \A n \in 1..N : h[n] = Onward(h[n - 1], WithoutIssue(p))
    PROVE  WalkAlike(V, a, p, g, h, N)
<1> DEFINE Bad == {n \in 0..N : ~WalkAlike(V, a, p, g, h, n)}
<1> SUFFICES ASSUME Bad # {} PROVE FALSE
  OBVIOUS
<1>1. Bad \in SUBSET Nat
  OBVIOUS
<1>2. PICK n \in Bad : \A k \in Bad : n <= k
  <2> HIDE DEF Bad
  <2> QED
    BY <1>1, LeastExists
<1>3. n \in 0..N /\ ~WalkAlike(V, a, p, g, h, n)
  OBVIOUS
<1>4. n # 0
  <2>1. WalkAlike(V, a, p, g, h, 0)
    BY DEF WalkAlike
  <2> QED
    BY <1>3, <2>1
<1>5. n \in 1..N /\ n - 1 \in 0..N /\ n - 1 \notin Bad
  BY <1>2, <1>3, <1>4
<1>6. WalkAlike(V, a, p, g, h, n - 1)
  BY <1>5
<1>7. g[n] = Onward(g[n - 1], p) /\ h[n] = Onward(h[n - 1], WithoutIssue(p))
  BY <1>5
<1>8. CASE BothEnd(g[n - 1], h[n - 1], p)
  <2>1. g[n] = g[n - 1] /\ h[n] = h[n - 1]
    BY <1>7, <1>8 DEF BothEnd
  <2> QED
    BY <1>3, <1>8, <2>1 DEF WalkAlike
<1>9. CASE /\ g[n - 1] = h[n - 1] /\ g[n - 1] \in V
           /\ Len(g[n - 1].steps) = Len(a.steps) - (n - 1)
  <2>1. GoesOnAlike(g[n - 1], p, V)
    BY <1>9
  <2>2. Len(a.steps) - (n - 1) - 1 = Len(a.steps) - n
    BY <1>5
  <2> QED
    BY <1>3, <1>7, <1>9, <2>1, <2>2 DEF GoesOnAlike, WalkAlike
<1> QED
  BY <1>6, <1>8, <1>9 DEF WalkAlike

LEMMA OutcomesAlike ==
    ASSUME NEW p \in Project, NEW who, HiddenFrom(who, p), NEW token, NEW door \in AllDoors
    PROVE  OutcomeAt(door, who, token, p) = OutcomeAt(door, who, token, WithoutIssue(p))
<1> DEFINE without == WithoutIssue(p)
           V == Before(who, token, p)
           a == [Waiting EXCEPT !.steps = Bearing(door.steps), !.who = who, !.token = token]
           N == Len(a.steps)
           with == AtMostOneOn(V, p)
           apart == AtMostOneOn(V, without)
           step == [q \in with |-> Onward(q, p)]
           stepApart == [q \in apart |-> Onward(q, without)]
<1>1. a \in V /\ N \in Nat
  <2>1. /\ Bearing(door.steps) \in Seq(Steps) /\ Bearing(door.steps) # <<>>
        /\ Bearing(door.steps)[Len(Bearing(door.steps))] \in Acts
    BY DoorsAct
  <2>2. ComesByRoute(Bearing(door.steps))
    BY RouteComesFirst
  <2> DEFINE steps == Bearing(door.steps)
  <2> HIDE DEF steps
  <2>3. /\ a \in [steps : {steps}, need : {{}}, who : {who}, token : {token},
                  loaded : {Unloaded}, left : {0}, seen : {{}}]
        /\ a.steps = steps
    BY DEF Waiting, steps
  <2> QED
    BY <2>1, <2>2, <2>3 DEF Before, steps
<1>2. \A q \in V : GoesOnAlike(q, p, V)
  BY OnwardAlike
<1>3. \A q \in V : q.steps \in Seq(Steps) /\ q.steps # <<>>
  BY DEF Before
<1>4. OutcomeAt(door, who, token, p) = Outcome(a, p)
      /\ OutcomeAt(door, who, token, without) = Outcome(a, without)
  BY DEF OutcomeAt
<1> HIDE DEF V, a
<1>5. \A q \in with : Onward(q, p) \in with
  BY <1>2 DEF AtMostOneOn, GoesOnAlike, BothEnd
<1>6. \A q \in apart : Onward(q, without) \in apart
  BY <1>2 DEF AtMostOneOn, GoesOnAlike, BothEnd
<1>7. a \in with /\ a \in apart
  BY <1>1 DEF AtMostOneOn
<1> HIDE DEF with, apart
<1>8. /\ step \in [with -> with] /\ \A q \in with : step[q] = Onward(q, p)
      /\ stepApart \in [apart -> apart] /\ \A q \in apart : stepApart[q] = Onward(q, without)
  BY <1>5, <1>6
<1>9. N = Len(a.steps)
  OBVIOUS
<1> HIDE DEF step, stepApart, N, without
<1>10. WalksTo(with, a, step, N, p)
  BY <1>1, <1>7, <1>8, <1>9, OutcomeIs
<1>11. WalksTo(apart, a, stepApart, N, without)
  BY <1>1, <1>7, <1>8, <1>9, OutcomeIs
<1>12. PICK g :
         /\ IsWalk(g, with, a, step, N)
         /\ Outcome(a, p) = Answer(Head(g[N].steps), g[N], p)
  BY <1>10 DEF WalksTo
<1>13. PICK h :
         /\ IsWalk(h, apart, a, stepApart, N)
         /\ Outcome(a, without) = Answer(Head(h[N].steps), h[N], without)
  BY <1>11 DEF WalksTo
<1>14. g[0] = a /\ \A n \in 1..N : g[n] = Onward(g[n - 1], p)
  <2>1. ASSUME NEW n \in 1..N PROVE g[n] = Onward(g[n - 1], p)
    <3>1. n - 1 \in 0..N
      BY <1>1
    <3> QED
      BY <1>8, <1>12, <3>1 DEF IsWalk
  <2> QED
    BY <1>12, <2>1 DEF IsWalk
<1>15. h[0] = a /\ \A n \in 1..N : h[n] = Onward(h[n - 1], without)
  <2>1. ASSUME NEW n \in 1..N PROVE h[n] = Onward(h[n - 1], without)
    <3>1. n - 1 \in 0..N
      BY <1>1
    <3> QED
      BY <1>8, <1>13, <3>1 DEF IsWalk
  <2> QED
    BY <1>13, <2>1 DEF IsWalk
<1>16. WalkAlike(V, a, p, g, h, N)
  BY <1>1, <1>2, <1>9, <1>14, <1>15, WalksAlike DEF without
<1>17. BothEnd(g[N], h[N], p)
  <2>1. ASSUME g[N] \in V PROVE Len(g[N].steps) # Len(a.steps) - N
    BY <1>1, <1>3, <1>9, <2>1, TailOfSteps
  <2> QED
    BY <1>16, <2>1 DEF WalkAlike
<1>18. Outcome(a, p) = Outcome(a, without)
  BY <1>12, <1>13, <1>17 DEF BothEnd, without
<1> QED
  BY <1>4, <1>18 DEF without

\* So it is in every project there can be.
LEMMA HiddenInEveryProject == project \in Project => HiddenIsMissing
<1> SUFFICES ASSUME project \in Project, NEW who \in {"user", "anonymous"},
                    HiddenFrom(who, project), NEW door \in AllDoors
             PROVE  OutcomeAt(door, who, "account", project) =
                      OutcomeAt(door, who, "account", WithoutIssue(project))
  BY DEF HiddenIsMissing, HiddenFrom, WithoutIssue
<1> QED
  BY OutcomesAlike

\* In every state of the project and for everyone, an issue that is hidden from its
\* caller gets at every door the answer a missing issue gets (issueRouteAccess,
\* deletedIssueRouteAccess, getIssues, uiRequireIssueAccess).
THEOREM HiddenLooksMissing == DoorsSpec => []HiddenIsMissing
<1>1. DoorsTyped => HiddenIsMissing
  BY HiddenInEveryProject DEF DoorsTyped
<1> QED
  BY <1>1, DoorsTypedInit, DoorsTypedStep, PTL DEF DoorsSpec

-------------------------------------------------------------------------------
(* The parts of a project in one run.                                          *)

LEMMA MeanwhileApart ==
    ASSUME DoorsTyped, BlockedAreNoMembers, [DoorsNext]_doorVars
    PROVE  BlockedAreNoMembers'
<1> USE DEF BlockedAreNoMembers
<1>1. CASE UNCHANGED project
  BY <1>1
<1>2. CASE Meanwhile
  <2>1. CASE RoleChanges
    BY <2>1 DEF RoleChanges, Theirs, Become, Granted, DoorsTyped, Project
  <2>2. CASE AccessRevoked
    BY <2>2 DEF AccessRevoked, Become, Revoked, DoorsTyped, Project
  <2>3. CASE UserBlocked
    BY <2>3 DEF UserBlocked, Become, Blocked, DoorsTyped, Project
  <2>4. CASE UserUnblocked
    BY <2>4 DEF UserUnblocked, Become, Unblocked, DoorsTyped, Project
  <2>5. CASE ModeChanges
    BY <2>5 DEF ModeChanges, Become, InMode, DoorsTyped, Project
  <2>6. CASE ProjectDeleted \/ IssueDeleted \/ IssueRestored \/ PrivacyChanges \/ ReporterChanges
    BY <2>6 DEF ProjectDeleted, IssueDeleted, IssueRestored, PrivacyChanges,
                ReporterChanges, Become, DoorsTyped, Project
  <2> QED
    BY <1>2, <2>1, <2>2, <2>3, <2>4, <2>5, <2>6 DEF Meanwhile
<1> QED
  BY <1>1, <1>2 DEF DoorsNext, Start, Step, Refuse, doorVars, permissionVars

\* The settings are in order even while a request at a door is under way.
ProjectsInv ==
    /\ SettingsInv /\ PagesInv /\ LinksInv /\ RepeatsInv
    /\ part \in {"settings", "doors", "pages", "repeats"}
    /\ part = "doors" => DoorsTyped

LEMMA ProjectsInvInit == ProjectsInit => ProjectsInv
<1> SUFFICES ASSUME ProjectsInit PROVE ProjectsInv
  OBVIOUS
<1>1. PagesInv /\ LinksInv /\ RepeatsInv
  BY PagesInvInit, RepeatsInvInit DEF ProjectsInit, PagesInit, LinksInv
<1>2. CASE part = "doors"
  <2>1. DoorsInit
    BY <1>2 DEF ProjectsInit
  <2>2. DoorsTyped
    BY <2>1, DoorsTypedInit
  <2>3. SettingsInv
    BY <2>1, <2>2 DEF DoorsInit, DoorsTyped, SettingsInv, PermissionsTypeOK,
         BlockedAreNoMembers, OneHoldsTheProject, GranteeNotBlocked
  <2> QED
    BY <1>1, <1>2, <2>2, <2>3 DEF ProjectsInv
<1>3. CASE part # "doors"
  BY <1>1, <1>3, SettingsInvInit DEF ProjectsInit, ProjectsInv
<1> QED
  BY <1>2, <1>3

LEMMA ProjectsInvStep == ProjectsInv /\ [ProjectsNext]_projectVars => ProjectsInv'
<1> SUFFICES ASSUME ProjectsInv, [ProjectsNext]_projectVars PROVE ProjectsInv'
  OBVIOUS
<1>1. PagesInv' /\ LinksInv' /\ RepeatsInv'
  <2>1. [PagesNext]_pageVars /\ [RepeatsNext]_repeatVars
    BY DEF ProjectsNext, projectVars
  <2> QED
    BY <2>1, PagesInvStep, LinksInvStep, RepeatsInvStep DEF ProjectsInv
<1>2. part' = part
  BY DEF ProjectsNext, projectVars
<1>3. CASE part = "doors"
  <2>1. [DoorsNext]_doorVars
    BY <1>3 DEF ProjectsNext, projectVars
  <2>2. DoorsTyped' /\ BlockedAreNoMembers'
    BY <1>3, <2>1, DoorsTypedStep, MeanwhileApart DEF ProjectsInv, SettingsInv
  <2>3. SettingsInv'
    BY <2>2 DEF DoorsTyped, SettingsInv, PermissionsTypeOK, OneHoldsTheProject,
         GranteeNotBlocked
  <2> QED
    BY <1>1, <1>2, <1>3, <2>2, <2>3 DEF ProjectsInv
<1>4. CASE part # "doors"
  <2>1. [SettingsNext]_permissionVars
    BY <1>4 DEF ProjectsNext, projectVars, doorVars
  <2>2. SettingsInv'
    BY <2>1, SettingsInvStep DEF ProjectsInv
  <2> QED
    BY <1>1, <1>2, <1>4, <2>2 DEF ProjectsInv
<1> QED
  BY <1>3, <1>4

\* In the run that joins the parts of a project, with any number of transactions,
\* pages, editors, rules and changes, the part under way stays within its types.
THEOREM ProjectsStayTyped == ProjectsSpec => []ProjectsTypeOK
<1>1. ProjectsInv => ProjectsTypeOK
  <2> SUFFICES ASSUME ProjectsInv PROVE ProjectsTypeOK
    OBVIOUS
  <2>1. PermissionsTypeOK /\ PagesTypeOK /\ RepeatsTypeOK
    BY PagesAreTyped, RepeatsInvSays DEF ProjectsInv, SettingsInv
  <2>2. part = "doors" => DoorsTypeOK
    BY DoorsTypedSays DEF ProjectsInv
  <2> QED
    BY <2>1, <2>2 DEF ProjectsInv, ProjectsTypeOK
<1> QED
  BY <1>1, ProjectsInvInit, ProjectsInvStep, PTL DEF ProjectsSpec

\* In that run a blocked user has no role and a hidden issue looks missing, also
\* while a request at a door is under way; the pages keep their order and no
\* repetition is lost.
THEOREM ProjectsKeepTheirInvariants ==
    ProjectsSpec =>
      [](BlockedAreNoMembers /\ HiddenIsMissing /\ PagesInOrder /\ NoRepetitionLost)
<1>1. ProjectsInv => BlockedAreNoMembers
  BY DEF ProjectsInv, SettingsInv
<1>2. ProjectsInv => HiddenIsMissing
  BY HiddenInEveryProject DEF ProjectsInv, SettingsInv, PermissionsTypeOK
<1>3. ProjectsInv => PagesInOrder
  BY PagesAreInOrder DEF ProjectsInv
<1>4. ProjectsInv => NoRepetitionLost
  BY RepeatsInvSays DEF ProjectsInv
<1> QED
  BY <1>1, <1>2, <1>3, <1>4, ProjectsInvInit, ProjectsInvStep, PTL DEF ProjectsSpec

===============================================================================
