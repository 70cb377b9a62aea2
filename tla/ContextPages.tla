----------------------------- MODULE ContextPages -----------------------------
(* A project's context pages (internal/store/project_context.go): the pages of *)
(* the project are kept in order, those of an issue are linked to it.          *)
(*                                                                             *)
(* A transaction that moves or deletes a page locks the page's row first and   *)
(* the project's after it, and then updates the rows between: two of them may  *)
(* deadlock, which ends one.  What it writes is seen when it commits.          *)
EXTENDS Integers, FiniteSets

CONSTANTS
    Page, Topic,    \* rows for pages, and the issues they may be linked to
    Editor          \* concurrent requests

VARIABLES
    position,       \* position of each page in the project: 0 an issue's page,
                    \* Absent no page
    linked,         \* the issue_context_links: <<issue, page>>
    edit            \* what each transaction has done so far

pageVars == <<position, linked, edit>>

Absent == -1
AnIssues == 0

\* at: position that was read with the page's lock; target: where to move it,
\* or Absent to delete it; rows: the other rows that are locked.
NoPage == "none"
Free == [stage |-> "free", page |-> NoPage, at |-> Absent, target |-> Absent,
         rows |-> {}]

ASSUME PagesAssumption == IsFiniteSet(Page) /\ NoPage \notin Page

Existing == {p \in Page : position[p] # Absent}
Positioned == {p \in Page : position[p] > 0}
count == Cardinality(Positioned)

Locks(e, p) == edit[e].page = p /\ edit[e].stage # "unlinked"
RowFree(p, e) == \A f \in Editor \ {e} : ~Locks(f, p) /\ p \notin edit[f].rows

HoldsProject(e) == edit[e].stage \in {"project", "shifted"} /\ edit[e].at > 0

\* Mutant: nobody locks the project's row.
NoProjectLock(editors) == TRUE

ProjectFree(editors) == \A e \in editors : ~HoldsProject(e)

-------------------------------------------------------------------------------
(* The statements that renumber pages.  Each makes room above the pages there  *)
(* are, so that no two ever have the same position.                            *)

offset == count + 1

Parked(page) == [position EXCEPT ![page] = count + offset + 1]

\* The rows between the old and the new position move up by offset...
Lifted(page, rows) ==
    [p \in Page |-> IF p \in rows THEN position[p] + offset ELSE Parked(page)[p]]

\* ... and come down again, one place further.
Shifted(page, from, to, rows) ==
    [p \in Page |-> IF p \in rows THEN position[p] + (IF to < from THEN 1 ELSE -1)
                    ELSE Parked(page)[p]]

Placed(page, from, to, rows) == [Shifted(page, from, to, rows) EXCEPT ![page] = to]

Moved(page, from, to, rows) ==
    IF from = to THEN position ELSE Placed(page, from, to, rows)

\* The rows above a deleted one leave no gap.
Closed(page, rows) ==
    [p \in Page |-> CASE p = page -> Absent
                      [] p \in rows -> position[p] - 1
                      [] OTHER -> position[p]]

-------------------------------------------------------------------------------
(* Creating pages *)

\* CreateProjectContext, all of it under the project's lock.
CreateProjectContext(p) ==
    /\ position[p] = Absent
    /\ ProjectFree(Editor)
    /\ position' = [position EXCEPT ![p] = count + 1]
    /\ UNCHANGED <<linked, edit>>

CreateIssueContext(i, p) ==
    /\ position[p] = Absent
    /\ ProjectFree(Editor)
    /\ position' = [position EXCEPT ![p] = AnIssues]
    /\ linked' = linked \cup {<<i, p>>}
    /\ UNCHANGED edit

\* CreateIssueContextLink: only of a page of the project.  Its foreign key waits
\* for whoever is deleting the page.
CreateIssueContextLink(i, p) ==
    /\ p \in Positioned /\ \A e \in Editor : ~Locks(e, p)
    /\ linked' = linked \cup {<<i, p>>}
    /\ UNCHANGED <<position, edit>>

\* CreateIssueContextLinks resolves every pair or changes nothing.  It locks the
\* project and the pages in share mode.
CreateIssueContextLinks(i, pages) ==
    /\ pages \subseteq Positioned /\ ProjectFree(Editor)
    /\ \A p \in pages, e \in Editor : ~Locks(e, p)
    /\ linked' = linked \cup {<<i, p>> : p \in pages}
    /\ UNCHANGED <<position, edit>>

-------------------------------------------------------------------------------
(* Moving and deleting pages *)

LockPage(e, p, target) ==
    /\ edit[e] = Free /\ p \in Existing /\ RowFree(p, e)
    /\ edit' = [edit EXCEPT ![e] =
         [stage |-> "page", page |-> p, at |-> position[p], target |-> target, rows |-> {}]]
    /\ UNCHANGED <<position, linked>>

\* UpdateProjectContext; one that names no position needs no more than the lock.
BeginMove(e, p, target) == p \in Positioned /\ target > 0 /\ LockPage(e, p, target)

\* DeleteProjectContext
BeginDelete(e, p) == LockPage(e, p, Absent)

\* A page of an issue has no position and needs no lock on the project.  A move
\* beyond the pages that are counted now is refused.
LockProject(e) ==
    /\ edit[e].stage = "page" /\ (edit[e].at > 0 => ProjectFree(Editor \ {e}))
    /\ IF edit[e].target <= count
         THEN edit' = [edit EXCEPT ![e].stage =
                         IF edit[e].at > 0 THEN "project" ELSE "shifted"]
         ELSE edit' = [edit EXCEPT ![e] = Free]
    /\ UNCHANGED <<position, linked>>

\* The rows that are renumbered; the UPDATE waits for those that are locked.
Renumbered(page, from, to) ==
    {p \in Positioned \ {page} :
       CASE to = Absent -> position[p] > from
         [] to # Absent /\ to < from -> position[p] \in to..from - 1
         [] OTHER -> position[p] \in from + 1..to}

ShiftRows(e) ==
    /\ edit[e].stage = "project"
    /\ LET rows == Renumbered(edit[e].page, edit[e].at, edit[e].target) IN
         /\ \A p \in rows : RowFree(p, e)
         /\ edit' = [edit EXCEPT ![e].stage = "shifted", ![e].rows = rows]
    /\ UNCHANGED <<position, linked>>

\* The links of a deleted page go with it.
CommitEdit(e) ==
    LET q == edit[e] IN
    /\ q.stage = "shifted"
    /\ IF q.target = Absent
         THEN /\ position' = Closed(q.page, q.rows)
              /\ linked' = {l \in linked : l[2] # q.page}
         ELSE /\ position' = Moved(q.page, q.at, q.target, q.rows)
              /\ UNCHANGED linked
    /\ edit' = [edit EXCEPT ![e] = Free]

\* DeleteIssueContextLink.  deleteIssueContextLink goes on to delete a page that
\* was the issue's, in a transaction of its own.
DeleteIssueContextLink(e, i, p) ==
    /\ edit[e] = Free /\ <<i, p>> \in linked
    /\ \A f \in Editor : ~(Locks(f, p) /\ edit[f].stage = "shifted")
    /\ linked' = linked \ {<<i, p>>}
    /\ edit' = IF position[p] = AnIssues
                 THEN [edit EXCEPT ![e] = [Free EXCEPT !.stage = "unlinked", !.page = p]]
                 ELSE edit
    /\ UNCHANGED position

DeleteUnlinked(e) ==
    LET p == edit[e].page IN
    /\ edit[e].stage = "unlinked" /\ RowFree(p, e)
    /\ edit' = [edit EXCEPT ![e] = IF p \notin Existing THEN Free
                                   ELSE [@ EXCEPT !.stage = "page", !.at = position[p]]]
    /\ UNCHANGED <<position, linked>>

\* Deadlock, failure or cancellation.
AbandonEdit(e) ==
    /\ edit[e] # Free
    /\ edit' = [edit EXCEPT ![e] = Free]
    /\ UNCHANGED <<position, linked>>

-------------------------------------------------------------------------------
PagesInit ==
    /\ position = [p \in Page |-> Absent]
    /\ linked = {}
    /\ edit = [e \in Editor |-> Free]

PagesNext ==
    \/ \E p \in Page : CreateProjectContext(p)
    \/ \E i \in Topic, p \in Page :
         CreateIssueContext(i, p) \/ CreateIssueContextLink(i, p)
    \/ \E i \in Topic, pages \in SUBSET Page :
         Cardinality(pages) > 1 /\ CreateIssueContextLinks(i, pages)
    \/ \E e \in Editor :
         \/ \E p \in Page : BeginDelete(e, p)
         \/ \E p \in Page, target \in 1..Cardinality(Page) : BeginMove(e, p, target)
         \/ \E i \in Topic, p \in Page : DeleteIssueContextLink(e, i, p)
         \/ DeleteUnlinked(e) \/ LockProject(e) \/ ShiftRows(e) \/ CommitEdit(e) \/ AbandonEdit(e)

PagesSpec == PagesInit /\ [][PagesNext]_pageVars

-------------------------------------------------------------------------------
PagesTypeOK ==
    /\ position \in [Page -> Absent..Cardinality(Page)]
    /\ linked \in SUBSET (Topic \X Existing)
    /\ \A p \in Page : position[p] = AnIssues =>
         Cardinality({i \in Topic : <<i, p>> \in linked}) <= 1
    /\ \A e \in Editor : edit[e].stage \in {"free", "unlinked", "page", "project", "shifted"}

Distinct(at) ==
    \A p, q \in Page : at[p] > 0 /\ at[p] = at[q] => p = q

\* However pages are created, moved and deleted at the same time, those of the
\* project are numbered from one without a gap or a duplicate, and no statement
\* that renumbers them gives two the same position on its way, which the unique
\* index project_context_project_position_key would refuse
\* (CreateProjectContext, UpdateProjectContext, DeleteProjectContext).
PagesInOrder ==
    /\ {position[p] : p \in Positioned} = 1..count
    /\ \A e \in Editor :
         LET q == edit[e] IN
         q.stage = "shifted" /\ q.target > 0 /\ q.target # q.at =>
           /\ Distinct(Parked(q.page))
           /\ Distinct(Lifted(q.page, q.rows))
           /\ Distinct(Shifted(q.page, q.at, q.target, q.rows))
           /\ Distinct(Placed(q.page, q.at, q.target, q.rows))
===============================================================================
