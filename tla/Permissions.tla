----------------------------- MODULE Permissions -----------------------------
(* Who may do what in a project (internal/store/permissions.go), seen by one   *)
(* person and one issue of one project, and the transactions that change it.   *)
(*                                                                             *)
(* The person is a site admin or the project's owner ("admin", whose rights    *)
(* are the same), someone else who is signed in ("user"), or nobody            *)
(* ("anonymous").  The role, the block and the reported issue are the user's.  *)
EXTENDS Integers, FiniteSets

CONSTANT Setter     \* concurrent transactions that change members and blocks

VARIABLES
    project,        \* the committed rows of the project, its member and issue
    setting         \* what each transaction is about to commit, or "idle"

permissionVars == <<project, setting>>

Person == {"admin", "user", "anonymous"}
Mode == {"private", "public", "public_issues", "helpdesk"}
Role == {"none", "readonly", "member"}

Project == [mode : Mode, role : Role, blocked : BOOLEAN, live : BOOLEAN,
            issue : {"none", "live", "deleted"}, private : BOOLEAN, mine : BOOLEAN]

PublicRead(mode) == mode \in {"public", "public_issues"}
OutsideIssueCreation(mode) == mode \in {"public_issues", "helpdesk"}

-------------------------------------------------------------------------------
(* ProjectPermissionsForUser *)

Everything == {"read", "membersOnly", "write", "creates", "manages", "deletes"}

\* Each right of someone who neither owns the project nor administers the site.
Ordinary(who, p) ==
    LET role == IF who = "user" THEN p.role ELSE "none"
        outsider == who = "user" /\ role = "none"
    IN  [read |-> role # "none" \/ PublicRead(p.mode),
         membersOnly |-> role # "none",
         write |-> role = "member",
         creates |-> role = "member" \/ (outsider /\ OutsideIssueCreation(p.mode)),
         reports |-> outsider /\ p.mode = "helpdesk"]

\* A deleted project gives nobody any; a blocked user has only the block.
Rights(who, p) ==
    LET o == Ordinary(who, p) IN
    CASE ~p.live -> {}
      [] p.live /\ who = "admin" -> Everything
      [] p.live /\ who = "user" /\ p.blocked -> {"blocked"}
      [] OTHER -> {right \in DOMAIN o : o[right]}

\* CanFollowIssue: the reporter who cannot read their issue in full.
Follows(who, p, rights) ==
    who = "user" /\ p.mine /\ rights \cap {"reports", "privateReport"} # {}

\* HidesIssue: the issue is private and the reader is no member.
Hides(rights, private) ==
    private /\ "read" \in rights /\ "membersOnly" \notin rights

\* ForIssue narrows the rights to one issue.
ForIssue(who, p, rights, private) ==
    CASE ~Hides(rights, private) -> rights
      [] Hides(rights, private) /\ who = "user" /\ p.mine -> {"privateReport"}
      [] OTHER -> {}

-------------------------------------------------------------------------------
(* The settings a project's managers change.  Granting, blocking and changing  *)
(* the mode lock the project's row; revoking locks only the member's and       *)
(* unblocking only the block's.                                                *)

Granted(p, role) == [p EXCEPT !.role = role]
Revoked(p) == [p EXCEPT !.role = "none"]
Blocked(p) == [p EXCEPT !.blocked = TRUE, !.role = "none"]
Unblocked(p) == [p EXCEPT !.blocked = FALSE]
InMode(p, mode) == [p EXCEPT !.mode = mode]

CanRevoke(p) == p.live /\ p.role # "none"
CanUnblock(p) == p.live /\ p.blocked

\* Mutant: the project is read without FOR UPDATE.
Unlocked == TRUE

ProjectUnlocked == \A s \in Setter : setting[s] = "idle"

\* SetProjectMemberRole: under the lock it finds the user not blocked.
BeginGrant(s, role) ==
    /\ setting[s] = "idle" /\ ProjectUnlocked /\ project.live
    /\ ~project.blocked
    /\ setting' = [setting EXCEPT ![s] = role]
    /\ UNCHANGED project

CommitGrant(s) ==
    /\ setting[s] \in Role
    /\ project' = Granted(project, setting[s])
    /\ setting' = [setting EXCEPT ![s] = "idle"]

\* BlockProjectUser: a user who is blocked already is left as they are.
BeginBlock(s) ==
    /\ setting[s] = "idle" /\ ProjectUnlocked /\ project.live
    /\ ~project.blocked
    /\ setting' = [setting EXCEPT ![s] = "block"]
    /\ UNCHANGED project

CommitBlock(s) ==
    /\ setting[s] = "block"
    /\ project' = Blocked(project)
    /\ setting' = [setting EXCEPT ![s] = "idle"]

RevokeProjectAccess ==
    /\ CanRevoke(project)
    /\ project' = Revoked(project)
    /\ UNCHANGED setting

UnblockProjectUser ==
    /\ CanUnblock(project)
    /\ project' = Unblocked(project)
    /\ UNCHANGED setting

UpdateProjectAccessMode(mode) ==
    /\ ProjectUnlocked /\ project.live
    /\ project' = InMode(project, mode)
    /\ UNCHANGED setting

\* The transaction fails or its request is cancelled.
RollBack(s) ==
    /\ setting[s] # "idle"
    /\ setting' = [setting EXCEPT ![s] = "idle"]
    /\ UNCHANGED project

-------------------------------------------------------------------------------
SettingsInit ==
    /\ project \in [mode : Mode, role : Role, blocked : {FALSE}, live : {TRUE},
                    issue : {"none"}, private : {FALSE}, mine : {FALSE}]
    /\ setting = [s \in Setter |-> "idle"]

SettingsNext ==
    \/ \E s \in Setter :
         \/ \E role \in {"readonly", "member"} : BeginGrant(s, role)
         \/ CommitGrant(s) \/ BeginBlock(s) \/ CommitBlock(s) \/ RollBack(s)
    \/ RevokeProjectAccess \/ UnblockProjectUser
    \/ \E mode \in Mode : UpdateProjectAccessMode(mode)

SettingsSpec == SettingsInit /\ [][SettingsNext]_permissionVars

PermissionsTypeOK ==
    /\ project \in Project
    /\ setting \in [Setter -> {"idle", "readonly", "member", "block"}]

\* However grants, revocations and blocks race, a blocked user is never left a
\* member of the project (FOR UPDATE OF p in SetProjectMemberRole and
\* BlockProjectUser), so unblocking them does not bring a role back.
BlockedAreNoMembers == project.blocked => project.role = "none"
===============================================================================
