-------------------------------- MODULE Doors --------------------------------
(* Every door into the project of Permissions: the MCP tools, the handlers of  *)
(* the HTTP API and the pages.  A request goes through the steps of its door   *)
(* one at a time, each reading the database anew, while the project changes    *)
(* under it.                                                                   *)
EXTENDS Permissions, McpDoors, RestDoors, PageDoors, SequencesExt, TLC

CONSTANT Changes    \* changes of the project while a request runs

ASSUME ChangesAssumption == Changes \in Nat

VARIABLE request    \* the request in hand, or Waiting

doorVars == <<permissionVars, request>>

\* What a request has loaded of the issue; before it loads, what is judged seen by no one else
\* than a member.
Unloaded == [issue |-> "none", private |-> TRUE, mine |-> FALSE]
Loaded(p) == [issue |-> p.issue, private |-> p.private, mine |-> p.mine]

\* need: rights one of which the caller must have had, and was not found to have.
Waiting == [steps |-> <<>>, need |-> {}, who |-> "anonymous", token |-> "none",
            loaded |-> Unloaded, seen |-> {}, left |-> 0]

-------------------------------------------------------------------------------
(* The checks *)

\* The rights one of which an asking step must find.
Asks == [access |-> {"read"}, read |-> {"read"}, perms |-> {}, unlessFollows |-> {},
         servesReporter |-> {},
         readOrReport |-> {"read", "reports"}, write |-> {"write"},
         creates |-> {"creates"}, manages |-> {"manages"},
         deletes |-> {"deletes"}, membersOnly |-> {"membersOnly"}]

\* Mutant: whoever can read an issue can comment on it.
CommentsByReaders == [reads |-> {"read"}, members |-> {"membersOnly"}, batch |-> {"read"},
                      follow |-> {"read"}, comments |-> {"read"}]

Recalls == [reads |-> {"read"}, members |-> {"membersOnly"}, batch |-> {"read"},
            follow |-> {"read"}, comments |-> {"write"}]

\* The issues a loading step finds.  A live one is looked for first.
Loads == [issue |-> {"live"}, deletedIssue |-> {"deleted"},
          issueOrDeleted |-> {"live", "deleted"}]

ForFollowers == {"unlessFollows", "servesReporter"}

AboutLoaded == ForFollowers \cup
    {"route", "follow", "comments", "replies", "issueAccess", "reopen", "opens"}

AboutToken == {"firstParty", "secretFirstParty"}

Remembers == {"read", "readOrReport", "perms", "issueAccess", "opens"}

Grants(passed) == IF passed THEN "ok" ELSE "forbidden"

\* The caller's rights to the issue as it was loaded, by their rights to the project.
Narrowed(who, issue, rights) == ForIssue(who, issue, rights, issue.private)

\* The caller follows the issue as it was loaded.
Following(who, issue, rights) == Follows(who, issue, Narrowed(who, issue, rights))

\* Mutant: a private issue is there, but not for everyone.
issueRouteForbids(who, issue, rights) ==
    Grants(Narrowed(who, issue, rights) \cap {"read", "reports"} # {})

\* issueRouteAccess: whether the route to an issue refuses it, and how.
issueRouteAccess(who, issue, rights) ==
    LET mine == Narrowed(who, issue, rights) IN
    CASE Hides(rights, issue.private) /\ mine = {} -> "missing"
      [] "blocked" \in mine -> "forbidden"
      [] "reports" \in mine /\ ~Follows(who, issue, mine) -> "missing"
      [] OTHER -> "ok"

\* deletedIssueRouteAccess: a reporter never sees their deleted issue.
deletedIssueRouteAccess(who, issue, rights) ==
    LET access == issueRouteAccess(who, issue, rights) IN
    IF access = "ok" /\ Narrowed(who, issue, rights) \cap {"reports", "privateReport"} # {}
      THEN "missing" ELSE access

Route(who, issue, rights) ==
    IF issue.issue = "deleted" THEN deletedIssueRouteAccess(who, issue, rights)
    ELSE issueRouteAccess(who, issue, rights)

\* uiRequireIssueAccess, of an issue loaded before.
IssueAccess(who, issue, rights) ==
    CASE Hides(rights, issue.private) ->
           IF Following(who, issue, rights) THEN "forbidden" ELSE "missing"
      [] "read" \notin rights -> "forbidden"
      [] OTHER -> "ok"

\* A deleted issue is shown to members only.
Opens(who, issue, rights) ==
    IF issue.issue = "deleted" THEN Grants("membersOnly" \in rights)
    ELSE IssueAccess(who, issue, rights)

Replies(who, issue, rights) ==
    Grants(\/ "write" \in Narrowed(who, issue, rights)
           \/ issue.issue = "live" /\ Following(who, issue, rights))

\* A check of the issue as it was loaded, by rights that are read now.
Judgement(s, who, issue, rights) ==
    CASE s = "route" -> Route(who, issue, rights)
      [] s = "issueAccess" -> IssueAccess(who, issue, rights)
      [] s = "opens" -> Opens(who, issue, rights)
      [] s = "replies" -> Replies(who, issue, rights)

Finds(found) == IF found THEN "ok" ELSE "missing"

\* What step s answers to request q when the project is p: "ok" to go on.
Answer(s, q, p) ==
    LET rights == Rights(q.who, p) IN
    CASE s = "project" -> Finds(p.live)
      [] s \in DOMAIN Loads -> Finds(p.live /\ p.issue \in Loads[s])
      [] s = "reopen" ->
           Finds(q.loaded.issue = "deleted" \/ (p.live /\ p.issue = "live"))
      [] s \in DOMAIN Asks ->
           IF p.live THEN Grants(Asks[s] = {} \/ Asks[s] \cap rights # {}) ELSE "missing"
      [] s \in {"route", "issueAccess", "opens", "replies"} ->
           IF p.live THEN Judgement(s, q.who, q.loaded, rights) ELSE "missing"
      [] s \in DOMAIN Recalls ->
           IF s = "batch" /\ "privateReport" \in q.seen THEN "missing"
           ELSE Grants(\/ Recalls[s] \cap q.seen # {}
                       \/ s \in {"follow", "comments"} /\ Follows(q.who, q.loaded, q.seen))
      [] s = "signedIn" -> Grants(q.who # "anonymous")
      [] s = "firstParty" -> Grants(q.token # "oauth")
      [] s = "admin" -> Grants(q.who = "admin")
      [] OTHER -> "ok"

\* A reporter is served apart: not asked for a right of readers, or answered at once.
Skips(s, q, p) ==
    /\ s \in ForFollowers /\ q.loaded.issue = "live"
    /\ Following(q.who, q.loaded, Rights(q.who, p))

\* The steps left after step s let the request pass.
StepsLeft(s, q, p) ==
    CASE ~Skips(s, q, p) -> Tail(q.steps)
      [] Skips(s, q, p) /\ s = "unlessFollows" -> Tail(Tail(q.steps))
      [] Skips(s, q, p) /\ s = "servesReporter" -> <<q.steps[Len(q.steps)]>>

\* The rights the request remembers after step s.
Remembered(s, q, rights) ==
    CASE s = "route" -> Narrowed(q.who, q.loaded, rights)
      [] s \in Remembers -> rights
      [] OTHER -> q.seen

\* The request after step s let it pass.  It drops what no later step uses.
Passed(s, q, p) ==
    LET steps == StepsLeft(s, q, p)
        seen == Remembered(s, q, Rights(q.who, p))
        loads == \/ s \in DOMAIN Loads
                 \/ s = "reopen" /\ q.loaded.issue # "deleted"
        loaded == IF loads THEN Loaded(p) ELSE q.loaded IN
    [q EXCEPT
       !.steps = steps,
       !.seen = IF ToSet(steps) \cap DOMAIN Recalls = {} THEN {} ELSE seen,
       !.loaded = IF ToSet(steps) \cap AboutLoaded = {} THEN Unloaded ELSE loaded]

-------------------------------------------------------------------------------
(* What a caller must be entitled to, one of a set of rights, for each thing   *)
(* that can be done.                                                           *)

Members == {"list deleted issues"}
Owners == {"delete a project", "ask to delete a project"}
Managers == {"grant membership", "revoke membership", "change project access",
    "change sprint mode", "list blocks", "block a user", "unblock a user",
    "search candidates", "connect a repository", "disconnect a repository"}
Filers == {"file an issue", "issue form"}
Commenters == {"comment", "edit a comment", "delete a comment",
    "edit a comment's form"}
Trackers == {"list issues", "list what I reported"}
Followers == {"read an issue", "list comments", "read a comment"}
Readers == {"list sub-issues", "list an issue's context", "list an issue's links",
    "list an issue's tags", "list an issue's attachments",
    "read an issue's attachment", "list an issue's GitHub links",
    "read several issues"}
Accounts == {"create my token", "list my tokens", "revoke my token",
    "list my connectors", "disconnect a connector", "list my passkeys",
    "see password login", "change password login", "prove my password",
    "begin proving a passkey", "prove a passkey", "begin adding a passkey",
    "add a passkey", "revoke a passkey", "list my GitHub tokens",
    "add a GitHub token", "change a GitHub token", "delete a GitHub token"}
Admins == {"create a user", "list users", "see a user", "delete a user",
    "create a user's token", "list a user's tokens", "revoke a user's token"}
Anyones == {"see my account", "change my settings", "create a project",
    "list my projects", "change my picture", "remove my picture",
    "see a picture"}
Viewers == {"open a project", "see a project", "see project access",
    "list members", "search members", "list assignees", "see statistics",
    "see insights", "see the timeline", "see progress", "list the changelog",
    "list sprints", "see a sprint", "list a sprint's history", "list tags",
    "see a tag", "see a link", "list context pages", "read a context page",
    "list a context page's attachments", "read a context page's attachment",
    "list files", "see a file", "read a file", "list a project's attachments",
    "read a project's attachment", "list a sprint's attachments",
    "read a sprint's attachment", "see the project image",
    "list GitHub connections", "list whiteboard pages", "see a whiteboard page",
    "favour a project", "unfavour a project"}

Need(op) ==
    CASE op \in Members -> {"membersOnly"}
      [] op \in Owners -> {"deletes"}
      [] op \in Managers -> {"manages"}
      [] op \in Filers -> {"creates"}
      [] op \in Commenters -> {"write", "follows"}
      [] op \in Trackers -> {"read", "reports"}
      [] op \in Followers -> {"sees", "follows"}
      [] op \in Readers -> {"sees"}
      [] op \in Accounts -> {"account"}
      [] op \in Admins -> {"admin"}
      [] op \in Anyones -> {"signed in"}
      [] op \in Viewers -> {"read"}
      [] OTHER -> {"write"}

\* All that someone with a credential is entitled to: rights to the project, what they come to for
\* the issue, and what the credential is good for.
Standing(who, token, p) ==
    LET mine == ForIssue(who, p, Rights(who, p), p.private) IN
    Rights(who, p) \cup
    {right \in {"sees", "follows", "signed in", "account", "admin"} :
       CASE right = "sees" -> "read" \in mine
         [] right = "follows" -> Follows(who, p, mine)
         [] right = "signed in" -> who # "anonymous"
         [] right = "account" -> token = "account"
         [] right = "admin" -> who = "admin" /\ token = "account"}

-------------------------------------------------------------------------------
(* The callers *)

\* An MCP tool takes a bearer token of a user.
Mcp(door, who, token) == who # "anonymous" /\ token # "none"

\* anonymousProjectReadAllowed lets anyone read what is below the path of a
\* project that the public may read, by GET.
anonymousProjectReadAllowed(door) ==
    /\ "read" \in Rights("anonymous", project)
    /\ Need(door.does) \cap {"read", "sees", "membersOnly", "reports"} # {}
    /\ door.does \notin {"favour a project", "unfavour a project",
                         "read several issues"}

Visitor(door, who, token) ==
    who = "anonymous" /\ token = "none" /\ anonymousProjectReadAllowed(door)

\* The HTTP API takes bearer tokens too, and the pages sessions, not connectors.
Rest(door, who, token) == Mcp(door, who, token) \/ Visitor(door, who, token)
Pages(door, who, token) ==
    (Mcp(door, who, token) /\ token # "oauth") \/ Visitor(door, who, token)

AllDoors == McpDoorsSet \cup RestDoorsSet \cup PageDoorsSet

\* The steps about this project and its caller.
Bearing(steps) == SelectSeq(steps, LAMBDA s : s \notin Chance \cup {"disconnect"})

Wanting(need, who, token, p) ==
    IF \A right \in need : right \notin Standing(who, token, p) THEN need ELSE {}

Received(door, who, token) ==
    [Waiting EXCEPT
       !.steps = Bearing(door.steps), !.who = who, !.left = Changes,
       !.need = Wanting(Need(door.does), who, token, project),
       !.token = IF ToSet(Bearing(door.steps)) \cap AboutToken = {}
                   THEN "none" ELSE token]

Start(door, who, token) ==
    /\ \/ door \in McpDoorsSet /\ Mcp(door, who, token)
       \/ door \in RestDoorsSet /\ Rest(door, who, token)
       \/ door \in PageDoorsSet /\ Pages(door, who, token)
    /\ request' = Received(door, who, token)
    /\ UNCHANGED permissionVars

\* One step of the request: it goes on, or has its answer.
Step ==
    /\ request # Waiting
    /\ LET s == Head(request.steps)
           next == Passed(s, request, project) IN
         request' = IF Answer(s, request, project) # "ok" \/ next.steps = <<>>
                      THEN Waiting ELSE next
    /\ UNCHANGED permissionVars

\* Anything else may end it: its input, a row it names, a budget, an owner who
\* is no site admin, a setting that is a secret, the database.
Refuse ==
    /\ request # Waiting
    /\ request' = Waiting
    /\ UNCHANGED permissionVars

-------------------------------------------------------------------------------
(* What others commit meanwhile *)

Become(p) ==
    /\ request.left > 0
    /\ project' = p
    /\ request' = [request EXCEPT !.left = @ - 1,
         !.need = Wanting(@, request.who, request.token, p)]
    /\ UNCHANGED setting

\* The role, the block and the reported issue are the user's: they bear on no
\* one else's request.
Theirs == request.who = "user" /\ project.live

RoleChanges ==
    Theirs /\ ~project.blocked /\
    \E role \in {"readonly", "member"} \ {project.role} : Become(Granted(project, role))
AccessRevoked == Theirs /\ CanRevoke(project) /\ Become(Revoked(project))
UserBlocked == Theirs /\ ~project.blocked /\ Become(Blocked(project))
UserUnblocked == Theirs /\ CanUnblock(project) /\ Become(Unblocked(project))
ModeChanges ==
    project.live /\ \E mode \in Mode \ {project.mode} : Become(InMode(project, mode))
ProjectDeleted == project.live /\ Become([project EXCEPT !.live = FALSE])

IssueDeleted ==
    /\ project.live /\ project.issue = "live"
    /\ Become([project EXCEPT !.issue = "deleted"])
IssueRestored ==
    /\ project.live /\ project.issue = "deleted"
    /\ Become([project EXCEPT !.issue = "live"])
PrivacyChanges ==
    /\ project.live /\ project.issue = "live"
    /\ Become([project EXCEPT !.private = ~@])
ReporterChanges ==
    /\ Theirs /\ project.issue = "live"
    /\ Become([project EXCEPT !.mine = ~@])

Meanwhile ==
    \/ RoleChanges \/ AccessRevoked \/ UserBlocked \/ UserUnblocked
    \/ ModeChanges \/ ProjectDeleted \/ IssueDeleted \/ IssueRestored
    \/ PrivacyChanges \/ ReporterChanges

-------------------------------------------------------------------------------
DoorsInit ==
    /\ project \in {p \in Project :
         /\ p.live /\ (p.blocked => p.role = "none")
         /\ p.issue = "none" => ~p.private /\ ~p.mine}
    /\ setting = [s \in Setter |-> "idle"]
    /\ request = Waiting

DoorsNext ==
    \/ /\ request = Waiting
       /\ \E door \in AllDoors, who \in Person, token \in {"account", "oauth", "none"} :
            Start(door, who, token)
    \/ Step \/ Refuse \/ Meanwhile

DoorsTypeOK ==
    /\ project \in Project
    /\ setting = [s \in Setter |-> "idle"]
    /\ request.left \in 0..Changes
    /\ request.who \in Person /\ request.token \in {"account", "oauth", "none"}
    /\ request = Waiting <=> request.steps = <<>>

-------------------------------------------------------------------------------
(* The discipline of the checks.  A door is guarded when, before it acts, it   *)
(* takes a step that cannot answer "ok" to anyone without a right it needs.    *)
(* A right to the project is asked for in one query, so it is as the project   *)
(* is then.  A right to the issue is judged in two, the issue as it was loaded *)
(* and the rights as they are now, so such a door is guarded only if it may    *)
(* heed what was loaded.                                                       *)

\* A step that asks for a needed right to the project.
Vouches(s, need) == s \in DOMAIN Asks /\ Asks[s] # {} /\ Asks[s] \subseteq need

\* A step that judges by the loaded issue whether there is a needed right to it.
Judges(s, need) ==
    \/ s \in {"issueAccess", "opens"} /\ "sees" \in need
    \/ s = "replies" /\ {"write", "follows"} \subseteq need

Refreshes == DOMAIN Loads \cup Remembers \cup {"route", "reopen"}

\* A step that recalls, from the step that remembered, a needed right to the project.
VouchesAfter(source, s, need) ==
    /\ source \in Remembers \cup {"route"}
    /\ \/ s = "reads" /\ "read" \in need
       \/ s = "members" /\ "membersOnly" \in need

\* A step that recalls a needed right to the issue, as its route judged it.
JudgesAfter(source, s, need) ==
    /\ source = "route"
    /\ \/ s \in {"reads", "batch"} /\ "sees" \in need
       \/ s = "follow" /\ {"sees", "follows"} \subseteq need
       \/ s = "comments" /\ {"write", "follows"} \subseteq need

Checks(s, need, heeds) == Vouches(s, need) \/ (heeds /\ Judges(s, need))
ChecksAfter(source, s, need, heeds) ==
    VouchesAfter(source, s, need) \/ (heeds /\ JudgesAfter(source, s, need))

\* What a request that lacks what it needs comes to before it acts, every time.
Passes(s, need, heeds) ==
    s \notin Acts /\ (s \in ForFollowers => heeds /\ "follows" \in need)
Reached(steps, i, need, heeds) == \A j \in 1..i : Passes(steps[j], need, heeds)

\* The step at j is the last before i to load or remember anything.
LastRefresh(steps, i, j) ==
    steps[j] \in Refreshes /\ \A k \in j + 1..i - 1 : steps[k] \notin Refreshes

\* What is the caller's own needs a session, or a credential that is no connector's.
Guarded(door, heeds) ==
    LET steps == Bearing(door.steps)
        need == Need(door.does)
        before == {i \in DOMAIN steps : Reached(steps, i, need, heeds)} IN
    \/ \E i \in before :
         \/ Checks(steps[i], need, heeds)
         \/ \E j \in 1..i - 1 :
              LastRefresh(steps, i, j) /\ ChecksAfter(steps[j], steps[i], need, heeds)
    \/ need = {"signed in"}
    \/ need = {"account"} /\ door \notin McpDoorsSet \cup RestDoorsSet
    \/ need = {"account"} /\ \E i \in before : steps[i] = "firstParty"
    \/ /\ need = {"admin"}
       /\ \E i, j \in before : steps[i] = "firstParty" /\ steps[j] = "admin"

\* What no right to the issue is needed for.
AboutTheProject == {door \in AllDoors : Need(door.does) \cap {"sees", "follows"} = {}}

Steps == UNION {ToSet(Bearing(door.steps)) : door \in AllDoors}

\* Every door acts in the end.
ASSUME DoorsAct ==
    \A door \in AllDoors :
      LET steps == Bearing(door.steps) IN
      steps \in Seq(Steps) /\ steps # <<>> /\ steps[Len(steps)] \in Acts

\* All doors are guarded, and without heeding what was loaded just those where no right
\* to the issue is needed.
ASSUME DoorsAreGuarded ==
    \A door \in AllDoors :
      Guarded(door, TRUE) /\ (Guarded(door, FALSE) <=> door \in AboutTheProject)

\* The first step that looks at the issue loads it, and the next asks its route about it.
ComesByRoute(steps) ==
    \A i \in DOMAIN steps :
      /\ steps[i] \in DOMAIN Loads \cup ForFollowers \cup {"reopen"}
      /\ \A j \in 1..i - 1 : steps[j] \notin DOMAIN Loads
      => steps[i] \in DOMAIN Loads /\ i < Len(steps) /\ steps[i + 1] = "route"

\* No door looks at an issue whose existence it has not asked its route about.
ASSUME RouteComesFirst == \A door \in AllDoors : ComesByRoute(Bearing(door.steps))

-------------------------------------------------------------------------------
(* The answer a request gets when nothing changes meanwhile *)

\* The request goes on as far as the step that acts or does not let it pass.
Onward(q, p) ==
    LET s == Head(q.steps) IN
    IF s \in Acts \/ Answer(s, q, p) # "ok" THEN q ELSE Passed(s, q, p)

Outcome(q, p) ==
    LET after[n \in 0..Len(q.steps)] == IF n = 0 THEN q ELSE Onward(after[n - 1], p)
        last == after[Len(q.steps)]
    IN  Answer(Head(last.steps), last, p)

OutcomeAt(door, who, token, p) ==
    Outcome([Waiting EXCEPT !.steps = Bearing(door.steps), !.who = who,
                            !.token = token], p)

\* Whatever one change lands between two steps of a request, it never gets to
\* act for someone who was at no moment of the request entitled to it.
Entitled ==
    request # Waiting /\ Head(request.steps) \in Acts => request.need = {}

\* What can be done through several doors is open to the same people at each
\* (SECURITY_MODEL.md: REST, MCP and the UI apply the same check for the same
\* action).  A deleted issue only the pages show; it can be restored everywhere.
SameChecks ==
    request = Waiting /\ project.issue # "none" =>
    \A who \in {"admin", "user"} :
      LET doors == {d \in AllDoors :
                      project.issue = "deleted" => d.does = "restore an issue"}
          open == {d \in doors : OutcomeAt(d, who, "account", project) = "ok"}
      IN  {d.does : d \in open} \cap {d.does : d \in doors \ open} = {}

\* An issue hidden from the caller, private or reported by someone else to a
\* help desk, gets at every door the answer a missing issue gets, so it cannot
\* be probed (issueRouteAccess, deletedIssueRouteAccess, uiRequireIssueAccess).
HiddenIsMissing ==
    request = Waiting =>
    \A who \in {"user", "anonymous"} :
      LET rights == Rights(who, project)
          without == [project EXCEPT !.issue = "none"] IN
      /\ project.issue = "live"
      /\ ~(who = "user" /\ project.mine)
      /\ Hides(rights, project.private) \/ "reports" \in rights
      => \A d \in AllDoors :
           OutcomeAt(d, who, "account", project) = OutcomeAt(d, who, "account", without)

DoorsSpec == DoorsInit /\ [][DoorsNext]_doorVars
===============================================================================
