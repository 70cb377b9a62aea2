------------------------------ MODULE PageDoors ------------------------------
(* The handlers of the web pages (internal/server/ui_*.go): which checks each   *)
(* makes, in which order, before it acts or answers.  The steps are explained   *)
(* in DoorSteps; their meaning is in Doors.                                     *)
EXTENDS DoorSteps, Sequences

uiRequireProjectAccess == <<"access">>
uiRequireDeletedIssueAccess == <<"membersOnly">>
uiRequireIssueAccess == <<"issueAccess">>
uiRequireProjectWriteAccess == <<"write">>
uiRequireProjectIssueCreationAccess == <<"creates">>
uiRequireProjectMemberManagement == <<"manages">>
uiRequireProjectDeletion == <<"deletes">>
uiProjectPermissions == <<"perms">>
uiFollowedIssue == <<"unlessFollows">>

uiProjectFromRoute == <<"project">>
uiProjectContextFromRoute == uiProjectFromRoute \o <<"input", "thing">>
uiProjectSprintFromRoute == uiProjectFromRoute \o <<"input", "thing">> \o uiRequireProjectAccess
uiProjectFromNewIssueSelection == <<"input", "project">> \o uiRequireProjectIssueCreationAccess
uiIssueFromRoute == <<"issue", "route">>
uiDeletedIssueFromRoute == <<"deletedIssue", "route">>
uiIssueFromRouteIncludingDeleted == <<"issueOrDeleted", "route">>
uiCommentFromRoute == <<"input">> \o uiProjectPermissions \o <<"comment">>
uiIssueLinkFromRoute == uiProjectPermissions \o <<"link">>

uiProjectTagFromRoute == uiProjectFromRoute \o <<"input", "thing">>
uiIssueContextFromRoute == <<"input", "thing">>
uiWhiteboardPageFromRoute == <<"input", "thing">>
uiContextAttachmentFromRoute == uiProjectContextFromRoute \o uiRequireProjectAccess \o
  <<"input", "thing">>
uiIssueAttachmentFromRoute == uiIssueFromRoute \o uiRequireIssueAccess \o
  <<"input", "thing">>
uiProjectAttachmentFromRoute == uiProjectFromRoute \o uiRequireProjectAccess \o
  <<"input", "thing">>
uiSprintAttachmentFromRoute == uiProjectSprintFromRoute \o <<"input", "thing">>
\* The routes of the pages wrap their handlers in these.
\* Mutant: a route that is not wrapped.
uiProjectHandler == uiProjectFromRoute
uiProjectWriteHandler == uiProjectFromRoute \o uiRequireProjectWriteAccess
uiIssueWriteHandler == uiIssueFromRouteIncludingDeleted \o uiRequireProjectWriteAccess
uiProjectIssueCreateHandler == <<"signedIn">> \o uiProjectFromRoute \o uiRequireProjectIssueCreationAccess
uiIssueCommentHandler == uiIssueFromRouteIncludingDeleted \o <<"replies">>

\* What the pages show, each with checks of its own.
uiBuildProjectPanel == uiRequireProjectAccess \o uiProjectPermissions \o <<"show">>
uiBuildIssuePanel == <<"issue">> \o uiRequireIssueAccess \o <<"show">>
uiBuildDeletedIssuesPanel == uiRequireDeletedIssueAccess \o uiProjectPermissions \o <<"show">>
uiBuildDeletedIssuePanel == <<"reopen", "opens", "show">>
uiBuildProjectTagManager == uiRequireProjectAccess \o uiProjectPermissions \o <<"show">>
uiBuildIssueTagManager == <<"issue">> \o uiRequireIssueAccess \o
  uiProjectPermissions \o <<"show">>
uiBuildProjectContextManager == uiRequireProjectAccess \o uiProjectPermissions
uiBuildIssueContextManager == <<"issue">> \o uiRequireIssueAccess \o
  uiProjectPermissions
renderUIProjectContextManager == uiBuildProjectContextManager \o <<"show">>
renderUIIssueContextManager == uiBuildIssueContextManager \o <<"show">>
uiBuildProjectMemberPanel == uiBuildProjectPanel
uiBuildProjectAllIssuePage == uiRequireProjectAccess \o uiProjectPermissions
uiBuildProjectChangelogPage == uiProjectPermissions
uiBuildProjectSprintHistoryPage == uiProjectPermissions
uiServeHelpDeskIssue == <<"servesReporter">>
uiCreateIssueForProject == uiProjectFromNewIssueSelection \o uiProjectPermissions \o
  <<"triage", "do">>

-------------------------------------------------------------------------------
(* ui_project_pages.go *)

uiProjectPage == Door("open a project",
  uiProjectFromRoute \o uiRequireProjectAccess \o <<"do">>)
uiProjectWorkPage == Door("see a project",
  uiProjectFromRoute \o uiRequireProjectAccess \o uiBuildProjectPanel)
uiProjectWorkPanel == Door("see a project",
  uiProjectFromRoute \o uiBuildProjectPanel)
uiToggleProjectFavorite == Door("favour a project",
  uiProjectFromRoute \o uiRequireProjectAccess \o <<"input", "do">>)
uiProjectAllIssuePage == Door("open a project",
  uiProjectFromRoute \o uiBuildProjectAllIssuePage \o <<"show">>)
uiProjectLegacyBacklog == Door("open a project",
  uiProjectFromRoute \o uiRequireProjectAccess \o <<"do">>)
uiProjectDeletedPage == Door("list deleted issues",
  uiProjectFromRoute \o uiBuildDeletedIssuesPanel)
uiProjectDeletedPanel == Door("list deleted issues",
  uiProjectFromRoute \o uiBuildDeletedIssuesPanel)
uiProjectSprintHistoryPage == Door("list sprints",
  uiProjectFromRoute \o uiRequireProjectAccess \o
  uiBuildProjectSprintHistoryPage \o <<"show">>)
uiProjectSprintHistoryIssues == Door("list a sprint's history",
  uiProjectSprintFromRoute \o <<"thing">> \o uiProjectPermissions \o <<"show">>)
uiProjectChangelogPage == Door("list the changelog",
  uiProjectFromRoute \o uiRequireProjectAccess \o uiBuildProjectChangelogPage \o
  <<"show">>)

-------------------------------------------------------------------------------
(* ui_project_members.go *)

uiProjectMemberCandidates == Door("search candidates",
  uiProjectFromRoute \o uiRequireProjectMemberManagement \o <<"input", "do">>)
uiSaveProjectMember == Door("grant membership",
  uiProjectFromRoute \o uiRequireProjectMemberManagement \o
  <<"input", "user", "do">> \o uiBuildProjectMemberPanel)
uiDeleteProjectMember == Door("revoke membership",
  uiProjectFromRoute \o uiRequireProjectMemberManagement \o
  <<"input", "user", "do", "disconnect">> \o uiBuildProjectMemberPanel)
uiUpdateProjectAccess == Door("change project access",
  uiProjectFromRoute \o uiRequireProjectMemberManagement \o
  <<"input", "do", "disconnect">> \o uiBuildProjectMemberPanel)
uiUpdateProjectSprintMode == Door("change sprint mode",
  uiProjectFromRoute \o uiRequireProjectMemberManagement \o <<"input", "do">> \o
  uiBuildProjectMemberPanel)
uiBlockProjectUser == Door("block a user",
  uiProjectFromRoute \o uiRequireProjectMemberManagement \o
  <<"input", "user", "do", "disconnect">> \o uiBuildProjectMemberPanel)
uiUnblockProjectUser == Door("unblock a user",
  uiProjectFromRoute \o uiRequireProjectMemberManagement \o
  <<"input", "user", "do", "disconnect">> \o uiBuildProjectMemberPanel)

-------------------------------------------------------------------------------
(* ui_project_delete.go *)

uiConfirmDeleteProject == Door("ask to delete a project",
  uiProjectFromRoute \o uiRequireProjectDeletion \o uiBuildProjectPanel)
uiDeleteProject == Door("delete a project",
  uiProjectFromRoute \o uiRequireProjectDeletion \o <<"input", "do">>)

-------------------------------------------------------------------------------
(* ui_tag_pages.go *)

uiProjectTagsPage == Door("list tags",
  uiProjectFromRoute \o uiBuildProjectTagManager)
uiCreateProjectTag == Door("create a tag",
  uiProjectWriteHandler \o uiProjectFromRoute \o <<"input", "do">> \o
  uiBuildProjectTagManager)
uiEditProjectTag == Door("edit a tag's form",
  uiProjectWriteHandler \o uiProjectTagFromRoute \o uiRequireProjectAccess \o
  uiBuildProjectTagManager)
uiUpdateProjectTag == Door("edit a tag",
  uiProjectWriteHandler \o uiProjectTagFromRoute \o <<"input", "do">> \o
  uiBuildProjectTagManager)
uiDeleteProjectTag == Door("delete a tag",
  uiProjectWriteHandler \o uiProjectTagFromRoute \o uiRequireProjectAccess \o
  <<"do">> \o uiBuildProjectTagManager)
uiIssueTagsPage == Door("choose an issue's tags",
  uiIssueWriteHandler \o uiIssueFromRoute \o uiBuildIssueTagManager)
uiAttachIssueTag == Door("tag an issue",
  uiIssueWriteHandler \o uiIssueFromRoute \o <<"input">> \o
  uiRequireProjectAccess \o <<"thing", "do">> \o uiBuildIssuePanel)
uiDetachIssueTag == Door("untag an issue",
  uiIssueWriteHandler \o uiIssueFromRoute \o uiRequireProjectAccess \o
  <<"input", "thing", "do">> \o uiBuildIssuePanel)

-------------------------------------------------------------------------------
(* ui_project_whiteboard_pages.go *)

uiViewWhiteboardPage == Door("see a whiteboard page",
  uiProjectFromRoute \o uiRequireProjectAccess \o uiWhiteboardPageFromRoute \o
  uiBuildProjectPanel)
uiNewWhiteboardPage == Door("whiteboard form",
  uiProjectWriteHandler \o uiProjectFromRoute \o uiBuildProjectPanel)
uiCreateWhiteboardPage == Door("draw a whiteboard page",
  uiProjectWriteHandler \o uiProjectFromRoute \o <<"input", "do">> \o
  uiBuildProjectPanel)
uiEditWhiteboardPage == Door("whiteboard form",
  uiProjectWriteHandler \o uiProjectFromRoute \o uiWhiteboardPageFromRoute \o
  uiBuildProjectPanel)
uiUpdateWhiteboardPage == Door("edit a whiteboard page",
  uiProjectWriteHandler \o uiProjectFromRoute \o uiWhiteboardPageFromRoute \o
  <<"input", "do">> \o uiBuildProjectPanel)
uiDeleteWhiteboardPage == Door("delete a whiteboard page",
  uiProjectWriteHandler \o uiProjectFromRoute \o uiWhiteboardPageFromRoute \o
  <<"do">> \o uiBuildProjectPanel)

-------------------------------------------------------------------------------
(* ui_github_pages.go *)

uiConnectGitHubRepository == Door("connect a repository",
  uiProjectFromRoute \o uiRequireProjectMemberManagement \o
  <<"input", "do", "do">> \o uiBuildProjectPanel)
uiDisconnectGitHubRepository == Door("disconnect a repository",
  uiProjectFromRoute \o uiRequireProjectMemberManagement \o <<"input", "do">> \o
  uiBuildProjectPanel)
uiCreateGitHubIssueLink == Door("link a GitHub item",
  uiIssueWriteHandler \o uiIssueFromRouteIncludingDeleted \o <<"input", "do">> \o
  uiBuildIssuePanel)
uiDeleteGitHubIssueLink == Door("unlink a GitHub item",
  uiIssueWriteHandler \o uiIssueFromRouteIncludingDeleted \o <<"input", "do">> \o
  uiBuildIssuePanel)
uiRefreshGitHubIssueLink == Door("refresh a GitHub item",
  uiIssueWriteHandler \o uiIssueFromRouteIncludingDeleted \o
  <<"input", "thing", "do">> \o uiBuildIssuePanel)

-------------------------------------------------------------------------------
(* ui_issue_pages.go *)

uiIssuePage == Door("read an issue",
  uiIssueFromRouteIncludingDeleted \o uiServeHelpDeskIssue \o
  uiBuildDeletedIssuePanel)
uiIssuePanel == Door("read an issue",
  uiIssueFromRouteIncludingDeleted \o uiServeHelpDeskIssue \o
  uiBuildDeletedIssuePanel)
uiDeleteIssue == Door("delete an issue",
  uiIssueWriteHandler \o uiIssueFromRoute \o uiRequireProjectAccess \o
  uiBuildIssuePanel \o <<"do">>)
uiRestoreIssue == Door("restore an issue",
  uiIssueWriteHandler \o uiDeletedIssueFromRoute \o uiRequireProjectAccess \o
  <<"do">> \o uiBuildIssuePanel)
uiEditIssueTitle == Door("edit an issue's form",
  uiIssueWriteHandler \o uiIssueFromRoute \o uiBuildIssuePanel)
uiUpdateIssueTitle == Door("edit an issue",
  uiIssueWriteHandler \o uiIssueFromRoute \o <<"input">> \o
  uiRequireProjectAccess \o <<"do">> \o uiBuildIssuePanel)
uiEditIssueDescription == Door("edit an issue's form",
  uiIssueWriteHandler \o uiIssueFromRoute \o uiBuildIssuePanel)
uiUpdateIssueDescription == Door("edit an issue",
  uiIssueWriteHandler \o uiIssueFromRoute \o <<"input">> \o
  uiRequireProjectAccess \o <<"do">> \o uiBuildIssuePanel)
uiEditIssueStatus == Door("edit an issue's form",
  uiIssueWriteHandler \o uiIssueFromRoute \o uiBuildIssuePanel)
uiUpdateIssueStatus == Door("edit an issue",
  uiIssueWriteHandler \o uiIssueFromRoute \o <<"input">> \o
  uiRequireProjectAccess \o <<"do">> \o uiBuildIssuePanel)
uiEditIssueCloseReason == Door("edit an issue's form",
  uiIssueWriteHandler \o uiIssueFromRoute \o uiBuildIssuePanel)
uiUpdateIssueCloseReason == Door("edit an issue",
  uiIssueWriteHandler \o uiIssueFromRoute \o <<"input">> \o
  uiRequireProjectAccess \o <<"do">> \o uiBuildIssuePanel)
uiEditIssuePriority == Door("edit an issue's form",
  uiIssueWriteHandler \o uiIssueFromRoute \o uiBuildIssuePanel)
uiUpdateIssuePriority == Door("edit an issue",
  uiIssueWriteHandler \o uiIssueFromRoute \o <<"input">> \o
  uiRequireProjectAccess \o <<"do">> \o uiBuildIssuePanel)
uiEditIssueWorker == Door("edit an issue's form",
  uiIssueWriteHandler \o uiIssueFromRoute \o uiBuildIssuePanel)
uiUpdateIssueWorker == Door("edit an issue",
  uiIssueWriteHandler \o uiIssueFromRoute \o <<"input">> \o
  uiRequireProjectAccess \o <<"do">> \o uiBuildIssuePanel)
uiEditIssueDueDate == Door("edit an issue's form",
  uiIssueWriteHandler \o uiIssueFromRoute \o uiBuildIssuePanel)
uiUpdateIssueDueDate == Door("edit an issue",
  uiIssueWriteHandler \o uiIssueFromRoute \o <<"input">> \o
  uiRequireProjectAccess \o <<"do">> \o uiBuildIssuePanel)
uiEditIssueAssignee == Door("edit an issue's form",
  uiIssueWriteHandler \o uiIssueFromRoute \o uiBuildIssuePanel)
uiUpdateIssueAssignee == Door("edit an issue",
  uiIssueWriteHandler \o uiIssueFromRoute \o <<"input">> \o
  uiRequireProjectAccess \o <<"do">> \o uiBuildIssuePanel)
uiEditIssueReporter == Door("edit an issue's form",
  uiIssueWriteHandler \o uiIssueFromRoute \o uiBuildIssuePanel)
uiUpdateIssueReporter == Door("edit an issue",
  uiIssueWriteHandler \o uiIssueFromRoute \o <<"input">> \o
  uiRequireProjectAccess \o <<"do">> \o uiBuildIssuePanel)
uiEditIssueSprint == Door("edit an issue's form",
  uiIssueWriteHandler \o uiIssueFromRoute \o uiBuildIssuePanel)
uiUpdateIssueSprint == Door("edit an issue",
  uiIssueWriteHandler \o uiIssueFromRoute \o <<"input">> \o
  uiRequireProjectAccess \o <<"do">> \o uiBuildIssuePanel)
uiUpdateIssuePrivate == Door("edit an issue",
  uiIssueWriteHandler \o uiIssueFromRoute \o <<"input", "do">> \o
  uiBuildIssuePanel)

-------------------------------------------------------------------------------
(* ui_issue_repeat.go *)

uiEditIssueRepeat == Door("edit an issue's form",
  uiIssueWriteHandler \o uiIssueFromRoute \o uiBuildIssuePanel)
uiUpdateIssueRepeat == Door("edit an issue",
  uiIssueWriteHandler \o uiIssueFromRoute \o <<"input">> \o
  uiRequireProjectAccess \o <<"do">> \o uiBuildIssuePanel)

-------------------------------------------------------------------------------
(* ui_issue_relationship_pages.go *)

uiNewIssueLink == Door("edit an issue's form",
  uiIssueWriteHandler \o uiIssueFromRoute \o uiBuildIssuePanel)
uiNewSubIssue == Door("edit an issue's form",
  uiIssueWriteHandler \o uiIssueFromRoute \o uiBuildIssuePanel)
uiCreateIssueLink == Door("link issues",
  uiIssueWriteHandler \o uiIssueFromRoute \o <<"input">> \o
  uiRequireProjectAccess \o <<"other", "do">> \o uiBuildIssuePanel)
uiEditIssueLink == Door("edit an issue's form",
  uiIssueWriteHandler \o uiIssueFromRoute \o uiRequireProjectAccess \o
  uiIssueLinkFromRoute \o uiBuildIssuePanel)
uiUpdateIssueLink == Door("edit a link",
  uiIssueWriteHandler \o uiIssueFromRoute \o <<"input">> \o
  uiRequireProjectAccess \o uiIssueLinkFromRoute \o <<"other", "do">> \o
  uiBuildIssuePanel)
uiDeleteIssueLink == Door("delete a link",
  uiIssueWriteHandler \o uiIssueFromRoute \o uiRequireProjectAccess \o
  uiIssueLinkFromRoute \o <<"do">> \o uiBuildIssuePanel)
uiCreateSubIssue == Door("file a sub-issue",
  uiIssueWriteHandler \o uiIssueFromRoute \o <<"input">> \o
  uiRequireProjectAccess \o <<"do">> \o uiBuildIssuePanel)
uiCreateComment == Door("comment",
  uiIssueCommentHandler \o uiIssueFromRoute \o <<"input">> \o uiFollowedIssue \o
  uiRequireProjectAccess \o <<"do", "show">>)
uiEditComment == Door("edit a comment's form",
  uiIssueCommentHandler \o uiIssueFromRoute \o uiFollowedIssue \o
  uiRequireProjectAccess \o uiCommentFromRoute \o <<"author", "show">>)
uiUpdateComment == Door("edit a comment",
  uiIssueCommentHandler \o uiIssueFromRoute \o <<"input">> \o uiFollowedIssue \o
  uiRequireProjectAccess \o uiCommentFromRoute \o
  <<"author", "input", "do", "show">>)

-------------------------------------------------------------------------------
(* ui_issue_context_pages.go *)

uiCreateIssueContextLink == Door("give an issue context",
  uiIssueWriteHandler \o uiIssueFromRoute \o uiRequireProjectAccess \o
  <<"input", "thing", "do">> \o renderUIIssueContextManager)
uiNewIssueContextLink == Door("edit an issue's form",
  uiIssueWriteHandler \o uiIssueFromRoute \o renderUIIssueContextManager)
uiNewIssueContext == Door("edit an issue's form",
  uiIssueWriteHandler \o uiIssueFromRoute \o renderUIIssueContextManager)
uiViewIssueContext == Door("list an issue's context",
  uiIssueFromRoute \o renderUIIssueContextManager)
uiViewIssueContextItem == Door("list an issue's context",
  uiIssueFromRoute \o uiIssueContextFromRoute \o renderUIIssueContextManager)
uiEditIssueContext == Door("edit an issue's form",
  uiIssueWriteHandler \o uiIssueFromRoute \o uiIssueContextFromRoute \o
  renderUIIssueContextManager)
uiUpdateIssueContext == Door("edit an issue's context",
  uiIssueWriteHandler \o uiIssueFromRoute \o uiIssueContextFromRoute \o
  <<"input">> \o uiRequireProjectAccess \o <<"input", "do">> \o
  renderUIIssueContextManager)
uiDeleteIssueContextLink == Door("take an issue's context",
  uiIssueWriteHandler \o uiIssueFromRoute \o uiRequireProjectAccess \o
  <<"input", "thing", "do", "do">> \o renderUIIssueContextManager)

-------------------------------------------------------------------------------
(* ui_project_context_pages.go *)

uiProjectContextPage == Door("list context pages",
  uiProjectFromRoute \o renderUIProjectContextManager)
uiViewProjectContext == Door("read a context page",
  uiProjectContextFromRoute \o renderUIProjectContextManager)
uiNewProjectContext == Door("context form",
  uiProjectWriteHandler \o uiProjectFromRoute \o uiRequireProjectAccess \o
  renderUIProjectContextManager)
uiCreateProjectContext == Door("write a context page",
  uiProjectWriteHandler \o uiProjectFromRoute \o uiRequireProjectAccess \o
  <<"input", "do">> \o renderUIProjectContextManager)
uiEditProjectContext == Door("context form",
  uiProjectWriteHandler \o uiProjectContextFromRoute \o uiRequireProjectAccess \o
  renderUIProjectContextManager)
uiUpdateProjectContext == Door("edit a context page",
  uiProjectWriteHandler \o uiProjectContextFromRoute \o <<"input">> \o
  uiRequireProjectAccess \o <<"input", "do">> \o renderUIProjectContextManager)
uiDeleteProjectContext == Door("delete a context page",
  uiProjectWriteHandler \o uiProjectContextFromRoute \o uiRequireProjectAccess \o
  <<"do">> \o renderUIProjectContextManager)
uiMoveProjectContext == Door("move a context page",
  uiProjectWriteHandler \o uiProjectContextFromRoute \o uiRequireProjectAccess \o
  <<"do">> \o renderUIProjectContextManager)
uiNewProjectContextIssueLink == Door("context form",
  uiProjectWriteHandler \o uiProjectContextFromRoute \o uiRequireProjectAccess \o
  renderUIProjectContextManager)
uiCreateProjectContextIssueLink == Door("link context in bulk",
  uiProjectWriteHandler \o uiProjectContextFromRoute \o uiRequireProjectAccess \o
  <<"input", "other", "do">> \o renderUIProjectContextManager)
uiDeleteProjectContextIssueLink == Door("take an issue's context",
  uiProjectWriteHandler \o uiProjectContextFromRoute \o uiRequireProjectAccess \o
  <<"input", "other", "do">> \o renderUIProjectContextManager)

-------------------------------------------------------------------------------
(* ui_project_sprint_pages.go *)

uiEditProjectName == Door("project form",
  uiProjectWriteHandler \o uiProjectFromRoute \o uiBuildProjectPanel)
uiUpdateProjectName == Door("edit a project",
  uiProjectWriteHandler \o uiProjectFromRoute \o <<"input">> \o
  uiRequireProjectAccess \o <<"do">> \o uiBuildProjectPanel)
uiEditProjectDescription == Door("project form",
  uiProjectWriteHandler \o uiProjectFromRoute \o uiBuildProjectPanel)
uiUpdateProjectDescription == Door("edit a project",
  uiProjectWriteHandler \o uiProjectFromRoute \o <<"input">> \o
  uiRequireProjectAccess \o <<"do">> \o uiBuildProjectPanel)
uiNewProjectSprint == Door("sprint form",
  uiProjectWriteHandler \o uiProjectFromRoute \o uiBuildProjectPanel)
uiCreateProjectSprint == Door("create a sprint",
  uiProjectWriteHandler \o uiProjectFromRoute \o <<"input">> \o
  uiRequireProjectAccess \o <<"do">> \o uiBuildProjectPanel)
uiEditProjectSprint == Door("sprint form",
  uiProjectWriteHandler \o uiProjectSprintFromRoute \o uiBuildProjectPanel)
uiProjectSprintDescription == Door("see a sprint",
  uiProjectSprintFromRoute \o <<"do">>)
uiUpdateProjectSprint == Door("edit a sprint",
  uiProjectWriteHandler \o uiProjectSprintFromRoute \o <<"input">> \o
  uiRequireProjectAccess \o <<"do">> \o uiBuildProjectPanel)
uiActivateProjectSprint == Door("edit a sprint",
  uiProjectWriteHandler \o uiProjectSprintFromRoute \o uiRequireProjectAccess \o
  <<"do">> \o uiBuildProjectPanel)
uiCompleteProjectSprint == Door("complete a sprint",
  uiProjectWriteHandler \o uiProjectSprintFromRoute \o uiRequireProjectAccess \o
  <<"do">> \o uiBuildProjectPanel)
uiDeleteProjectSprint == Door("delete a sprint",
  uiProjectWriteHandler \o uiProjectSprintFromRoute \o uiRequireProjectAccess \o
  <<"do">> \o uiBuildProjectPanel)
uiMoveProjectSprint == Door("reorder sprints",
  uiProjectWriteHandler \o uiProjectSprintFromRoute \o uiRequireProjectAccess \o
  <<"do">> \o uiBuildProjectPanel)
uiNewProjectSprintIssue == Door("sprint form",
  uiProjectWriteHandler \o uiProjectSprintFromRoute \o uiBuildProjectPanel)
uiAddProjectSprintIssue == Door("plan an issue",
  uiProjectWriteHandler \o uiProjectSprintFromRoute \o <<"input", "other">> \o
  uiRequireProjectAccess \o <<"do">> \o uiBuildProjectPanel)

-------------------------------------------------------------------------------
(* ui_home_pages.go *)

uiCreateProject == Door("create a project", <<"input", "do">>)
uiNewProjectIssuePage == Door("issue form",
  uiProjectIssueCreateHandler \o uiProjectFromRoute \o uiProjectPermissions \o
  uiProjectFromRoute \o uiRequireProjectIssueCreationAccess \o <<"do">>)
uiCreateProjectIssue == Door("file an issue",
  uiProjectIssueCreateHandler \o uiProjectFromRoute \o uiProjectPermissions \o
  uiCreateIssueForProject)
uiCreateIssue == Door("file an issue", uiCreateIssueForProject)

-------------------------------------------------------------------------------
(* ui_helpdesk_pages.go *)

uiReportedIssuesPage == Door("list what I reported",
  <<"signedIn">> \o uiProjectFromRoute \o <<"readOrReport", "do">>)

-------------------------------------------------------------------------------
(* ui_account_pages.go *)

uiUpdateProfile == Door("change my settings", <<"input", "do">>)
uiUpdatePassword == Door("change my settings",
  <<"input", "limit", "password", "do", "do">>)
uiCreateToken == Door("create my token", <<"input", "do">>)
uiRevokeToken == Door("revoke my token", <<"input", "do">>)

-------------------------------------------------------------------------------
(* ui_github_tokens.go *)

uiCreateGitHubToken == Door("add a GitHub token", <<"input", "do">>)
uiDeleteGitHubToken == Door("delete a GitHub token", <<"input", "do">>)

-------------------------------------------------------------------------------
(* context_attachments.go *)

uiCreateContextAttachment == Door("attach to a context page",
  uiProjectWriteHandler \o uiProjectContextFromRoute \o uiRequireProjectAccess \o
  <<"input", "do", "do">>)
uiGetContextAttachmentContent == Door("read a context page's attachment",
  uiContextAttachmentFromRoute \o <<"do">>)
uiDeleteContextAttachment == Door("detach from a context page",
  uiProjectWriteHandler \o uiContextAttachmentFromRoute \o <<"do", "do">> \o
  renderUIProjectContextManager)
uiDeleteContextAttachmentJSON == Door("detach from a context page",
  uiProjectWriteHandler \o uiContextAttachmentFromRoute \o <<"do", "do">>)

-------------------------------------------------------------------------------
(* issue_attachments.go *)

uiCreateIssueAttachment == Door("attach to an issue",
  uiIssueWriteHandler \o uiIssueFromRoute \o uiRequireProjectAccess \o
  <<"input", "do", "do">>)
uiGetIssueAttachmentContent == Door("read an issue's attachment",
  uiIssueAttachmentFromRoute \o <<"do">>)
uiDeleteIssueAttachment == Door("detach from an issue",
  uiIssueWriteHandler \o uiIssueAttachmentFromRoute \o <<"do", "do">> \o
  uiBuildIssuePanel)
uiDeleteIssueAttachmentJSON == Door("detach from an issue",
  uiIssueWriteHandler \o uiIssueAttachmentFromRoute \o <<"do", "do">>)

-------------------------------------------------------------------------------
(* project_attachments.go *)

uiCreateProjectAttachment == Door("attach to a project",
  uiProjectWriteHandler \o uiProjectFromRoute \o uiRequireProjectAccess \o
  <<"input", "do", "do">>)
uiGetProjectAttachmentContent == Door("read a project's attachment",
  uiProjectAttachmentFromRoute \o <<"do">>)
uiDeleteProjectAttachment == Door("detach from a project",
  uiProjectWriteHandler \o uiProjectAttachmentFromRoute \o <<"do", "do">> \o
  uiBuildProjectPanel)
uiDeleteProjectAttachmentJSON == Door("detach from a project",
  uiProjectWriteHandler \o uiProjectAttachmentFromRoute \o <<"do", "do">>)

-------------------------------------------------------------------------------
(* sprint_attachments.go *)

uiCreateSprintAttachment == Door("attach to a sprint",
  uiProjectWriteHandler \o uiProjectSprintFromRoute \o <<"input", "do", "do">>)
uiGetSprintAttachmentContent == Door("read a sprint's attachment",
  uiSprintAttachmentFromRoute \o <<"do">>)
uiDeleteSprintAttachment == Door("detach from a sprint",
  uiProjectWriteHandler \o uiSprintAttachmentFromRoute \o <<"do", "do">> \o
  uiBuildProjectPanel)
uiDeleteSprintAttachmentJSON == Door("detach from a sprint",
  uiProjectWriteHandler \o uiSprintAttachmentFromRoute \o <<"do", "do">>)

-------------------------------------------------------------------------------
PageDoorsSet == {uiProjectPage, uiProjectWorkPage, uiProjectWorkPanel,
    uiToggleProjectFavorite, uiProjectAllIssuePage, uiProjectLegacyBacklog,
    uiProjectDeletedPage, uiProjectDeletedPanel, uiProjectSprintHistoryPage,
    uiProjectSprintHistoryIssues, uiProjectChangelogPage,
    uiProjectMemberCandidates, uiSaveProjectMember, uiDeleteProjectMember,
    uiUpdateProjectAccess, uiUpdateProjectSprintMode, uiBlockProjectUser,
    uiUnblockProjectUser, uiConfirmDeleteProject, uiDeleteProject,
    uiProjectTagsPage, uiCreateProjectTag, uiEditProjectTag,
    uiUpdateProjectTag, uiDeleteProjectTag, uiIssueTagsPage, uiAttachIssueTag,
    uiDetachIssueTag, uiViewWhiteboardPage, uiNewWhiteboardPage,
    uiCreateWhiteboardPage, uiEditWhiteboardPage, uiUpdateWhiteboardPage,
    uiDeleteWhiteboardPage, uiConnectGitHubRepository,
    uiDisconnectGitHubRepository, uiCreateGitHubIssueLink,
    uiDeleteGitHubIssueLink, uiRefreshGitHubIssueLink, uiIssuePage,
    uiIssuePanel, uiDeleteIssue, uiRestoreIssue, uiEditIssueTitle,
    uiUpdateIssueTitle, uiEditIssueDescription, uiUpdateIssueDescription,
    uiEditIssueStatus, uiUpdateIssueStatus, uiEditIssueCloseReason,
    uiUpdateIssueCloseReason, uiEditIssuePriority, uiUpdateIssuePriority,
    uiEditIssueWorker, uiUpdateIssueWorker, uiEditIssueDueDate,
    uiUpdateIssueDueDate, uiEditIssueAssignee, uiUpdateIssueAssignee,
    uiEditIssueReporter, uiUpdateIssueReporter, uiEditIssueSprint,
    uiUpdateIssueSprint, uiUpdateIssuePrivate, uiEditIssueRepeat,
    uiUpdateIssueRepeat, uiNewIssueLink, uiNewSubIssue, uiCreateIssueLink,
    uiEditIssueLink, uiUpdateIssueLink, uiDeleteIssueLink, uiCreateSubIssue,
    uiCreateComment, uiEditComment, uiUpdateComment, uiCreateIssueContextLink,
    uiNewIssueContextLink, uiNewIssueContext, uiViewIssueContext,
    uiViewIssueContextItem, uiEditIssueContext, uiUpdateIssueContext,
    uiDeleteIssueContextLink, uiProjectContextPage, uiViewProjectContext,
    uiNewProjectContext, uiCreateProjectContext, uiEditProjectContext,
    uiUpdateProjectContext, uiDeleteProjectContext, uiMoveProjectContext,
    uiNewProjectContextIssueLink, uiCreateProjectContextIssueLink,
    uiDeleteProjectContextIssueLink, uiEditProjectName, uiUpdateProjectName,
    uiEditProjectDescription, uiUpdateProjectDescription, uiNewProjectSprint,
    uiCreateProjectSprint, uiEditProjectSprint, uiProjectSprintDescription,
    uiUpdateProjectSprint, uiActivateProjectSprint, uiCompleteProjectSprint,
    uiDeleteProjectSprint, uiMoveProjectSprint, uiNewProjectSprintIssue,
    uiAddProjectSprintIssue, uiCreateProject, uiNewProjectIssuePage,
    uiCreateProjectIssue, uiCreateIssue, uiReportedIssuesPage, uiUpdateProfile,
    uiUpdatePassword, uiCreateToken, uiRevokeToken, uiCreateGitHubToken,
    uiDeleteGitHubToken, uiCreateContextAttachment,
    uiGetContextAttachmentContent, uiDeleteContextAttachment,
    uiDeleteContextAttachmentJSON, uiCreateIssueAttachment,
    uiGetIssueAttachmentContent, uiDeleteIssueAttachment,
    uiDeleteIssueAttachmentJSON, uiCreateProjectAttachment,
    uiGetProjectAttachmentContent, uiDeleteProjectAttachment,
    uiDeleteProjectAttachmentJSON, uiCreateSprintAttachment,
    uiGetSprintAttachmentContent, uiDeleteSprintAttachment,
    uiDeleteSprintAttachmentJSON}
===============================================================================
