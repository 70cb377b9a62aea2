------------------------------- MODULE McpDoors -------------------------------
(* The tools of the MCP server (internal/server/mcp.go and mcp_whiteboard.go):  *)
(* which checks each makes, in which order, before it acts or answers.  The    *)
(* steps are explained in DoorSteps; their meaning is in Doors.                *)
EXTENDS DoorSteps, Sequences

requireMCPFirstPartyToken == <<"firstParty">>
requireMCPAdmin == <<"admin">>
mcpReadPermissions == <<"read">>
requireMCPProjectAccess == <<"access">>
requireMCPProjectWriteAccess == <<"write">>
requireMCPProjectIssueCreation == <<"creates">>
requireMCPProjectDeletion == <<"deletes">>
requireMCPProjectMemberManagement == <<"manages">>

mcpProject == <<"project">> \o requireMCPProjectAccess
mcpProjectForIssueCreation == <<"project">>
mcpIssue == <<"issue", "route", "reads">>
mcpFollowedIssue == <<"issue", "route", "follow">>
mcpDeletedIssue == <<"deletedIssue", "route", "reads">>
mcpComment == mcpFollowedIssue \o <<"input", "comment">>
mcpRequireCommentAuthor == <<"comments", "author">>
mcpSprint == mcpProject \o <<"input", "thing">>
mcpTag == mcpProject \o <<"input", "thing">>
mcpLink == mcpProject \o <<"input", "perms", "link">>
mcpContext == mcpProject \o <<"input", "thing">>
mcpContextAttachment == mcpContext \o <<"thing">>
mcpObject == mcpProject \o <<"input">> \o mcpReadPermissions \o <<"object">>
mcpAttachment == mcpIssue \o <<"input", "thing">>
mcpProjectAttachment == mcpProject \o <<"input", "thing">>
mcpSprintAttachment == mcpSprint \o <<"thing">>
mcpWhiteboardPage == mcpProject \o <<"input", "thing">>
mcpWritableWhiteboardPage == mcpProject \o requireMCPProjectWriteAccess \o <<"input", "thing">>

-------------------------------------------------------------------------------
(* mcp.go *)

mcpGetMe == Door("see my account", <<"do">>)
mcpUpdateMySettings == Door("change my settings",
  <<"secretFirstParty", "input", "do", "limit", "password", "do">>)
mcpCreateProject == Door("create a project", <<"input", "do">>)
mcpListProjects == Door("list my projects", <<"input", "do">>)
mcpGetProject == Door("see a project", mcpProject \o <<"do">>)
mcpDeleteProject == Door("delete a project",
  mcpProject \o requireMCPProjectDeletion \o <<"do">>)
mcpListProjectMembers == Door("list members", mcpProject \o <<"do">>)
mcpGrantProjectMember == Door("grant membership",
  mcpProject \o requireMCPProjectMemberManagement \o <<"user", "input", "do">>)
mcpRevokeProjectMember == Door("revoke membership",
  mcpProject \o requireMCPProjectMemberManagement \o
  <<"user", "do", "disconnect">>)
mcpGetProjectAccess == Door("see project access", mcpProject \o <<"do">>)
mcpUpdateProjectAccess == Door("change project access",
  mcpProject \o requireMCPProjectMemberManagement \o <<"do", "disconnect">>)
mcpUpdateProjectSprintMode == Door("change sprint mode",
  mcpProject \o requireMCPProjectMemberManagement \o <<"do">>)
mcpListProjectBlocks == Door("list blocks",
  mcpProject \o requireMCPProjectMemberManagement \o <<"do">>)
mcpBlockProjectUser == Door("block a user",
  mcpProject \o requireMCPProjectMemberManagement \o
  <<"user", "do", "disconnect">>)
mcpUnblockProjectUser == Door("unblock a user",
  mcpProject \o requireMCPProjectMemberManagement \o
  <<"user", "do", "disconnect">>)
mcpSearchProjectMembers == Door("search members",
  mcpProject \o <<"input">> \o mcpReadPermissions \o <<"do">>)
mcpSearchProjectMemberCandidates == Door("search candidates",
  mcpProject \o requireMCPProjectMemberManagement \o <<"input", "do">>)
mcpListProjectAssignees == Door("list assignees", mcpProject \o <<"perms", "show">>)
mcpGetProjectStats == Door("see statistics", mcpProject \o <<"perms", "show">>)
mcpGetProjectInsights == Door("see insights",
  mcpProject \o <<"input", "perms", "show">>)
mcpGetProjectTimeline == Door("see the timeline",
  mcpProject \o <<"input", "perms", "show">>)
mcpGetProjectProgress == Door("see progress",
  mcpProject \o <<"input", "perms", "show">>)
mcpListProjectChangelog == Door("list the changelog",
  mcpProject \o <<"input">> \o mcpReadPermissions \o <<"show">>)
mcpCreateIssue == Door("file an issue",
  mcpProjectForIssueCreation \o requireMCPProjectIssueCreation \o
  <<"input", "triage", "do", "do">>)
mcpCreateSubIssue == Door("file a sub-issue",
  mcpIssue \o requireMCPProjectWriteAccess \o <<"input", "do">>)
mcpListIssues == Door("list issues",
  mcpProjectForIssueCreation \o <<"readOrReport", "input", "show">>)
mcpListDeletedIssues == Door("list deleted issues",
  mcpProject \o mcpReadPermissions \o <<"members", "input", "do">>)
mcpListSubIssues == Door("list sub-issues",
  mcpIssue \o <<"input", "perms", "show">>)
mcpBatchIssues == Door("read several issues",
  <<"input", "issue", "route", "batch", "show">>)
mcpGetIssue == Door("read an issue", mcpFollowedIssue \o <<"show">>)
mcpUpdateIssue == Door("edit an issue",
  mcpIssue \o requireMCPProjectWriteAccess \o <<"input", "thing", "do">>)
mcpDeleteIssue == Door("delete an issue",
  mcpIssue \o requireMCPProjectWriteAccess \o <<"do">>)
mcpRestoreIssue == Door("restore an issue",
  mcpDeletedIssue \o requireMCPProjectWriteAccess \o <<"do">>)
mcpCreateComment == Door("comment",
  mcpFollowedIssue \o <<"comments", "input", "do">>)
mcpListComments == Door("list comments", mcpFollowedIssue \o <<"input", "show">>)
mcpGetComment == Door("read a comment", mcpComment \o <<"do">>)
mcpUpdateComment == Door("edit a comment",
  mcpComment \o mcpRequireCommentAuthor \o <<"input", "do">>)
mcpDeleteComment == Door("delete a comment",
  mcpComment \o mcpRequireCommentAuthor \o <<"do">>)
mcpCreateSprint == Door("create a sprint",
  mcpProject \o requireMCPProjectWriteAccess \o <<"input", "do">>)
mcpListSprints == Door("list sprints", mcpProject \o <<"input", "do">>)
mcpListSprintHistoryIssues == Door("list a sprint's history",
  mcpSprint \o <<"input", "perms", "show">>)
mcpGetSprint == Door("see a sprint", mcpSprint \o <<"do">>)
mcpUpdateSprint == Door("edit a sprint",
  mcpSprint \o requireMCPProjectWriteAccess \o <<"input", "do">>)
mcpDeleteSprint == Door("delete a sprint",
  mcpSprint \o requireMCPProjectWriteAccess \o <<"do">>)
mcpCompleteSprint == Door("complete a sprint",
  mcpSprint \o requireMCPProjectWriteAccess \o <<"do">>)
mcpReorderPlannedSprints == Door("reorder sprints",
  mcpProject \o requireMCPProjectWriteAccess \o <<"input", "thing", "do">>)
mcpCreateTag == Door("create a tag",
  mcpProject \o requireMCPProjectWriteAccess \o <<"input", "do">>)
mcpListTags == Door("list tags", mcpProject \o <<"input", "do">>)
mcpGetTag == Door("see a tag", mcpTag \o <<"do">>)
mcpUpdateTag == Door("edit a tag",
  mcpTag \o requireMCPProjectWriteAccess \o <<"input", "do">>)
mcpDeleteTag == Door("delete a tag",
  mcpTag \o requireMCPProjectWriteAccess \o <<"do">>)
mcpAttachIssueTag == Door("tag an issue",
  mcpIssue \o requireMCPProjectWriteAccess \o <<"input", "thing", "do">>)
mcpListIssueTags == Door("list an issue's tags", mcpIssue \o <<"input", "do">>)
mcpDetachIssueTag == Door("untag an issue",
  mcpIssue \o requireMCPProjectWriteAccess \o <<"input", "thing", "do">>)
mcpCreateLink == Door("link issues",
  mcpIssue \o requireMCPProjectWriteAccess \o <<"input", "other", "do">>)
mcpListIssueLinks == Door("list an issue's links",
  mcpIssue \o <<"input", "perms", "show">>)
mcpGetLink == Door("see a link", mcpLink \o <<"do">>)
mcpUpdateLink == Door("edit a link",
  mcpLink \o requireMCPProjectWriteAccess \o <<"input", "other", "do">>)
mcpDeleteLink == Door("delete a link",
  mcpLink \o requireMCPProjectWriteAccess \o <<"do">>)
mcpCreateProjectContext == Door("write a context page",
  mcpProject \o requireMCPProjectWriteAccess \o <<"input", "do">>)
mcpListProjectContext == Door("list context pages",
  mcpProject \o <<"input", "perms", "show">>)
mcpGetProjectContext == Door("read a context page", mcpContext \o <<"do">>)
mcpUpdateProjectContext == Door("edit a context page",
  mcpContext \o requireMCPProjectWriteAccess \o <<"input", "do">>)
mcpDeleteProjectContext == Door("delete a context page",
  mcpContext \o requireMCPProjectWriteAccess \o <<"do">>)
mcpCreateContextAttachment == Door("attach to a context page",
  mcpContext \o requireMCPProjectWriteAccess \o <<"input", "do">>)
mcpListContextAttachments == Door("list a context page's attachments",
  mcpContext \o <<"input", "do">>)
mcpReadContextAttachmentContent == Door("read a context page's attachment",
  mcpContextAttachment \o <<"do">>)
mcpDeleteContextAttachment == Door("detach from a context page",
  mcpContextAttachment \o requireMCPProjectWriteAccess \o <<"do">>)
mcpCreateIssueContext == Door("give an issue context",
  mcpIssue \o requireMCPProjectWriteAccess \o <<"input", "thing", "do">>)
mcpBulkLinkIssueContexts == Door("link context in bulk",
  mcpProject \o requireMCPProjectWriteAccess \o <<"input", "do">>)
mcpListIssueContext == Door("list an issue's context",
  mcpIssue \o <<"input", "do">>)
mcpDeleteIssueContext == Door("take an issue's context",
  mcpIssue \o requireMCPProjectWriteAccess \o <<"input", "thing", "do", "do">>)
mcpCreateObject == Door("upload a file",
  mcpProject \o requireMCPProjectWriteAccess \o <<"input", "do">>)
mcpListObjects == Door("list files",
  mcpProject \o <<"input">> \o mcpReadPermissions \o <<"show">>)
mcpGetObject == Door("see a file", mcpObject \o <<"do">>)
mcpReadObjectContent == Door("read a file", mcpObject \o <<"do">>)
mcpDeleteObject == Door("delete a file",
  mcpObject \o requireMCPProjectWriteAccess \o <<"do">>)
mcpCreateAttachment == Door("attach to an issue",
  mcpIssue \o requireMCPProjectWriteAccess \o <<"input", "do", "do">>)
mcpListAttachments == Door("list an issue's attachments",
  mcpIssue \o <<"input", "do">>)
mcpReadAttachmentContent == Door("read an issue's attachment",
  mcpAttachment \o <<"do">>)
mcpDeleteAttachment == Door("detach from an issue",
  mcpAttachment \o requireMCPProjectWriteAccess \o <<"do", "do">>)
mcpCreateProjectAttachment == Door("attach to a project",
  mcpProject \o requireMCPProjectWriteAccess \o <<"input", "do", "do">>)
mcpListProjectAttachments == Door("list a project's attachments",
  mcpProject \o <<"input", "do">>)
mcpReadProjectAttachmentContent == Door("read a project's attachment",
  mcpProjectAttachment \o <<"do">>)
mcpDeleteProjectAttachment == Door("detach from a project",
  mcpProjectAttachment \o requireMCPProjectWriteAccess \o <<"do", "do">>)
mcpCreateSprintAttachment == Door("attach to a sprint",
  mcpSprint \o requireMCPProjectWriteAccess \o <<"input", "do", "do">>)
mcpListSprintAttachments == Door("list a sprint's attachments",
  mcpSprint \o <<"input", "do">>)
mcpReadSprintAttachmentContent == Door("read a sprint's attachment",
  mcpSprintAttachment \o <<"do">>)
mcpDeleteSprintAttachment == Door("detach from a sprint",
  mcpSprintAttachment \o requireMCPProjectWriteAccess \o <<"do", "do">>)
mcpCreateUser == Door("create a user",
  requireMCPFirstPartyToken \o requireMCPAdmin \o <<"input", "do">>)
mcpListUsers == Door("list users",
  requireMCPFirstPartyToken \o requireMCPAdmin \o <<"input", "do">>)
mcpGetUser == Door("see a user",
  requireMCPFirstPartyToken \o requireMCPAdmin \o <<"input", "do">>)
mcpDeleteUser == Door("delete a user",
  requireMCPFirstPartyToken \o requireMCPAdmin \o <<"input", "do", "disconnect">>)
mcpCreateMyToken == Door("create my token",
  requireMCPFirstPartyToken \o <<"input", "do">>)
mcpListMyTokens == Door("list my tokens", requireMCPFirstPartyToken \o <<"do">>)
mcpRevokeMyToken == Door("revoke my token",
  requireMCPFirstPartyToken \o <<"input", "do">>)
mcpCreateUserToken == Door("create a user's token",
  requireMCPFirstPartyToken \o requireMCPAdmin \o <<"input", "do">>)
mcpListUserTokens == Door("list a user's tokens",
  requireMCPFirstPartyToken \o requireMCPAdmin \o <<"input", "do">>)
mcpRevokeToken == Door("revoke a user's token",
  requireMCPFirstPartyToken \o requireMCPAdmin \o <<"input", "do">>)

-------------------------------------------------------------------------------
(* mcp_whiteboard.go *)

mcpListWhiteboardPages == Door("list whiteboard pages",
  mcpProject \o <<"input", "do">>)
mcpGetWhiteboardPage == Door("see a whiteboard page", mcpWhiteboardPage \o <<"do">>)
mcpCreateWhiteboardPage == Door("draw a whiteboard page",
  mcpProject \o requireMCPProjectWriteAccess \o <<"input", "do">>)
mcpUpdateWhiteboardPage == Door("edit a whiteboard page",
  mcpWritableWhiteboardPage \o <<"input", "do">>)
mcpDeleteWhiteboardPage == Door("delete a whiteboard page",
  mcpWritableWhiteboardPage \o <<"do">>)

-------------------------------------------------------------------------------
McpDoorsSet == {mcpGetMe, mcpUpdateMySettings, mcpCreateProject,
    mcpListProjects, mcpGetProject, mcpDeleteProject, mcpListProjectMembers,
    mcpGrantProjectMember, mcpRevokeProjectMember, mcpGetProjectAccess,
    mcpUpdateProjectAccess, mcpUpdateProjectSprintMode, mcpListProjectBlocks,
    mcpBlockProjectUser, mcpUnblockProjectUser, mcpSearchProjectMembers,
    mcpSearchProjectMemberCandidates, mcpListProjectAssignees,
    mcpGetProjectStats, mcpGetProjectInsights, mcpGetProjectTimeline,
    mcpGetProjectProgress, mcpListProjectChangelog, mcpCreateIssue,
    mcpCreateSubIssue, mcpListIssues, mcpListDeletedIssues, mcpListSubIssues,
    mcpBatchIssues, mcpGetIssue, mcpUpdateIssue, mcpDeleteIssue,
    mcpRestoreIssue, mcpCreateComment, mcpListComments, mcpGetComment,
    mcpUpdateComment, mcpDeleteComment, mcpCreateSprint, mcpListSprints,
    mcpListSprintHistoryIssues, mcpGetSprint, mcpUpdateSprint, mcpDeleteSprint,
    mcpCompleteSprint, mcpReorderPlannedSprints, mcpCreateTag, mcpListTags,
    mcpGetTag, mcpUpdateTag, mcpDeleteTag, mcpAttachIssueTag, mcpListIssueTags,
    mcpDetachIssueTag, mcpCreateLink, mcpListIssueLinks, mcpGetLink,
    mcpUpdateLink, mcpDeleteLink, mcpCreateProjectContext,
    mcpListProjectContext, mcpGetProjectContext, mcpUpdateProjectContext,
    mcpDeleteProjectContext, mcpCreateContextAttachment,
    mcpListContextAttachments, mcpReadContextAttachmentContent,
    mcpDeleteContextAttachment, mcpCreateIssueContext,
    mcpBulkLinkIssueContexts, mcpListIssueContext, mcpDeleteIssueContext,
    mcpCreateObject, mcpListObjects, mcpGetObject, mcpReadObjectContent,
    mcpDeleteObject, mcpCreateAttachment, mcpListAttachments,
    mcpReadAttachmentContent, mcpDeleteAttachment, mcpCreateProjectAttachment,
    mcpListProjectAttachments, mcpReadProjectAttachmentContent,
    mcpDeleteProjectAttachment, mcpCreateSprintAttachment,
    mcpListSprintAttachments, mcpReadSprintAttachmentContent,
    mcpDeleteSprintAttachment, mcpCreateUser, mcpListUsers, mcpGetUser,
    mcpDeleteUser, mcpCreateMyToken, mcpListMyTokens, mcpRevokeMyToken,
    mcpCreateUserToken, mcpListUserTokens, mcpRevokeToken,
    mcpListWhiteboardPages, mcpGetWhiteboardPage, mcpCreateWhiteboardPage,
    mcpUpdateWhiteboardPage, mcpDeleteWhiteboardPage}
===============================================================================
