------------------------------ MODULE RestDoors ------------------------------
(* The handlers of the HTTP API (internal/server): which checks each makes, in   *)
(* which order, before it acts or answers.  The steps are explained in          *)
(* DoorSteps; their meaning is in Doors.                                        *)
EXTENDS DoorSteps, Sequences

requireFirstPartyToken == <<"firstParty">>
requireAdmin == <<"admin">>
requireProjectAccess == <<"access">>
requireProjectReadPermissions == <<"read">>
requireProjectWriteAccess == <<"write">>
requireProjectIssueCreation == <<"creates">>
requireProjectDeletion == <<"deletes">>
requireProjectMemberManagement == <<"manages">>

projectFromRoute == <<"project">>
issueWithAccessFromRoute == <<"issue", "route">>
issueFromRoute == issueWithAccessFromRoute \o <<"reads">>
deletedIssueFromRoute == <<"deletedIssue", "route">>
commentWithAccessFromRoute == issueWithAccessFromRoute \o <<"input", "comment">>
projectContextFromRoute == projectFromRoute \o <<"input", "thing">>
sprintFromRoute == projectFromRoute \o <<"input", "thing">>
issueTagFromRoute == projectFromRoute \o <<"input", "thing">>
issueLinkFromRoute == projectFromRoute \o <<"input">> \o requireProjectReadPermissions \o <<"link">>
storageObjectFromRoute == projectFromRoute \o requireProjectReadPermissions \o <<"input", "object">>
contextAttachmentFromRoute == projectContextFromRoute \o requireProjectAccess \o <<"input", "thing">>
issueAttachmentFromRoute == issueFromRoute \o requireProjectAccess \o <<"input", "thing">>
projectAttachmentFromRoute == projectFromRoute \o requireProjectAccess \o <<"input", "thing">>
sprintAttachmentFromRoute == sprintFromRoute \o requireProjectAccess \o <<"input", "thing">>
projectMemberUserFromRoute == <<"user">>
whiteboardPageFromRoute == <<"input", "thing">>

-------------------------------------------------------------------------------
(* issues.go *)

createIssue == Door("file an issue",
  projectFromRoute \o requireProjectIssueCreation \o
  <<"perms", "input", "triage", "do", "do">>)
listReportedIssues == Door("list what I reported",
  projectFromRoute \o <<"readOrReport", "input", "do">>)
createSubIssue == Door("file a sub-issue",
  issueFromRoute \o requireProjectWriteAccess \o <<"input", "do">>)
listIssues == Door("list issues",
  projectFromRoute \o <<"readOrReport", "input", "thing", "show">>)
listDeletedIssues == Door("list deleted issues",
  projectFromRoute \o requireProjectReadPermissions \o
  <<"members", "input", "do">>)
listSubIssues == Door("list sub-issues",
  issueWithAccessFromRoute \o <<"reads", "input", "show">>)
batchIssues == Door("read several issues",
  <<"input", "issue", "route", "batch", "show">>)
getIssue == Door("read an issue", issueWithAccessFromRoute \o <<"follow", "show">>)
updateIssue == Door("edit an issue",
  issueFromRoute \o requireProjectWriteAccess \o <<"input", "thing", "do">>)
deleteIssue == Door("delete an issue",
  issueFromRoute \o requireProjectWriteAccess \o <<"do">>)
restoreIssue == Door("restore an issue",
  deletedIssueFromRoute \o requireProjectWriteAccess \o <<"do">>)

-------------------------------------------------------------------------------
(* project_members.go *)

grantProjectMember == Door("grant membership",
  projectFromRoute \o requireProjectMemberManagement \o
  projectMemberUserFromRoute \o <<"input", "do">>)
revokeProjectMember == Door("revoke membership",
  projectFromRoute \o requireProjectMemberManagement \o
  projectMemberUserFromRoute \o <<"do", "disconnect">>)
getProjectAccess == Door("see project access",
  projectFromRoute \o requireProjectAccess \o <<"do">>)
updateProjectAccess == Door("change project access",
  projectFromRoute \o requireProjectMemberManagement \o
  <<"input", "do", "disconnect">>)
listProjectBlocks == Door("list blocks",
  projectFromRoute \o requireProjectMemberManagement \o <<"do">>)
blockProjectUser == Door("block a user",
  projectFromRoute \o requireProjectMemberManagement \o
  projectMemberUserFromRoute \o <<"do", "disconnect">>)
unblockProjectUser == Door("unblock a user",
  projectFromRoute \o requireProjectMemberManagement \o
  projectMemberUserFromRoute \o <<"do", "disconnect">>)
listProjectMembers == Door("list members",
  projectFromRoute \o requireProjectAccess \o <<"do">>)
searchAvailableProjectMembers == Door("search candidates",
  projectFromRoute \o requireProjectMemberManagement \o <<"input", "do">>)
listProjectAssignees == Door("list assignees",
  projectFromRoute \o requireProjectReadPermissions \o <<"show">>)
searchProjectMembers == Door("search members",
  projectFromRoute \o requireProjectReadPermissions \o <<"input", "do">>)

-------------------------------------------------------------------------------
(* comments.go *)

createComment == Door("comment",
  issueWithAccessFromRoute \o <<"comments", "input", "do">>)
listComments == Door("list comments",
  issueWithAccessFromRoute \o <<"follow", "input", "show">>)
getComment == Door("read a comment",
  commentWithAccessFromRoute \o <<"follow", "do">>)
updateComment == Door("edit a comment",
  commentWithAccessFromRoute \o <<"input", "comments", "author", "do">>)
deleteComment == Door("delete a comment",
  commentWithAccessFromRoute \o <<"comments", "author", "do">>)

-------------------------------------------------------------------------------
(* projects.go *)

createProject == Door("create a project", <<"input", "do">>)
listProjects == Door("list my projects", <<"input", "do">>)
getProject == Door("see a project",
  projectFromRoute \o requireProjectAccess \o <<"do">>)
updateProject == Door("edit a project",
  projectFromRoute \o requireProjectWriteAccess \o <<"input", "do">>)
updateProjectSprintMode == Door("change sprint mode",
  projectFromRoute \o requireProjectMemberManagement \o <<"input", "do">>)
deleteProject == Door("delete a project",
  projectFromRoute \o requireProjectDeletion \o <<"do">>)
favoriteProject == Door("favour a project",
  projectFromRoute \o requireProjectAccess \o <<"do">>)
unfavoriteProject == Door("unfavour a project",
  projectFromRoute \o requireProjectAccess \o <<"do">>)

-------------------------------------------------------------------------------
(* sprints.go *)

createSprint == Door("create a sprint",
  projectFromRoute \o requireProjectWriteAccess \o <<"input", "do">>)
listProjectSprints == Door("list sprints",
  projectFromRoute \o requireProjectAccess \o <<"input", "do">>)
reorderPlannedSprints == Door("reorder sprints",
  projectFromRoute \o requireProjectWriteAccess \o <<"input", "thing", "do">>)
getSprint == Door("see a sprint",
  sprintFromRoute \o requireProjectAccess \o <<"do">>)
listSprintHistoryIssues == Door("list a sprint's history",
  sprintFromRoute \o requireProjectReadPermissions \o <<"input", "show">>)
updateSprint == Door("edit a sprint",
  sprintFromRoute \o requireProjectWriteAccess \o <<"input", "do">>)
completeSprint == Door("complete a sprint",
  sprintFromRoute \o requireProjectWriteAccess \o <<"do">>)
deleteSprint == Door("delete a sprint",
  sprintFromRoute \o requireProjectWriteAccess \o <<"do">>)

-------------------------------------------------------------------------------
(* context.go *)

createProjectContext == Door("write a context page",
  projectFromRoute \o requireProjectWriteAccess \o <<"input", "do">>)
listProjectContexts == Door("list context pages",
  projectFromRoute \o requireProjectReadPermissions \o <<"input", "show">>)
getProjectContext == Door("read a context page",
  projectContextFromRoute \o requireProjectAccess \o <<"do">>)
updateProjectContext == Door("edit a context page",
  projectContextFromRoute \o requireProjectWriteAccess \o <<"input", "do">>)
deleteProjectContext == Door("delete a context page",
  projectContextFromRoute \o requireProjectWriteAccess \o <<"do">>)
listIssueContexts == Door("list an issue's context",
  issueFromRoute \o requireProjectAccess \o <<"input", "do">>)
createIssueContext == Door("give an issue context",
  issueFromRoute \o requireProjectWriteAccess \o <<"input", "thing", "do">>)
createIssueContextLinks == Door("link context in bulk",
  projectFromRoute \o requireProjectWriteAccess \o <<"input", "do">>)
deleteIssueContextLink == Door("take an issue's context",
  issueFromRoute \o requireProjectWriteAccess \o <<"input", "thing", "do", "do">>)

-------------------------------------------------------------------------------
(* context_attachments.go *)

createContextAttachment == Door("attach to a context page",
  projectContextFromRoute \o requireProjectWriteAccess \o <<"input", "do", "do">>)
listContextAttachments == Door("list a context page's attachments",
  projectContextFromRoute \o requireProjectAccess \o <<"input", "do">>)
getContextAttachmentContent == Door("read a context page's attachment",
  contextAttachmentFromRoute \o <<"do">>)
deleteContextAttachment == Door("detach from a context page",
  contextAttachmentFromRoute \o requireProjectWriteAccess \o <<"do", "do">>)

-------------------------------------------------------------------------------
(* storage_objects.go *)

createStorageObject == Door("upload a file",
  projectFromRoute \o requireProjectWriteAccess \o <<"input", "do">>)
listStorageObjects == Door("list files",
  projectFromRoute \o requireProjectReadPermissions \o <<"input", "show">>)
getStorageObject == Door("see a file", storageObjectFromRoute \o <<"do">>)
getStorageObjectContent == Door("read a file", storageObjectFromRoute \o <<"do">>)
deleteStorageObject == Door("delete a file",
  storageObjectFromRoute \o requireProjectWriteAccess \o <<"do">>)

-------------------------------------------------------------------------------
(* issue_attachments.go *)

createIssueAttachment == Door("attach to an issue",
  issueFromRoute \o requireProjectWriteAccess \o <<"input", "do", "do">>)
listIssueAttachments == Door("list an issue's attachments",
  issueFromRoute \o requireProjectAccess \o <<"input", "do">>)
getIssueAttachmentContent == Door("read an issue's attachment",
  issueAttachmentFromRoute \o <<"do">>)
deleteIssueAttachment == Door("detach from an issue",
  issueAttachmentFromRoute \o requireProjectWriteAccess \o <<"do", "do">>)

-------------------------------------------------------------------------------
(* project_attachments.go *)

createProjectAttachment == Door("attach to a project",
  projectFromRoute \o requireProjectWriteAccess \o <<"input", "do", "do">>)
listProjectAttachments == Door("list a project's attachments",
  projectFromRoute \o requireProjectAccess \o <<"input", "do">>)
getProjectAttachmentContent == Door("read a project's attachment",
  projectAttachmentFromRoute \o <<"do">>)
deleteProjectAttachment == Door("detach from a project",
  projectAttachmentFromRoute \o requireProjectWriteAccess \o <<"do", "do">>)

-------------------------------------------------------------------------------
(* sprint_attachments.go *)

createSprintAttachment == Door("attach to a sprint",
  sprintFromRoute \o requireProjectWriteAccess \o <<"input", "do", "do">>)
listSprintAttachments == Door("list a sprint's attachments",
  sprintFromRoute \o requireProjectAccess \o <<"input", "do">>)
getSprintAttachmentContent == Door("read a sprint's attachment",
  sprintAttachmentFromRoute \o <<"do">>)
deleteSprintAttachment == Door("detach from a sprint",
  sprintAttachmentFromRoute \o requireProjectWriteAccess \o <<"do", "do">>)

-------------------------------------------------------------------------------
(* project_images.go *)

replaceProjectImageFromRoute == Door("change the project image",
  projectFromRoute \o requireProjectWriteAccess \o <<"input", "do", "do">>)
removeProjectImageFromRoute == Door("remove the project image",
  projectFromRoute \o requireProjectWriteAccess \o <<"do">>)
getProjectImageContentVariant == Door("see the project image",
  projectFromRoute \o requireProjectAccess \o <<"do">>)

-------------------------------------------------------------------------------
(* profile_images.go *)

replaceProfileImageForCurrentUser == Door("change my picture",
  <<"input", "do", "do">>)
removeProfileImageForCurrentUser == Door("remove my picture", <<"do">>)
getUserProfileImageContentVariant == Door("see a picture", <<"input", "do">>)

-------------------------------------------------------------------------------
(* issue_tags.go *)

createIssueTag == Door("create a tag",
  projectFromRoute \o requireProjectWriteAccess \o <<"input", "do">>)
listIssueTags == Door("list tags",
  projectFromRoute \o requireProjectAccess \o <<"input", "do">>)
getIssueTag == Door("see a tag",
  issueTagFromRoute \o requireProjectAccess \o <<"do">>)
updateIssueTag == Door("edit a tag",
  issueTagFromRoute \o requireProjectWriteAccess \o <<"input", "do">>)
deleteIssueTag == Door("delete a tag",
  issueTagFromRoute \o requireProjectWriteAccess \o <<"do">>)
listTagsForIssue == Door("list an issue's tags",
  issueFromRoute \o requireProjectAccess \o <<"input", "do">>)
attachIssueTag == Door("tag an issue",
  issueFromRoute \o requireProjectWriteAccess \o <<"input", "thing", "do">>)
detachIssueTag == Door("untag an issue",
  issueFromRoute \o requireProjectWriteAccess \o <<"input", "thing", "do">>)

-------------------------------------------------------------------------------
(* issue_links.go *)

createIssueLink == Door("link issues",
  issueFromRoute \o requireProjectWriteAccess \o <<"input", "other", "do">>)
listIssueLinks == Door("list an issue's links",
  issueWithAccessFromRoute \o <<"reads", "input", "show">>)
getIssueLink == Door("see a link",
  issueLinkFromRoute \o requireProjectAccess \o <<"do">>)
updateIssueLink == Door("edit a link",
  issueLinkFromRoute \o requireProjectWriteAccess \o <<"input", "other", "do">>)
deleteIssueLink == Door("delete a link",
  issueLinkFromRoute \o requireProjectWriteAccess \o <<"do">>)

-------------------------------------------------------------------------------
(* github_integrations.go *)

listGitHubConnections == Door("list GitHub connections",
  projectFromRoute \o requireProjectAccess \o <<"do">>)
connectGitHubRepository == Door("connect a repository",
  projectFromRoute \o requireProjectMemberManagement \o
  <<"input", "credential", "do">>)
disconnectGitHubRepository == Door("disconnect a repository",
  projectFromRoute \o requireProjectMemberManagement \o <<"input", "do">>)
listGitHubIssueLinks == Door("list an issue's GitHub links",
  issueFromRoute \o requireProjectAccess \o <<"do">>)
createGitHubIssueLink == Door("link a GitHub item",
  issueFromRoute \o requireProjectWriteAccess \o <<"input", "do">>)
deleteGitHubIssueLink == Door("unlink a GitHub item",
  issueFromRoute \o requireProjectWriteAccess \o <<"input", "do">>)
refreshGitHubIssueLink == Door("refresh a GitHub item",
  issueFromRoute \o requireProjectWriteAccess \o <<"input", "thing", "do">>)

-------------------------------------------------------------------------------
(* github_credentials.go *)

listMyGitHubCredentials == Door("list my GitHub tokens",
  requireFirstPartyToken \o <<"do">>)
createMyGitHubCredential == Door("add a GitHub token",
  requireFirstPartyToken \o <<"input", "do">>)
updateMyGitHubCredential == Door("change a GitHub token",
  requireFirstPartyToken \o <<"input", "do">>)
deleteMyGitHubCredential == Door("delete a GitHub token",
  requireFirstPartyToken \o <<"input", "do">>)

-------------------------------------------------------------------------------
(* whiteboard.go *)

createWhiteboardPage == Door("draw a whiteboard page",
  projectFromRoute \o requireProjectWriteAccess \o <<"input", "do">>)
listWhiteboardPages == Door("list whiteboard pages",
  projectFromRoute \o requireProjectAccess \o <<"input", "do">>)
getWhiteboardPage == Door("see a whiteboard page",
  projectFromRoute \o requireProjectAccess \o whiteboardPageFromRoute \o <<"do">>)
updateWhiteboardPage == Door("edit a whiteboard page",
  projectFromRoute \o requireProjectWriteAccess \o whiteboardPageFromRoute \o
  <<"input", "do">>)
deleteWhiteboardPage == Door("delete a whiteboard page",
  projectFromRoute \o requireProjectWriteAccess \o whiteboardPageFromRoute \o
  <<"do">>)

-------------------------------------------------------------------------------
(* project_timeline.go *)

getProjectTimeline == Door("see the timeline",
  projectFromRoute \o requireProjectReadPermissions \o <<"input", "show">>)

-------------------------------------------------------------------------------
(* project_insights.go *)

getProjectInsights == Door("see insights",
  projectFromRoute \o requireProjectReadPermissions \o <<"input", "show">>)

-------------------------------------------------------------------------------
(* project_progress.go *)

getProjectProgress == Door("see progress",
  projectFromRoute \o requireProjectReadPermissions \o <<"input", "show">>)

-------------------------------------------------------------------------------
(* project_stats.go *)

getProjectStats == Door("see statistics",
  projectFromRoute \o requireProjectReadPermissions \o <<"show">>)

-------------------------------------------------------------------------------
(* project_changelog.go *)

listProjectChangelog == Door("list the changelog",
  projectFromRoute \o requireProjectReadPermissions \o <<"input", "show">>)

-------------------------------------------------------------------------------
(* users.go *)

createUser == Door("create a user",
  requireFirstPartyToken \o requireAdmin \o <<"input", "do">>)
listUsers == Door("list users",
  requireFirstPartyToken \o requireAdmin \o <<"input", "do">>)
getUser == Door("see a user",
  requireFirstPartyToken \o requireAdmin \o <<"input", "do">>)
deleteUser == Door("delete a user",
  requireFirstPartyToken \o requireAdmin \o <<"input", "do", "disconnect">>)

-------------------------------------------------------------------------------
(* auth_tokens.go *)

getMe == Door("see my account", <<"do">>)
updateMySettings == Door("change my settings",
  <<"input", "secretFirstParty", "do", "limit", "do", "do">>)
createUserToken == Door("create a user's token",
  requireFirstPartyToken \o requireAdmin \o <<"input", "do">>)
createMyToken == Door("create my token",
  requireFirstPartyToken \o <<"input", "do">>)
listUserTokens == Door("list a user's tokens",
  requireFirstPartyToken \o requireAdmin \o <<"input", "do">>)
listMyTokens == Door("list my tokens", requireFirstPartyToken \o <<"do">>)
revokeToken == Door("revoke a user's token",
  requireFirstPartyToken \o requireAdmin \o <<"input", "do">>)
revokeMyToken == Door("revoke my token",
  requireFirstPartyToken \o <<"input", "do">>)
listMyOAuthGrants == Door("list my connectors", requireFirstPartyToken \o <<"do">>)
disconnectMyOAuthGrant == Door("disconnect a connector",
  requireFirstPartyToken \o <<"input", "do">>)

-------------------------------------------------------------------------------
(* passkeys.go *)

listMyPasskeys == Door("list my passkeys", requireFirstPartyToken \o <<"do">>)
getMyPasswordLogin == Door("see password login", requireFirstPartyToken \o <<"do">>)
updateMyPasswordLogin == Door("change password login",
  requireFirstPartyToken \o <<"input", "reauth", "do">>)
createPasswordReauth == Door("prove my password",
  requireFirstPartyToken \o <<"limit", "input", "do">>)
createPasskeyReauthOptions == Door("begin proving a passkey",
  requireFirstPartyToken \o <<"limit", "do">>)
createPasskeyReauth == Door("prove a passkey",
  requireFirstPartyToken \o <<"limit", "input", "do">>)
createMyPasskeyOptions == Door("begin adding a passkey",
  requireFirstPartyToken \o <<"input", "reauth", "do">>)
createMyPasskey == Door("add a passkey",
  requireFirstPartyToken \o <<"input", "do">>)
revokeMyPasskey == Door("revoke a passkey",
  requireFirstPartyToken \o <<"input", "reauth", "do">>)

-------------------------------------------------------------------------------
RestDoorsSet == {createIssue, listReportedIssues, createSubIssue, listIssues,
    listDeletedIssues, listSubIssues, batchIssues, getIssue, updateIssue,
    deleteIssue, restoreIssue, grantProjectMember, revokeProjectMember,
    getProjectAccess, updateProjectAccess, listProjectBlocks, blockProjectUser,
    unblockProjectUser, listProjectMembers, searchAvailableProjectMembers,
    listProjectAssignees, searchProjectMembers, createComment, listComments,
    getComment, updateComment, deleteComment, createProject, listProjects,
    getProject, updateProject, updateProjectSprintMode, deleteProject,
    favoriteProject, unfavoriteProject, createSprint, listProjectSprints,
    reorderPlannedSprints, getSprint, listSprintHistoryIssues, updateSprint,
    completeSprint, deleteSprint, createProjectContext, listProjectContexts,
    getProjectContext, updateProjectContext, deleteProjectContext,
    listIssueContexts, createIssueContext, createIssueContextLinks,
    deleteIssueContextLink, createContextAttachment, listContextAttachments,
    getContextAttachmentContent, deleteContextAttachment, createStorageObject,
    listStorageObjects, getStorageObject, getStorageObjectContent,
    deleteStorageObject, createIssueAttachment, listIssueAttachments,
    getIssueAttachmentContent, deleteIssueAttachment, createProjectAttachment,
    listProjectAttachments, getProjectAttachmentContent,
    deleteProjectAttachment, createSprintAttachment, listSprintAttachments,
    getSprintAttachmentContent, deleteSprintAttachment,
    replaceProjectImageFromRoute, removeProjectImageFromRoute,
    getProjectImageContentVariant, replaceProfileImageForCurrentUser,
    removeProfileImageForCurrentUser, getUserProfileImageContentVariant,
    createIssueTag, listIssueTags, getIssueTag, updateIssueTag, deleteIssueTag,
    listTagsForIssue, attachIssueTag, detachIssueTag, createIssueLink,
    listIssueLinks, getIssueLink, updateIssueLink, deleteIssueLink,
    listGitHubConnections, connectGitHubRepository, disconnectGitHubRepository,
    listGitHubIssueLinks, createGitHubIssueLink, deleteGitHubIssueLink,
    refreshGitHubIssueLink, listMyGitHubCredentials, createMyGitHubCredential,
    updateMyGitHubCredential, deleteMyGitHubCredential, createWhiteboardPage,
    listWhiteboardPages, getWhiteboardPage, updateWhiteboardPage,
    deleteWhiteboardPage, getProjectTimeline, getProjectInsights,
    getProjectProgress, getProjectStats, listProjectChangelog, createUser,
    listUsers, getUser, deleteUser, getMe, updateMySettings, createUserToken,
    createMyToken, listUserTokens, listMyTokens, revokeToken, revokeMyToken,
    listMyOAuthGrants, disconnectMyOAuthGrant, listMyPasskeys,
    getMyPasswordLogin, updateMyPasswordLogin, createPasswordReauth,
    createPasskeyReauthOptions, createPasskeyReauth, createMyPasskeyOptions,
    createMyPasskey, revokeMyPasskey}
===============================================================================
