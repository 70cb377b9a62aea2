# Track Slash: models, checks and proofs

This directory holds TLA+ models of Track Slash: the concurrent core, the
services around it and every door into a project. TLC runs check them on small
instances, and TLAPS proofs show that the most important properties hold for any
number of requests, workers, rows and attempts. Source paths are given as in the repository, under `src/`.

Track Slash is a Go server (`cmd/trackd`) over one PostgreSQL database. Several
copies of the process may run. A copy serves the REST API, the HTML pages and the
MCP tools, and starts four background goroutines: the storage deletion worker,
the push-notification worker, the GitHub refresh worker and the realtime
listener. Processes share no memory. Everything that can go wrong between them
goes through PostgreSQL rows, row locks and triggers at READ COMMITTED, and
through outside systems that cannot take part in a transaction: the object
backend, the browsers' push services and GitHub. Inside one process, the sign-in
limiter and the realtime hub are guarded by mutexes and fed by goroutines.

## How a transaction is modelled

Nearly every store operation is `pgx.BeginFunc` around a handful of statements.
The models use one idiom for all of them.

* A statement that takes a row lock is a step, enabled when the lock is free. It
  reads what is committed at that moment, since READ COMMITTED takes a new
  snapshot per statement and re-reads a row it had to wait for.
* What the transaction writes appears at its commit, which is one step and frees
  its locks.
* An `UPDATE` or `SELECT ... FOR UPDATE` of several rows is a snapshot of the
  matching rows followed by one step per row: wait for it, lock it, and leave it
  alone when it does not match any more. New rows that match are not seen. Most
  of the hazards are there.
* A transaction that waits for one lock and then commits is a single step enabled
  when that lock is free; nobody can see it half done.
* `Rollback`, `Stop`, `Abort`, `GiveUp`, `AbandonEdit` or `Fail`, enabled at every point of a transaction or handler, is
  the failed check, the cancelled request, the deadlock PostgreSQL breaks, and
  the crash.

## Inventory

| Component | State it keeps | Operations | What is hard | What makes it correct | Here |
|---|---|---|---|---|---|
| Storage objects and deletion worker (`store/storage_object*.go`, `server/storage_objects.go`, `storage/deletion_worker.go`) | `storage_objects` rows, backend bytes, the `storage_object_deletions` queue | upload, link, clean up, delete, remove bytes, copy for a repetition, claim, delete, complete, retry, fail | bytes are outside the transaction; copies share bytes; leases expire; commit answers get lost | a live row has its bytes; bytes without a live row have a job and go in the end | modelled: `StorageObjects` |
| Storage backends (`storage/local.go`, `s3.go`) | files or S3 objects | put, open, delete | idempotent delete | delete of a missing key succeeds | put and delete in `StorageObjects` |
| Attachments and images (`store/*_attachments.go`, `*_images.go`) | link rows and pointers to objects | attach, detach, replace | link fails after the upload | the object is linked or cleaned up | link, cleanup, delete in `StorageObjects` |
| Issues (`store/issues.go`, `private_issues.go`) | the issue tree, `private`, `status`, `deleted_at` | create, sub-issue, update, delete, restore | parent and children change together, rows arrive while an `UPDATE` runs | a sub-issue is never more visible than its parent; a live one has a live parent | `Issues` |
| Repeating issues (`store/issue_repeats.go`) | `issue_repeats`, `repeat_id`, `repeat_current` | start, stop, advance | two completions at once, stop and restart | one live repetition, the newest, open | `Issues`; copies in `StorageObjects` |
| Repeat schedules (`model/repeat.go`) | a series' stored rule and start date | set, change, stop and pick up a repeat, complete a repetition | month ends, leap years, weeks begun in the middle, long absences | no date of the rule is lost but those counted as skipped | `RepeatSchedules`; of cron only 29 February |
| Issue links (`store/issue_links.go`) | link rows | create, change, delete | `duplicates` closes the source; several issue locks | no half-closed source | closing in `Issues`; the rest is left out |
| Sprints (`store/sprints.go`) | status, `planned_order`, snapshots, `issues.sprint_id`, sprint mode | create, start, complete, delete, reorder, switch mode; assign and unassign issues | completing while issues come and go; ranks with gaps | nothing unfinished is left behind; history is whole; issues only enter open sprints | `Sprints` |
| Push notifications (`store/push_notifications.go`, `notifications/`) | subscriptions, preferences, events, deliveries | register, disable, materialise, claim, prepare, send, settle | at-least-once sends, leases, browsers that change hands | nobody is left out, the right keys, an end for every row | modelled: `PushNotifications` over `LeasedQueue` |
| GitHub integration (`githubintegration/`, `store/github_*.go`) | connections, saved tokens, links with refresh leases | connect, disconnect, lend, link, refresh by worker or by hand | refresh races with disconnect and with itself; workers die with a lease | every due link is refreshed or shows its error | `GitHubLinks`; snapshots left out |
| OAuth server (`store/oauth.go`, `server/oauth_*.go`) | clients, consents, codes, refresh and access tokens | approve, exchange, rotate, replay, revoke, disconnect, disable | rotation against disconnect; two-transaction exchange | one live refresh token per family; ending a grant ends what it found | `OAuthGrants`; registration left out |
| Passkeys and password login (`store/passkeys.go`, `settings.go`, `passkeys/`) | passkeys, the password's switch, one-use tickets | prove, add, revoke, enable, disable | two removals at once; replayed proofs | an account keeps a way in; one change per proof | modelled: `SignInMethods` |
| Passwords and sessions (`store/auth.go`, `server/auth_tokens.go`) | password, sessions | sign in, change, sign out | two-transaction change; sign-ins meanwhile | a finished change leaves no older session | `Sessions`; API tokens left out |
| Sign-in rate limiter (`server/auth_rate_limit.go`) | a capped table of windows | allow, blocked | eviction when full; test and count apart | guesses are bounded; only spent keys are refused | modelled: `RateLimiter` |
| Permissions and members (`store/permissions.go`) | roles, access modes, blocks | grant, revoke, block, unblock, decide | a grant and a block at once; change while a request is under way | a blocked user is no member; nobody acts who was never entitled to | modelled: `Permissions`, used by `Doors` |
| Realtime (`realtime/`, `server/realtime_auth.go`) | per-client queues, one LISTEN connection | subscribe, publish, resync, disconnect | full queues, reconnects, access withdrawn | a client that misses events is told to refetch; one told to leave gets one more at most | `Realtime`; one topic |
| Context pages (`store/project_context.go`) | pages with positions, links to issues | create, move, delete, link, unlink | page locked before project, renumbering under a unique index | positions are 1..n at every commit, distinct at every statement | modelled: `ContextPages` |
| HTTP API, pages and MCP tools (`server/`) | none of their own | 377 handlers of a project or an account | the same checks written three times; each step reads the database anew | surfaces agree; what is hidden looks missing | `McpDoors`, `RestDoors`, `PageDoors` under `Doors` |
| Projects, comments, tags, whiteboard, help desk, changelog, favourites, recents | rows of one project or user | create, edit, delete, list | none beyond their doors | | their doors; sprint mode and the changelog trigger |
| Insights, progress, statistics, timeline | none | aggregate queries | none that is concurrent | | their doors |
| Rendering, browser code, start-up, configuration, seed | none or presentation | parse, render, wire | | | not modelled |

Interactions: requests write rows; triggers on those rows queue storage
deletions (migration 0035), push events (0038) and realtime notifications; the
workers claim what was queued, under leases, and call the backend or the push
service; completing a repeating issue copies attachments, so `Issues` and
`StorageObjects` meet in `copyRepeatAttachments`; completing a sprint and updating
an issue meet on the issue rows. The changelog row every operation appends is
what starts a push notification. Every door asks the same decision table
(`Permissions`), and changing members, blocks or the access mode disconnects the
realtime clients.

`PROJECT.json` lists the hazards with the line each bites at, and says of those no
property covers why.

## Modules

| Module | What it is |
|---|---|
| `StorageObjects` | objects, bytes, deletion queue, requests and deletion workers |
| `StorageObjectsProofs` | proofs about it |
| `Issues` | issue tree, privacy and repetitions as row-locking transactions |
| `IssuesProofs` | proofs about it |
| `Sprints` | sprints, sprint mode and the issues in sprints |
| `SprintsProofs` | proofs about it |
| `LeasedQueue` | abstract: what a leased job table promises |
| `PushNotifications` | the outbox, browsers and workers; refines `LeasedQueue` twice |
| `PushNotificationsProofs` | proofs about it |
| `OAuthGrants` | approvals, codes and token pairs of connectors |
| `SignInMethods`, `Sessions` | one account: its ways to sign in and their one-use proofs; its web sessions |
| `RateLimiter` | the table of sign-in budgets |
| `Realtime` | NOTIFY, listener, hub and client queues |
| `GitHubLinks` | connection, tokens, links and their refreshers |
| `Permissions` | the decision table, and the transactions on members, blocks and access mode |
| `DoorSteps`, `McpDoors`, `RestDoors`, `PageDoors` | every handler of the three surfaces as the steps it takes (104 MCP tools, 136 API handlers, 137 pages and forms) |
| `Doors` | what the steps mean, a request going through them, and what changes meanwhile; composes the five above |
| `ContextPages` | positions and links of context pages |
| `RepeatSchedules` | repeat rules, their dates and the plan after a completion |
| `OAuthGrantsProofs`, `RepeatSchedulesProofs` | proofs about `OAuthGrants` and `RepeatSchedules` |
| `ServicesProofs` | proofs about `SignInMethods`, `Sessions`, `RateLimiter`, `Realtime` and `GitHubLinks`, and that the run of six services has the behaviours of its parts |
| `ProjectsProofs` | proofs about `Permissions`, `Doors`, `ContextPages` and the run that joins them with `RepeatSchedules` |
| `MCStorageObjects`, `MCIssues`, `MCSprints`, `MCPushNotifications`, `MCOAuth` | constants and symmetry for the runs |
| `MCServices`, `MCProjects` | several components in one run, see below |

`MCServices` and `MCProjects` put components that share no state into one run. A
variable `part` chooses at the start which of them is under way; the others
stay as they begin. So every behaviour of each component is in the run, the state
spaces add up instead of multiplying, and no interaction is claimed.

Definitions marked "Mutant" in a module's comments are plausible mistakes: the
same operation with a guard dropped, an order swapped or a reset forgotten. They
are in no behaviour. Each property has one that breaks it in the run that checks
it, which shows that the run is able to fail.

### StorageObjects

`row`, `key`, `deletedAt` and `linked` are the columns of `storage_objects` and
the existence of an attachment link; `job` is the queue; `bytes` the keys the
backend has. A key is named after the row that uploaded it, and a copy keeps the
key of its source. `deletedAt` and `clock` are the order of the deleting
commits; only the proof of `NoBytesForgotten` looks at them.

A request goes through `PutBytes`, `InsertRow`, `LinkUpload`
(`storeUploadedObject`, `CreateIssueAttachment`), or through `InsertFails`,
`DropBytes` and `LinkFails`, `CleanupRow`, `CleanupBytes`. A deletion goes
through `BeginDelete`, one `LockRow` per row, `CommitDelete`, then a
`CheckRemoved` and `RemoveBytes` per key, which is `deleteRemovedStorageBytes`. A
copy goes through `BeginCopy` and `CommitCopy` (`copyRepeatAttachments`: FOR SHARE
SKIP LOCKED). A worker goes through `ClaimJobs`, `TakeJob`, `DeleteBytes` and one
of `CompleteJob`, `RetryJob`, `GiveUpJob`, all fenced by the attempt number as in
the `WHERE` clauses.

`Faults` names the database failures a run allows: `lostCommit`, where the server
committed and the client took it for a failure, and `cleanupStore`, where the
soft-delete in `cleanupStorageObject` fails. A transaction that fails cleanly is
allowed everywhere.

Left out: other projects' rows, since an object is only copied within its project;
the column an image pointer is in; backoff, since any pending job may come due;
the clock, since any lease may have run out. `RequeueJob` is the operator's
repair of a failed job and is marked external.

### Issues

One project; an issue is its number. A request is a record of what it asks
(`Operation`: kind, and whether to keep or change privacy, status, repeat).
`LockIssue` is `getIssueForChangelog`'s FOR UPDATE; `CheckParent` is the FOR SHARE
of a sub-issue going public; `Write` sets up the series and takes the snapshot of
the multi-row `UPDATE` (`makeSubIssuesPrivate`, or the sub-issues and parent of
a delete or restore); `LockRow` locks each of its rows; `LockProject` is the
project's counter row; the `Commit...` actions publish. Lock strengths are numbers
whose sum exceeds 4 when PostgreSQL makes them conflict, foreign-key locks
included.

Left out: titles, people, dates, estimates, tags and close reasons, which do not
influence the tree, privacy or series; the FOR UPDATE of the series row, which
adds nothing to the lock on the issue already held (the model shows the
properties hold without it); the locks foreign keys take on the project. A
schedule that has no more dates is `CommitUpdate` with a completed repetition.
`Write` takes the reads of `applyIssueRepeat` and the following statement's
snapshot as one step.

### Sprints

`status`, `rank` (`planned_order`, 0 for NULL), `snapshot`
(`sprint_issue_snapshots`), `enabled` (`projects.sprints_enabled`), and of an
issue `sprint`, `live` and `done` (done or closed). Sub-issues cannot be in a
sprint, so the issues are top-level ones. `reopened` is a history variable: the
issues reopened once their sprint was completed, or restored once its completion
had begun.

Completing has its statements apart: `BeginComplete` locks the sprint and takes
the snapshot query's rows, `RecordMember` locks and records each, `ReadNext` and
`LockNext` choose the next planned sprint, `MoveOn` moves each unfinished issue,
`CommitComplete` publishes. Starting takes the project and then the sprint.
Assigning (`UpdateIssue`) locks the issue, then the sprint FOR SHARE, then
commits. Creating, deleting and reordering sprints, the mode switch and the other
issue changes are transactions of one contended lock and are single steps.

Left out: names, goals, dates and attachments of sprints; `UpdateSprint` that
keeps the status; the membership rows of migration 0046. `LockNext` allows any
sprint the `FOR UPDATE` may return after a wait, a superset of what PostgreSQL
picks. `ReorderPlannedSprints` may succeed whether or not the shift would
collide, because a collision depends on the order rows lie on disk; `ShiftsApart`
states when it cannot.

### PushNotifications and LeasedQueue

`event` and `delivery` are the two outbox tables, `subscription` the browsers,
`listening` the users whose preferences enable the events' category, `access`
those who may read the issue. The audience of an event is a constant.
`steady[e]` is a history variable: browsers that have qualified for the event
without a break since it was queued. A worker's RunOnce is `ClaimEvents`,
`ReadRecipients` and `CreateDeliveries` (two statements of
`MaterializePushNotificationEvent`), then `ClaimDeliveries`, `CheckEnabled`,
`ReadIssue`, `CheckAccess`, `Send` and one of `SettleDelivery`, `FailDelivery`,
`DisableRejected`.

`PreparePushNotificationDelivery` reads the issue and then the rights to its
project, in two queries. If what decides who may read the issue changes between them
(`ChangeAccess`, or `ChangeGrounds` when the person may read it before and after, for
another reason), the worker goes by a mixture of old and new (`torn`), and
`CheckAccess` may turn out either way. Someone who could read the issue at every moment may so
lose a notification, for instance when they become a member and the
issue private between the two reads. `NoRecipientForgotten` exempts just that
delivery.

Time is left out: any retry may be due and any lease may have run out, so the
60-second lease against a batch of twenty 10-second sends is covered. `MaxClaims` is
a bound of the model; the code does not bound claims. The last claim within it is
not interrupted by `Stop`, otherwise a row would look stuck only because the
bound was used up.

`LeasedQueue` is the abstract specification: a job is absent, open, settled or
cancelled; at most one worker has the lease; a worker that lost it may drop
the job and nothing else; an end is final. `EventQueue` and `DeliveryQueue` map the
two tables to it. The lease is mapped to the worker whose claim carries the row's
attempt number (`HasLease`, `Leaseholder`), so the refinement is the statement that
fencing by attempt number is enough. It is checked by the run and proved.

### OAuthGrants

A grant is a client and a user; an access token and the refresh token minted
with it are one pair. `approved`, `code`, `refresh` and `access` are the rows'
states, `origin` the code a family began with, `parent` what a pair replaced.
`old` is history: the pairs there were when a request began to end a grant.

Approving is `Resolve` and `Approve`. At the token endpoint a request
authenticates its client and then takes `Consume` and `IssueTokens` (two
transactions, as in `oauth_token.go`), or `BeginRotation` and `Rotate` (one
transaction that holds the old token), or one of the replays and revocations.
Ending a grant is `BeginEnd` (the snapshot of the UPDATE), one `LockToken` per
token, and `CommitRevocation` or `CommitEnd`. `Mismatch` stands for a wrong
redirect URI or PKCE verifier. Expiry is a step that may come at any time.

Left out: registering and editing clients, scopes, hashes and metadata.

### SignInMethods and Sessions

`SignInMethods` has one account's `password` switch, its `passkey` rows and the
one-use rows (`ticket`): proofs of identity and WebAuthn ceremonies, with `spent`
those consumed or expired. A request (`visit`) proves who asks by password, or by
`BeginReauth`, `FinishReauth` and `UpdatePasskeyCredentialUsage`; it then spends
a proof (`UseProof`) and adds, enables, disables or revokes. Disabling and
revoking are two steps under `lockUserCredentials`; adding takes no lock, as in
the code. `changes` counts what each proof has backed. The WebAuthn library is the
choice of an active passkey that answers.

`Sessions` has the account's `session` rows while people sign in and change the
password: `BeginChangePassword`, `WritePassword` and `RevokeOtherSessions` are
apart, because the code has no transaction around them. `opened`, `settled` and
`keeper` are history. API tokens are left out, except that one may be the caller.

### RateLimiter

`count` and `left` are the table: what a key has spent, and what is left of its
window. `Room` is the eviction of a full table. `blocked` and the later `allow` of
a failed password are `BeginGuess` and `FailGuess`; the mutex makes each a step.
`tries` is history. Both tables of `authRateLimiter` are instances.

### Realtime

`Commit` is a trigger's NOTIFY; `Listen`, `ResyncAll` and `LoseConnection` are
`runOnce`; `Publish` and `DisconnectAll` the hub under its mutex; `Wait`,
`TakeControl`, `WriteControl` and `WriteEvent` the select statements of
`writePump`, where a channel that becomes ready after the first select may lose the
second. `missing` and `late` are history: the events a client does not know of,
and those written to it after it was told to leave. Left out: several topics,
members-only events, and the translation of a payload to topics.

A client that was authorised before its access was taken, and subscribes after
`DisconnectAll`, keeps its subscription until it reconnects. The model has that
behaviour and no property forbids it.

### GitHubLinks

One repository, one saved token. `waiting` is the queue of due links, `locked` the
lease. A worker goes through `Claim`, `BeginRefresh` and `Settle` per link;
`RefreshByHand` enters at `BeginRefresh` without a lease. `Settle` goes by the link's
id alone, as the code does, so a slow refresh settles a link somebody else
has claimed since; which snapshot a link shows is therefore left out, and the lease
is no refinement of `LeasedQueue`. Encryption, the HTTP client and the parsing of
references are left out too.

### Permissions and the doors

`Permissions` looks at a project through one person and one issue. The owner and a
site admin have the same rights and are one person, `admin`. `Rights` is
`ProjectPermissionsForUser`, `ForIssue`, `Hides` and `Follows` the methods of the
same names. Granting and blocking are two steps under FOR UPDATE; revoking and
unblocking lock no more than their own row.

A door is one handler: a name for what it does and the sequence of steps it
takes before and while it acts. The three tables list every handler of a project, an
issue or an account, read off the handler and the helpers it calls (`mcpIssue`,
`issueRouteAccess`, `uiRequireIssueAccess` and so on are operators with the
steps of those functions). `DoorSteps` explains the steps; `Doors!Answer` and
`Passed` give them meaning. A request (`request`) takes one step at a time,
each on the rows committed by then, and keeps what the handler keeps: the issue as
loaded and the rights as read. Between the steps the project may change
(`Meanwhile`): role, block, access mode, deletion, privacy, reporter.

A route to an issue is two queries and two steps: one loads the issue (`issue`,
`deletedIssue`, `issueOrDeleted`), the next (`route`) reads the caller's rights to the project
and judges the issue as it was loaded (`issueRouteAccess`,
`HidesIssue`). So do the later checks of pages that loaded the issue before
(`issueAccess`, `opens`, `replies`). The two look-ups of
`uiIssueFromRouteIncludingDeleted`, for the live issue and then the deleted one, are
one step: what either finds one look-up finds at that moment, and an issue that both
miss, because it is restored in between, is missing, an answer `Refuse` gives at any step.

What each thing that can be done requires (`Need`) is stated once, by name of the
thing and not by door. `Entitled` says that whoever gets to act had one of the
needed rights at some moment of the request.

`Guarded` is the discipline of the checks, as a predicate of a door's steps alone:
before it acts, the door takes a step that cannot let anyone pass who lacks what
the door needs. The checks are spread over handlers and helpers, and what they are
worth under change depends on the right:

* A right to the project is asked for in one query, or recalled from the query
  that read it. It was there at that moment (`Vouches`, `VouchesAfter`).
* A right to the issue is judged in two, by the issue as it was loaded and the rights
  as they are by then, so a door can be guarded only if it heeds what was loaded
  (`Judges`, `JudgesAfter`). That the caller was entitled at a moment follows as long
  as one of the two is still what it was when the other was read.

`DoorsAreGuarded` says that every door is guarded, and that without heeding what was
loaded just those are where no right to the issue is needed (`AboutTheProject`).
`RouteComesFirst` says the same of existence: no door looks at an issue before it has
loaded it and asked its route about it.
`DoorsAct`, `DoorsAreGuarded` and `RouteComesFirst` are assumptions without a free
constant: TLC decides them over the whole table on each run of `projects`, and a door
that loses its check makes one of the latter two false.

Left out: parsing, rendering, CSRF tokens, security headers and deadlines, which
refuse or present and change no project state; whose comment it is and other
rows a door looks up (`Chance`: the step passes or not).

### ContextPages

`position` is the column: 0 for a page of an issue. An editor's transaction
(`edit`) is `LockPage` (page row first), `LockProject`, `ShiftRows`, `CommitEdit`;
the statements that park, lift and place rows are the operators of those
names. `DeleteIssueContextLink` may go on to delete the issue's page in a
transaction of its own (`DeleteUnlinked`). A deadlock is `AbandonEdit`.

### RepeatSchedules

A date is the number of days since 1 January 2001. `ParseRepeatRule`, `Anchored`, `Text`
(`String`), `monthlyDate`, `FirstOnOrAfter`, `NextAfter` and `PlanAfterCompletion`
follow `model/repeat.go`; a rule is stored as text and read again on every
completion. `PlanDates` are the dates the loop of `PlanAfterCompletion` comes to, as a
function of the step. `FallsOn` is the reference, one date at a time, written from the
comments of `RepeatRule`. Cron expressions are represented by 29 February, where
the library's five-year horizon matters; time zones and summaries are left out.

The state is the series' row (`stored`) and the row of its newest repetition (`phase`,
which is "live" for `repeat_current`, `occurrence`, `skipped`). `SetRepeat` is
`applyIssueRepeat`: it starts from a date that is given, from today, or from the live
repetition's date, and keeps what the repetition has skipped, as the code does when it
reuses the series; a repeat it would give a series of its own begins the model anew.
`StopRepeat` is `stopIssueRepeat`, and `Complete` the part of `advanceIssueRepeat`
about dates; what an issue's status has to do with it, and the copy of the issue, are in
`Issues`. Three histories say what the properties compare with: the rule that was asked
for (`asked`), the completion that made the newest repetition, with the rule of that
time (`followed`), and whether the repeat was set since (`changed`).

## Runs

| Run | Instance | Question and answer |
|---|---|---|
| `storage_deletion` | 2 objects, 2 requests, 2 workers, 2 claims | With clean failures, races of uploads, deletes, copies and workers never delete a live object's bytes, never complete the last job for bytes still there, and never let two claims settle one job. |
| `storage_liveness` | 2 objects, 1 request, 2 workers of which one is set up for another bucket, batches of 2, both faults | Bytes nothing uses are removed or a failed job says so, also after lost commits. |
| `storage_cleanup` | 2 objects, 1 request, 1 worker, failing cleanup | Violation: see Findings. |
| `issue_privacy` | 3 issues, 2 transactions, operations on privacy, creation, deletion, completion | A sub-issue of a private issue is private, deleted ones too. |
| `issue_repeats` | 3 issues, 2 series, 2 transactions | One live repetition per series, newest and open; concurrent completions create one successor. |
| `issue_tree` | 3 issues, 2 transactions | Violation: see Findings. |
| `push_notifications` | 1 event, 1 browser, 2 users taking turns at it, 2 workers, 1 attempt, 2 claims (199,456 states) | Nobody is left out, keys match the recipient, both tables are leased queues, events and deliveries end. |
| `sprints` | 3 sprints, 2 issues, 2 transactions | Completed sprints keep no unfinished work and have a whole history; issues enter open sprints only; no active sprint outside sprint mode. |
| `sprint_reorder` | 4 sprints | Violation: see Findings. |
| `services` | the six service components, one at a time (529,756 states) | Token families stay linear and ending a grant ends what it found; an account keeps a way in and a proof backs one change; a finished password change ends older sessions; guesses are bounded and only spent keys refused; no client misses an event silently and one told to leave gets one more at most; due links are refreshed. |
| `oauth_forgotten` | 1 client, 1 user, 1 code, 2 pairs, 2 requests | Violation: see Findings. |
| `projects` | settings, 377 doors, pages and schedules, one at a time (737,251 states) | A blocked user is no member; nobody acts who was never entitled to; the surfaces agree; what is hidden looks missing; pages keep their order; no repetition is lost, and only a cron series ends. |

Why these bounds. Every race in question is between two actors, and the third
actor a lease needs (one that claims while another still holds) is the second
worker. Two objects are the least with a copy that shares bytes, two jobs for one key,
and each job completed because of the other row. Three issues are a parent with
two sub-issues, or a repetition and two successors; two series let a repeat be
abandoned and restarted. Three sprints are one being completed, the next, and the
one after that when the next is deleted or started meanwhile. With a single
browser two users, two workers and one retry beyond the attempts suffice for a
stale claim of a delivery whose browser has changed hands. `MaxClaims` exceeds
`MaxAttempts` or equals it where the retry itself is the last claim. The
proofs do without the bounds for everything they cover.

`services`: a rotation, its predecessor and its successor are three pairs, and
one code is enough to have a family; two requests are a rotation and whatever
races with it. Two passkeys are the last two; three tickets are a proof, the
ceremony it begins and a second proof. Three sessions are the caller's, an older
one and one opened meanwhile; two passwords let two changes race. Limit, capacity and
window are 2 with four keys, so the table is full, expires and evicts, and three
guessers exceed the limit together. Four events overflow a buffer of 2. Two links,
a batch of 1 and one crash let one link starve the other if it could; a second worker
adds states and no new order of events to one worker and one request by hand.

`projects`: two transactions on the settings; three pages and two editors, so that a
page moves across another while a third is deleted. `Rules` has one rule per
branch of the code that computes dates, and `Starts` the end of a long month, a leap day
and the eve of 2100, which is no leap year. Completions come 20 days early, on the day, a day, 16 days
and 400 days late, so that every branch of the plan is taken with
`MaxRepeatPlanSteps` 5 and `MaxRepeatSkippedDates` 2 (100000 and 10 in the code).
`MaxRepeatInterval` has the code's value.

A request at a door meets one change (`Changes = 1`); everything else about the doors is
finite, so that part of the run is exhaustive. The change may land between any two
steps, also between the load of an issue and the check of the rights to it. With two
changes `Entitled` does not hold at the doors that need a right to
the issue, of any surface: `mcpGetIssue` or `getIssue` of the HTTP API loads a public
issue of a private project; the issue is made private; the project is made public;
`issueRouteAccess` then finds that the caller may read the project and that the issue
it loaded is not private. The caller sees an issue they were at no moment
entitled to. It takes a change of the issue and one of the rights, unrelated, within one
request. The theorems say what does hold: everything with one change, for every
door; with any number of changes, the doors that need no right to the issue, and the
others as long as the rights do not change while the loaded issue is stale.

Symmetry is used only in runs without liveness. Deadlock is checked in the
issue runs that can always go on; the others turn it off because a finite set of
objects, events, sprints, tokens, tickets or moves can be used up and the
system then rests.

### Fairness

`StorageObjects!FairSpec`: each worker's `Work` is weakly fair, since
`DeletionWorker.Run` polls for ever. Requests are not fair: a handler may stop
anywhere, and `DeletedBytesGo` must hold anyhow. Crashes may recur up to the
claim bound. `PushNotifications!FairSpec`: each worker's progress is weakly fair
for the same reason. A claim of a given row is strongly fair, because the claim
queries order by `next_attempt_at` and so take the rows that have waited
longest; with weak fairness alone a worker could forever serve others. People
owe nothing. `GitHubFairness`: a worker's `Refresh` is weakly fair because
`Worker.Run` polls for ever, and so is `Lapse`, because a lease has an end in time.
A claim needs no more, since links are claimed in the order they have waited.
`EveryLinkRefreshed` is its consequence, with requests by hand and crashes unfair.

## Findings

* `storage_cleanup`: `cleanupStorageObject` deletes the bytes although its
  soft-delete failed, and the row stays live without bytes. `STORAGE.md`
  (Write And Delete Flow) says that deletes avoid live metadata pointing at
  missing bytes and that bytes are deleted only once no live row uses them.
* `issue_tree`: `RestoreIssue` of a sub-issue does not lock a live parent; a
  `DeleteIssue` of the parent may commit in between, and the restored
  sub-issue is live under a deleted parent.
* `sprint_reorder`: `ReorderPlannedSprints` moves all ranks by the number of
  planned sprints plus one under a unique index that is checked row by row.
  Deleted and started sprints leave gaps, so a moved rank can meet one still in
  place and a complete, legal list is refused with a database error.
* `oauth_forgotten`: `endOAuthGrant` revokes the tokens its statements see. A
  rotation that holds the old refresh token inserts its successor unseen, and an
  exchange that has consumed its code issues its pair afterwards, so a connector
  that was disconnected keeps a working pair. `OAUTH.md` says disconnecting
  revokes its tokens and forgets the approval. `EndsAllItFound`, which holds
  and is proved, says how far the promise is kept.

## Proofs

Proved by TLAPS for every value of the constants that satisfies the module's
named assumption (disjoint null values, bounds as natural numbers; no assumption on how many
requests, workers, objects, tokens, passkeys or sessions there are). Sprints,
context pages and parallel sign-ins are assumed finitely many, since they are
counted. `RepeatsAssumption` says what the parser's first step gives, the keys of a
rule with their types, that dates are from 2001 on, and that the limits are
natural numbers; it does not say that a rule is valid, which `SetRepeat` checks.

| Theorem | Statement |
|---|---|
| `TypeCorrect`, `IssuesTyped`, `SprintsTyped` | the type invariants |
| `BytesAreKept` | without the two database faults, a live object's bytes are never deleted |
| `BytesAreNotForgotten` | with any faults, bytes whose rows are all deleted have a job |
| `SubIssuesAreHidden` | a sub-issue of a private issue is private |
| `LiveRepetitionIsTheOne`, `SeriesGrowsByCompletion` | one live repetition, and how a series grows |
| `ActiveOnlyInSprintMode`, `NoWorkLeftBehind`, `HistoryIsRecorded`, `OnlyOpenSprintsGain` | the properties of the run `sprints` |
| `FamiliesStayLinear`, `EndingEndsAllItFound` | one live refresh token per family; ending a grant ends what it found |
| `SignInTyped`, `NeverLockedOut`, `ProofBacksOneChange` | types; an account keeps a way in; one change per proof of identity |
| `ChangeSignsOut` | a finished password change leaves no older session but its own |
| `LimiterStaysTyped`, `GuessesStayBounded`, `OnlySpentKeysRefused` | types and capacity; guesses per window; who is refused |
| `BlockedAreNeverMembers` | a blocked user has no role |
| `PagesStayTyped` | no link outlives its page, and a page of an issue is linked to one issue at most |
| `PagesKeepOrder` | positions are 1..n, and distinct after every statement |
| `FirstDateIsFound` | but for cron, `FirstOnOrAfter` always finds a date, and it is the first on or after the given one that falls on the rule |
| `PlanIsSound` | a plan skips the passed dates of the rule, all and in order, and stops at the first that has not passed |
| `StoredAndRead` | a rule with its start filled in is stored as a valid text and read back as it was |
| `RepetitionsAreNeverLost` | for every rule, start date and delay, early or late, however often the repeat is changed, stopped and picked up: types of a series; its repetitions fall on the rule asked for, none is lost uncounted, and only a cron series ends |
| `DoorsStayTyped` | types of a request at a door, which always has an acting step ahead |
| `RightsToTheProjectHold` | with any number of changes, a door that needs no right to the issue acts for nobody who was never entitled to it |
| `RightsToTheIssueHold` | with any number of changes no door does, unless the caller's rights change while the issue that was loaded is no longer as it was |
| `OneChangeIsHarmless` | with one change between any two steps no door does |
| `HiddenLooksMissing` | at every door an issue hidden from its caller gets the answer a missing issue gets, whatever the state of the project |
| `ProjectsStayTyped`, `ProjectsKeepTheirInvariants` | in the run `projects`: types; blocked users have no role, hidden issues look missing, pages keep their order, no repetition is lost |
| `LeasesExclude` | no two workers can settle the same deletion job |
| `PushTyped`, `KeysAreTheRecipients`, `EveryRecipientServed` | types; whose keys a message goes out under; nobody a change concerns is left out |
| `EventsImplementLeasedQueue`, `DeliveriesImplementLeasedQueue` | both outbox tables implement `LeasedQueue` |
| `EndedStaysEnded` | an event or delivery that has ended is changed by no step |
| `RealtimeStaysTyped`, `NothingMissedSilently`, `LeavesAfterOneEvent` | types; what a client lacks is on its way or it will refetch; one event at most after being told to leave |
| `GitHubStaysTyped` | types, and no link waits twice |
| `ServicesAreComponents` | a behaviour of the run `services` is one of each component's specification |
| `ServicesStayTyped`, `ServicesKeepTheirInvariants` | so the run has all their invariants |

None of the properties is inductive. What was added, and why:

* `BaseInv` of `StorageObjects`: keys come from rows that exist, FOR UPDATE
  excludes other locks and keeps its row live, two handlers never hold the same
  new object, workers hold jobs of deleted rows. `BytesInv` adds that whoever is
  about to delete bytes does so when no live row has the key: from a check on, this
  stays true because a copy needs a live source and its lock, and a new upload
  takes an unused key.
* `LeaseInv`: a claim's attempt number is at most its job's, and no two workers
  hold the same claim, since a new claim is given a higher number than any before.
* `CoverInv`: a job may be completed as "kept" because another row is live at that
  time, and that row may be deleted later. The invariant says that a deleted row
  without a job is covered by a row with the same key that is live, or that was
  deleted after it and still has a job. The order is what excludes two rows
  whose jobs were each dropped for the other's sake.
* `PrivacyInv`: while an issue is going private, each of its public sub-issues is
  locked or waits to be; while a sub-issue is going public its parent is held FOR
  SHARE and is not private. With `LocksInv` the two cannot overlap, and a
  new sub-issue needs its parent FOR UPDATE.
* `RepeatInv`: the series a transaction has chosen continues from its own issue,
  which is the newest of it and locked, or is nobody else's.
* `SprintInv`: `Excluded` (a sprint being completed is held exclusively, one being
  assigned to is shared), `TargetsOpen` (the sprints transactions hold are still
  open), `StartsInMode` (a start holds the project in sprint mode),
  `UnfinishedFound` and `MembersFound` (what is in a sprint being completed is
  found already, still to be locked, or was restored once the completion had begun).
* `OAuthInv`: `ExchangedOnce` (an exchange is the only one of its code and nothing
  was issued for it yet, which is why two transactions are safe here),
  `LocksExclude` (a rotation holds the live token it replaces), and
  `FoundStaysFound` (what a request that ends grants found is dead, locked by it,
  or still to be looked at).
* `WayInInv`: whoever is turning the password off leaves an active passkey, and
  whoever is revoking a passkey leaves another or a password to turn on;
  `OneLocks` makes the two exclude each other. Passkeys added without the lock
  only help.
* `ProofInv`: a spent proof is in one request, or in one pending ceremony, or
  has been counted, and never in two of these.
* `SessionsInv`: no request wrote a password newer than the one there is, so a
  change that ends late cannot undo the effect of a newer one.
* `LimiterInv`: a live entry counts what was tried up to the limit, the table
  forgets a key only together with its window, and the sign-ins in flight for a
  username are budgeted before they fail (`FlightsBounded`).
* `SettingsInv`: one transaction at a time holds the project, and whoever is being
  granted a role is not blocked.
* `PagesInv`: the page an editor locked is where it was read (`PageHeld`), one
  editor holds the project (`ProjectHeld`), and the rows it has locked are still
  all those between the two positions (`RowsBetween`).
* `LinksInv`: links are to pages that exist, and those to a page of an issue are all
  the same issue's. It needs `PagesInv`: renumbering moves a page of the project
  among positions above zero, so no page with links comes to be an issue's.
* `RepeatsInv`: once there is a series its stored text is that of the rule asked for,
  and this rule is filled in (`Filled`); a change of the repeat leaves what the newest
  repetition skipped true of the completion that made it (`followed`). The rest is about the calendar. Years and months tile the days
  (`MonthOfDate`), a monthly or yearly rule has one date in a month or year
  (`MonthlyDateFalls`, `YearlyDateFalls`), and the candidates of `FirstOnOrAfter`
  are all dates of the rule up to any of them, so that the least is the first
  (`FirstIsFirst`). That there is a least, as well as every step from one date of a
  plan to the next, rests on the library's theorem that the natural numbers are
  well founded, in place of induction. A plan walks through the dates of the rule
  one by one (`PlanWalks`), what it skipped is those before the one it stops at
  (`PlanIsSound`), every rule but a cron expression has a date within its interval
  (`FirstDateIsFound`, `PlanGoesOn`), and what is stored is read back as it was
  (`StoredAndRead`).
* `DoorsInv`: while a request has not had a right it needs, some step ahead of it,
  before any that acts, cannot let it pass (`Barred`): one that asks for the right or
  judges it, or one that recalls what an earlier step remembered and this one either is still
  to take or took when the caller had none. At a guarded door it begins so, a
  change can only add to what the request has had, and a step that passes
  leaves the barring step ahead. For a right to the issue it is needed as well that
  no one has the right by the issue as loaded and the rights as they are now
  who has not had it: a change of the issue leaves the rights, and one
  of the rights leaves the issue, which with a single change, or with rights that
  stay while the loaded issue is stale, is the issue that was loaded.
* `HiddenIsMissing` compares two requests, with the issue and without it. Both take
  the same steps and remember the same rights until they come to a step that looks
  for the issue (`OnwardAlike`), and there both get the same answer (`RouteHides`);
  by `RouteComesFirst` none looks at it earlier. A walk of such steps exists and is
  the only one (`StepByStep`, `OneWalk`), so the two end alike.
* `PushInv`: what a worker holds is of its batch and goes to its recipient
  (`Holding`); one worker materialises an event, whose row it has locked
  (`OneMaterialises`); deliveries appear with the end of their event
  (`MadeAtTheEnd`). A browser that is steady since the change is therefore among
  those found, gets its delivery, and is turned away by no check
  (`SteadyRecipients`, `SteadyFound`, `SteadyServed`, `NoneTurnedAway`): a read that is
  torn is of a browser that is steady no more.
* `LeaseInv` of `PushNotificationsProofs` adds, for events and for deliveries,
  `NumberFences`: a claim carries a number no higher than its row's attempts, and
  no two workers hold the same one. The tables differ only in what ends a row,
  so the argument is made once about any table of claims (`Takes`, `Returns`,
  `CallsOff`, `Adds`, `DropsAll`: what a worker's step does to it, each with what
  it does to the fence and to the leaseholder) and then applied to both.
* `RealtimeInv`: an event a subscribed client does not know of is in the feed, in
  its queue or in the hands of its pump, or a resync is pending (`NoSilentGap`,
  which a step keeps once the queues are typed); a pump writes one event at most between two looks at
  the control slot (`LeavesAfterOne`).
* `GitHubInv`: the links that wait do so once each, so a claim takes different links and
  a removal removes them.

The proof that a step keeps an invariant has one step per action; the theorem
joins initial state, step and implication with the temporal prover.

The theorems are about each component's own specification. In `services` and
`projects` a component's steps are exactly those of its specification, and it
begins in one of its initial states; for `services` that is a theorem.

Only model-checked: `SameChecks`; all liveness, since liveness under fairness and
`ENABLED` are beyond the prover.

## Not modelled

The table above and `PROJECT.json` give the reason for each component. In short:

* rendering, parsing, configuration, start-up, seed data and the browser code
  change no state the properties are about;
* aggregate queries (insights, statistics, timeline) only read; their doors are
  modelled;
* comments, tags, whiteboard pages, favourites and recents are rows written by
  one-statement transactions; their doors are modelled, and an update of two
  editors is last-writer-wins;
* `UpdateIssueLink`: its lock order may deadlock with others, which PostgreSQL
  breaks; the outcome is the `Rollback` the issue module has already;
* a client's authorisation for several realtime topics, members-only events, and
  the snapshots GitHub links show;
* cron expressions other than 29 February, and time zones;
* registration of OAuth clients and API tokens of people, created and ended by
  single statements.

PostgreSQL itself is trusted: its row locks, its READ COMMITTED snapshots, its
unique indexes and its deadlock detection are how the models define steps, and are
marked external in the map.

## Plan

Built, in this order: storage, where data can be lost; issues and repetitions,
which share its copies; push notifications; sprints; OAuth grants; sign-in
methods, sessions and the limiter; realtime; GitHub links; permissions and all
doors; context pages; repeat schedules. Proved: the safety of all of these.

What is left to prove is no safety property with a constant in it: `SameChecks`
compares the fixed tables of doors with each other, entry by entry, in the finitely
many states of a project, all of which the run visits.

What would be left to model: two realtime topics with members-only events.
