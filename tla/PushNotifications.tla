-------------------------- MODULE PushNotifications --------------------------
(* Browser push notifications: the outbox of changelog events, the deliveries  *)
(* made of them, and the workers of every server process that turn events into *)
(* deliveries and send those (internal/notifications/worker.go and             *)
(* internal/store/push_notifications.go), while people register and drop       *)
(* browsers, change preferences and gain and lose access to issues.            *)
(*                                                                             *)
(* A row is claimed for a lease; claiming counts an attempt, and the attempt   *)
(* number fences off a worker whose lease has run out.  Time is left out: any  *)
(* lease may have run out, and any retry may have come due.                    *)
EXTENDS Integers, FiniteSets

CONSTANTS
    Event,          \* changelog entries that enqueue an event
    Subscription,   \* browser endpoints
    User,
    NoUser,
    Worker,
    NoWorker,
    NoClaim,
    Audience,       \* the people an event concerns, its actor left out
    BatchSize,
    MaxAttempts,
    MaxClaims       \* bound: claims of one row (the code has none)

Delivery == Event \X Subscription

ASSUME PushAssumption ==
    /\ NoUser \notin User /\ NoWorker \notin Worker
    /\ Audience \in [Event -> SUBSET User]
    /\ BatchSize \in Nat \ {0} /\ MaxAttempts \in Nat \ {0} /\ MaxClaims \in Nat
    /\ MaxClaims >= MaxAttempts

VARIABLES
    event,          \* push_notification_events
    delivery,       \* push_notification_deliveries, by their unique key
    subscription,   \* push_subscriptions
    listening,      \* users whose preferences enable a category of the events
    access,         \* users who may read the issue
    steady,         \* history: browsers an event has to reach
    pc,             \* what each worker does next
    batch,          \* the claims it has not finished
    current,        \* the claim it works on
    found,          \* the owner of each browser it makes a delivery for
    outcome         \* what came of the send

people == <<subscription, listening, access, steady>>
rows == <<event, delivery>>
workers == <<pc, batch, current, found, outcome>>
vars == <<rows, people, workers>>

Attempt == 0..MaxClaims
EventRow == [state : {"none", "pending", "processed", "dropped", "failed"},
             attempts : Attempt, locked : BOOLEAN]
DeliveryRow == [state : {"pending", "delivered", "suppressed", "failed"}, user : User,
                attempts : Attempt, locked : BOOLEAN]
EventClaim == [job : Event, attempt : Attempt, to : {NoUser}]
DeliveryClaim == [job : Delivery, attempt : Attempt, to : User]

NoEvent == [state |-> "none", attempts |-> 0, locked |-> FALSE]
NoDelivery == [state |-> "none", user |-> NoUser, attempts |-> 0, locked |-> FALSE]

Init ==
    /\ event = [e \in Event |-> NoEvent]
    /\ delivery = [d \in Delivery |-> NoDelivery]
    /\ subscription = [s \in Subscription |-> [user |-> NoUser, enabled |-> FALSE]]
    /\ listening = User
    /\ access = User
    /\ steady = [e \in Event |-> {}]
    /\ pc = [w \in Worker |-> "idle"]
    /\ batch = [w \in Worker |-> {}]
    /\ current = [w \in Worker |-> NoClaim]
    /\ found = [w \in Worker |-> [s \in Subscription |-> NoUser]]
    /\ outcome = [w \in Worker |-> "none"]

Goto(w, label) == pc' = [pc EXCEPT ![w] = label]

-------------------------------------------------------------------------------
(* Changes to issues, browsers, preferences and access *)

\* An enabled browser of someone the event concerns and who wants to hear of it.
Recipient(e, s) ==
    /\ subscription[s].enabled
    /\ subscription[s].user \in Audience[e] \cap listening

\* The trigger on the changelog enqueues an event.
AddEvent(e) ==
    /\ event[e].state = "none"
    /\ event' = [event EXCEPT ![e].state = "pending"]
    /\ steady' = [steady EXCEPT ![e] =
                    {s \in Subscription : Recipient(e, s) /\ subscription[s].user \in access}]
    /\ UNCHANGED <<delivery, subscription, listening, access, workers>>

Unsteady(S) == steady' = [e \in Event |-> steady[e] \ S]

\* Whatever was still to be sent to a browser is called off.
SuppressPending(s) ==
    delivery' = [d \in Delivery |->
        IF d[2] = s /\ delivery[d].state = "pending"
        THEN [delivery[d] EXCEPT !.state = "suppressed", !.locked = FALSE] ELSE delivery[d]]

\* UpsertPushSubscription: an endpoint belongs to whoever registered it last.
Register(u, s) ==
    /\ subscription' = [subscription EXCEPT ![s] = [user |-> u, enabled |-> TRUE]]
    /\ SuppressPending(s)
    /\ Unsteady({s})
    /\ UNCHANGED <<event, listening, access, workers>>

\* DisablePushSubscription
Unregister(s) ==
    /\ subscription[s].user # NoUser
    /\ subscription' = [subscription EXCEPT ![s].enabled = FALSE]
    /\ SuppressPending(s)
    /\ Unsteady({s})
    /\ UNCHANGED <<event, listening, access, workers>>

BrowsersOf(u) == {s \in Subscription : subscription[s].user = u}

\* UpdatePushNotificationPreferences turns the events' categories on or off.
ChangePreferences(u) ==
    /\ \/ u \in listening /\ listening' = listening \ {u} /\ Unsteady(BrowsersOf(u))
       \/ u \notin listening /\ listening' = listening \cup {u} /\ UNCHANGED steady
    /\ UNCHANGED <<rows, subscription, access, workers>>

\* The workers that have read the issue and not yet the rights of a recipient u to it.
ReadingFor(u) == {w \in Worker : pc[w] = "rights" /\ delivery[current[w].job].user = u}
Tear(u) == pc' = [w \in Worker |-> IF w \in ReadingFor(u) THEN "torn" ELSE pc[w]]

\* A membership, a project or an issue changes who may read the issue.
ChangeAccess(u) ==
    /\ \/ u \in access /\ access' = access \ {u} /\ Unsteady(BrowsersOf(u))
       \/ u \notin access /\ access' = access \cup {u} /\ UNCHANGED steady
    /\ Tear(u)
    /\ UNCHANGED <<rows, subscription, listening, batch, current, found, outcome>>

\* They change and u may read it on other grounds than before, say as a member what was
\* open to all, while a worker is between the two reads.
ChangeGrounds(u) ==
    /\ u \in access /\ ReadingFor(u) # {}
    /\ Tear(u)
    /\ steady' = [e \in Event |->
         steady[e] \ {s \in Subscription : \E w \in ReadingFor(u) : current[w].job = <<e, s>>}]
    /\ UNCHANGED <<rows, subscription, listening, access, batch, current, found, outcome>>

-------------------------------------------------------------------------------
(* Events become deliveries *)

\* Mutant: a lease that ran out is not claimed again.
ClaimableUnlocked(r) == r.state = "pending" /\ r.attempts < MaxClaims /\ ~r.locked

Claimable(r) == r.state = "pending" /\ r.attempts < MaxClaims
Claimed(r) == [r EXCEPT !.attempts = @ + 1, !.locked = TRUE]
\* Mutant: the attempt number is not asked for.
FencedByState(r, c) == r.state = "pending"

Fenced(r, c) == r.state = "pending" /\ r.attempts = c.attempt

\* MaterializePushNotificationEvent holds the row it works on FOR UPDATE.
RowLocked(e) == \E w \in Worker : pc[w] = "insert" /\ current[w].job = e

\* ClaimPushNotificationEvents, passing over locked rows (SKIP LOCKED).
ClaimEvents(w, E) ==
    /\ pc[w] = "idle" /\ Cardinality(E) <= BatchSize
    /\ \A e \in E : Claimable(event[e]) /\ ~RowLocked(e)
    /\ event' = [e \in Event |-> IF e \in E THEN Claimed(event[e]) ELSE event[e]]
    /\ batch' = [batch EXCEPT ![w] =
                   {[job |-> e, attempt |-> event[e].attempts + 1, to |-> NoUser] : e \in E}]
    /\ Goto(w, "events")
    /\ UNCHANGED <<delivery, people, current, found, outcome>>

\* Mutant: the event is marked processed before its deliveries are made, not
\* with them.
ReadRecipientsEarlyEnd(w, c) ==
    /\ pc[w] = "events" /\ c \in batch[w]
    /\ Fenced(event[c.job], c) /\ event[c.job].locked /\ ~RowLocked(c.job)
    /\ current' = [current EXCEPT ![w] = c]
    /\ found' = [found EXCEPT ![w] = [s \in Subscription |->
                   IF Recipient(c.job, s) THEN subscription[s].user ELSE NoUser]]
    /\ event' = [event EXCEPT ![c.job].state = "processed"]
    /\ Goto(w, "insert")
    /\ UNCHANGED <<delivery, people, batch, outcome>>

\* The transaction locks the event, if the claim still holds, and reads whom it
\* concerns and which browsers those people have.
ReadRecipients(w, c) ==
    /\ pc[w] = "events" /\ c \in batch[w]
    /\ Fenced(event[c.job], c) /\ event[c.job].locked /\ ~RowLocked(c.job)
    /\ current' = [current EXCEPT ![w] = c]
    /\ found' = [found EXCEPT ![w] = [s \in Subscription |->
                   IF Recipient(c.job, s) THEN subscription[s].user ELSE NoUser]]
    /\ Goto(w, "insert")
    /\ UNCHANGED <<rows, people, batch, outcome>>

EndEvent(w, c) ==
    /\ Goto(w, "events")
    /\ batch' = [batch EXCEPT ![w] = @ \ {c}]
    /\ current' = [current EXCEPT ![w] = NoClaim]
    /\ found' = [found EXCEPT ![w] = [s \in Subscription |-> NoUser]]
    /\ UNCHANGED outcome

\* Mutant: browsers that are not concerned get a delivery as well.
CreateDeliveriesForAll(w) ==
    LET e == current[w].job IN
    /\ pc[w] = "insert"
    /\ delivery' = [d \in Delivery |->
         IF d[1] = e /\ delivery[d].state = "none"
         THEN [state |-> "pending", user |-> found[w][d[2]], attempts |-> 0, locked |-> FALSE]
         ELSE delivery[d]]
    /\ event' = [event EXCEPT ![e].state = "processed", ![e].locked = FALSE]
    /\ EndEvent(w, current[w])
    /\ UNCHANGED people

\* It commits one delivery for each browser, unless there is one already, and
\* the end of the event.
CreateDeliveries(w) ==
    LET e == current[w].job IN
    /\ pc[w] = "insert"
    /\ delivery' = [d \in Delivery |->
         IF d[1] = e /\ found[w][d[2]] # NoUser /\ delivery[d].state = "none"
         THEN [state |-> "pending", user |-> found[w][d[2]], attempts |-> 0, locked |-> FALSE]
         ELSE delivery[d]]
    /\ event' = [event EXCEPT ![e].state = "processed", ![e].locked = FALSE]
    /\ EndEvent(w, current[w])
    /\ UNCHANGED <<people>>

\* The event is a day old, or its issue is gone.
DropEvent(w, c) ==
    /\ pc[w] = "events" /\ c \in batch[w]
    /\ Fenced(event[c.job], c) /\ event[c.job].locked /\ ~RowLocked(c.job)
    /\ event' = [event EXCEPT ![c.job].state = "dropped", ![c.job].locked = FALSE]
    /\ EndEvent(w, c)
    /\ UNCHANGED <<delivery, people>>

AfterFailure(r, c) ==
    IF ~Fenced(r, c) THEN r
    ELSE [r EXCEPT !.locked = FALSE, !.state = IF c.attempt >= MaxAttempts THEN "failed" ELSE "pending"]

\* The transaction failed and rolled back, or the claim no longer held.
FailEvent(w, c) ==
    /\ \/ pc[w] = "events" /\ c \in batch[w] /\ ~RowLocked(c.job)
       \/ pc[w] = "insert" /\ c = current[w]
    /\ event' = [event EXCEPT ![c.job] = AfterFailure(@, c)]
    /\ EndEvent(w, c)
    /\ UNCHANGED <<delivery, people>>

-------------------------------------------------------------------------------
(* Deliveries are sent *)

Owned(d) == subscription[d[2]].enabled /\ subscription[d[2]].user = delivery[d].user

\* Mutant: the browser's owner is not compared with the recipient.
ClaimDeliveriesOfAnyone(w, D) ==
    /\ pc[w] = "events" /\ batch[w] = {} /\ Cardinality(D) <= BatchSize
    /\ \A d \in D : Claimable(delivery[d]) /\ subscription[d[2]].enabled
    /\ delivery' = [d \in Delivery |-> IF d \in D THEN Claimed(delivery[d]) ELSE delivery[d]]
    /\ batch' = [batch EXCEPT ![w] =
                   {[job |-> d, attempt |-> delivery[d].attempts + 1,
                     to |-> subscription[d[2]].user] : d \in D}]
    /\ Goto(w, "deliveries")
    /\ UNCHANGED <<event, people, current, found, outcome>>

\* Mutant: no claims beyond the attempts at which a failure is final.
ClaimDeliveriesToTheLimit(w, D) ==
    /\ pc[w] = "events" /\ batch[w] = {} /\ Cardinality(D) <= BatchSize
    /\ \A d \in D : Claimable(delivery[d]) /\ delivery[d].attempts < MaxAttempts /\ Owned(d)
    /\ delivery' = [d \in Delivery |-> IF d \in D THEN Claimed(delivery[d]) ELSE delivery[d]]
    /\ batch' = [batch EXCEPT ![w] =
                   {[job |-> d, attempt |-> delivery[d].attempts + 1,
                     to |-> subscription[d[2]].user] : d \in D}]
    /\ Goto(w, "deliveries")
    /\ UNCHANGED <<event, people, current, found, outcome>>

\* ClaimPushNotificationDeliveries, which also reads the keys to send with.
ClaimDeliveries(w, D) ==
    /\ pc[w] = "events" /\ batch[w] = {} /\ Cardinality(D) <= BatchSize
    /\ \A d \in D : Claimable(delivery[d]) /\ Owned(d)
    /\ delivery' = [d \in Delivery |-> IF d \in D THEN Claimed(delivery[d]) ELSE delivery[d]]
    /\ batch' = [batch EXCEPT ![w] =
                   {[job |-> d, attempt |-> delivery[d].attempts + 1,
                     to |-> subscription[d[2]].user] : d \in D}]
    /\ Goto(w, "deliveries")
    /\ UNCHANGED <<event, people, current, found, outcome>>

Finish(w, result) ==
    /\ outcome' = [outcome EXCEPT ![w] = result]
    /\ Goto(w, "settle")

\* PreparePushNotificationDelivery reads the browser and the preferences first.
CheckEnabled(w, c) ==
    /\ pc[w] = "deliveries" /\ c \in batch[w]
    /\ current' = [current EXCEPT ![w] = c]
    /\ IF Owned(c.job) /\ delivery[c.job].user \in listening
       THEN Goto(w, "access") /\ UNCHANGED outcome
       ELSE Finish(w, "unauthorized")
    /\ UNCHANGED <<rows, people, batch, found>>

\* Then the issue, and after it the recipient's rights to its project, by which it judges
\* the issue as it was read: either way, if they changed between the two reads.
ReadIssue(w) ==
    /\ pc[w] = "access"
    /\ Goto(w, "rights")
    /\ UNCHANGED <<rows, people, batch, current, found, outcome>>

CheckAccess(w) ==
    /\ pc[w] \in {"rights", "torn"}
    /\ \/ /\ pc[w] = "torn" \/ delivery[current[w].job].user \in access
          /\ Goto(w, "send") /\ UNCHANGED outcome
       \/ /\ pc[w] = "torn" \/ delivery[current[w].job].user \notin access
          /\ Finish(w, "unauthorized")
    /\ UNCHANGED <<rows, people, batch, current, found>>

PrepareFails(w) ==
    /\ pc[w] \in {"access", "rights", "torn"}
    /\ Finish(w, "error")
    /\ UNCHANGED <<rows, people, batch, current, found>>

\* The provider takes the message, knows no such browser, refuses it for good,
\* or cannot be reached or asks to come back.
Send(w, result) ==
    /\ pc[w] = "send"
    /\ result \in {"accepted", "rejected", "refused", "error"}
    /\ Finish(w, result)
    /\ UNCHANGED <<rows, people, batch, current, found>>

EndDelivery(w) ==
    /\ Goto(w, "deliveries")
    /\ batch' = [batch EXCEPT ![w] = @ \ {current[w]}]
    /\ current' = [current EXCEPT ![w] = NoClaim]
    /\ outcome' = [outcome EXCEPT ![w] = "none"]
    /\ UNCHANGED found

\* Mutant: how it ended is recorded under any lease.
SettledUnfenced(r, c, state) ==
    IF r.state = "pending" THEN [r EXCEPT !.state = state, !.locked = FALSE] ELSE r

Settled(r, c, state) == IF Fenced(r, c) THEN [r EXCEPT !.state = state, !.locked = FALSE] ELSE r

\* Complete, Suppress and FailPushNotificationDelivery record how it ended.
SettleDelivery(w) ==
    /\ pc[w] = "settle" /\ outcome[w] \in {"accepted", "unauthorized", "refused"}
    /\ delivery' = [delivery EXCEPT ![current[w].job] = Settled(@, current[w],
                     CASE outcome[w] = "accepted" -> "delivered"
                       [] outcome[w] = "unauthorized" -> "suppressed"
                       [] OTHER -> "failed")]
    /\ EndDelivery(w)
    /\ UNCHANGED <<event, people>>

\* failDelivery: try again later, or give up.
FailDelivery(w) ==
    /\ pc[w] = "settle" /\ outcome[w] = "error"
    /\ delivery' = [delivery EXCEPT ![current[w].job] = AfterFailure(@, current[w])]
    /\ EndDelivery(w)
    /\ UNCHANGED <<event, people>>

\* DisableRejectedPushSubscription asks neither whether the claim still holds
\* nor whether the browser has been registered anew.
DisableRejected(w) ==
    LET s == current[w].job[2] IN
    /\ pc[w] = "settle" /\ outcome[w] = "rejected"
    /\ subscription' = [subscription EXCEPT ![s].enabled = FALSE]
    /\ SuppressPending(s)
    /\ Unsteady({s})
    /\ EndDelivery(w)
    /\ UNCHANGED <<event, listening, access>>

EndRun(w) ==
    /\ pc[w] = "deliveries" /\ batch[w] = {}
    /\ Goto(w, "idle")
    /\ UNCHANGED <<rows, people, batch, current, found, outcome>>

\* A store error ends RunOnce, or the process dies: what was claimed stays
\* leased.  A row's last claim within the bound is not interrupted.
Stop(w) ==
    /\ pc[w] # "idle"
    /\ \A c \in batch[w] : c.attempt < MaxClaims
    /\ Goto(w, "idle")
    /\ batch' = [batch EXCEPT ![w] = {}]
    /\ current' = [current EXCEPT ![w] = NoClaim]
    /\ found' = [found EXCEPT ![w] = [s \in Subscription |-> NoUser]]
    /\ outcome' = [outcome EXCEPT ![w] = "none"]
    /\ UNCHANGED <<rows, people>>

-------------------------------------------------------------------------------
Change ==
    \/ \E e \in Event : AddEvent(e)
    \/ \E u \in User, s \in Subscription : Register(u, s)
    \/ \E s \in Subscription : Unregister(s)
    \/ \E u \in User : ChangePreferences(u) \/ ChangeAccess(u) \/ ChangeGrounds(u)

Progress(w) ==
    \/ \E c \in batch[w] : ReadRecipients(w, c) \/ DropEvent(w, c) \/ FailEvent(w, c) \/ CheckEnabled(w, c)
    \/ CreateDeliveries(w)
    \/ ReadIssue(w) \/ CheckAccess(w) \/ PrepareFails(w)
    \/ \E result \in {"accepted", "rejected", "refused", "error"} : Send(w, result)
    \/ SettleDelivery(w) \/ FailDelivery(w) \/ DisableRejected(w) \/ EndRun(w)

Claim(w) ==
    \/ \E E \in SUBSET Event : ClaimEvents(w, E)
    \/ \E D \in SUBSET Delivery : ClaimDeliveries(w, D)

Next == Change \/ \E w \in Worker : Progress(w) \/ Claim(w) \/ Stop(w)

Spec == Init /\ [][Next]_vars

\* Workers keep polling, and a row due for a claim gets one: claims take the
\* oldest rows first.
FairSpec ==
    /\ Spec
    /\ \A w \in Worker : WF_vars(Progress(w) \/ Claim(w))
    /\ \A e \in Event : SF_vars(\E w \in Worker, E \in SUBSET Event : e \in E /\ ClaimEvents(w, E))
    /\ \A d \in Delivery :
         SF_vars(\E w \in Worker, D \in SUBSET Delivery : d \in D /\ ClaimDeliveries(w, D))

-------------------------------------------------------------------------------
(* Properties *)

TypeOK ==
    /\ event \in [Event -> EventRow]
    /\ delivery \in [Delivery -> DeliveryRow \cup {NoDelivery}]
    /\ subscription \in [Subscription -> [user : User \cup {NoUser}, enabled : BOOLEAN]]
    /\ listening \subseteq User /\ access \subseteq User
    /\ steady \in [Event -> SUBSET Subscription]
    /\ pc \in [Worker -> {"idle", "events", "insert", "deliveries", "access", "rights", "torn",
                       "send", "settle"}]
    /\ batch \in [Worker -> SUBSET (EventClaim \cup DeliveryClaim)]
    /\ current \in [Worker -> EventClaim \cup DeliveryClaim \cup {NoClaim}]
    /\ found \in [Worker -> [Subscription -> User \cup {NoUser}]]
    /\ outcome \in [Worker -> {"none", "accepted", "rejected", "refused", "error", "unauthorized"}]

\* A message goes out under the keys of the person the delivery was made for,
\* however often the browser changed hands since its event.
KeysMatchUser ==
    \A w \in Worker : pc[w] = "send" => current[w].to = delivery[current[w].job].user

\* Once an event is processed, every browser that was enabled, wanted it and
\* could read it from the change on has a delivery nobody called off, whichever
\* workers claimed the event and however often they failed; unless the grounds on
\* which its owner reads the issue change while a worker reads them.
NoRecipientForgotten ==
    \A e \in Event : event[e].state = "processed" =>
        \A s \in steady[e] : delivery[<<e, s>>].state \in {"pending", "delivered", "failed"}

\* Every event ends: processed, dropped or failed.
EventsSettle == \A e \in Event : event[e].state = "pending" ~> event[e].state # "pending"

\* Every delivery ends, unless its browser is not its recipient's any more.
DeliveriesSettle ==
    \A d \in Delivery : delivery[d].state = "pending" ~> (delivery[d].state # "pending" \/ ~Owned(d))

\* The events and the deliveries are leased queues: only the worker with the
\* last claim retries or settles a row, whoever else still works on it, and an
\* end is final.  A delivery can also be called off with its browser.
ClaimsOf(Kind) == [w \in Worker |-> batch[w] \cap Kind]
HasLease(w, r, j, held) ==
    /\ r.state = "pending" /\ r.locked
    /\ \E c \in held[w] : c.job = j /\ c.attempt = r.attempts
Leaseholder(r, j, held) ==
    IF \E w \in Worker : HasLease(w, r, j, held)
      THEN CHOOSE w \in Worker : HasLease(w, r, j, held) ELSE NoWorker
JobsOf(held) == [w \in Worker |-> {c.job : c \in held[w]}]
Phase(state) ==
    CASE state = "none" -> "absent"
      [] state = "pending" -> "open"
      [] state = "suppressed" -> "cancelled"
      [] OTHER -> "settled"

EventQueue == INSTANCE LeasedQueue WITH
    Job <- Event, Cancellable <- {},
    phase <- [e \in Event |-> Phase(event[e].state)],
    lease <- [e \in Event |-> Leaseholder(event[e], e, ClaimsOf(EventClaim))],
    claims <- JobsOf(ClaimsOf(EventClaim))
DeliveryQueue == INSTANCE LeasedQueue WITH
    Job <- Delivery, Cancellable <- Delivery,
    phase <- [d \in Delivery |-> Phase(delivery[d].state)],
    lease <- [d \in Delivery |-> Leaseholder(delivery[d], d, ClaimsOf(DeliveryClaim))],
    claims <- JobsOf(ClaimsOf(DeliveryClaim))

EventsAreLeased == EventQueue!Spec
DeliveriesAreLeased == DeliveryQueue!Spec

==============================================================================
