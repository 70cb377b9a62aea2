------------------------ MODULE PushNotificationsProofs ------------------------
(* Proofs about PushNotifications: any number of events, browsers, people and  *)
(* workers, any batch size and any limits on attempts.                         *)
EXTENDS PushNotifications, TLAPS

-------------------------------------------------------------------------------
(* What holds between the steps *)

\* A worker works on a claim of its batch, and batches are of one kind; a claimed
\* delivery is there and goes to the person it was made for.
AboutEvents == {"events", "insert"}
AboutDeliveries == {"deliveries", "access", "rights", "torn", "send", "settle"}
Holding ==
    \A w \in Worker :
      /\ pc[w] \in AboutEvents => batch[w] \subseteq EventClaim
      /\ pc[w] \in AboutDeliveries => batch[w] \subseteq DeliveryClaim
      /\ pc[w] \in {"insert", "access", "rights", "torn", "send", "settle"} =>
           current[w] \in batch[w]
      /\ pc[w] \in AboutDeliveries => \A c \in batch[w] :
           delivery[c.job].state # "none" /\ c.to = delivery[c.job].user

\* An event is materialised by one worker at a time, under its latest claim.
OneMaterialises ==
    \A w \in Worker : pc[w] = "insert" =>
      /\ event[current[w].job].state = "pending"
      /\ \A v \in Worker : pc[v] = "insert" /\ current[v].job = current[w].job => v = w

\* Deliveries are made with the end of their event.
MadeAtTheEnd ==
    \A d \in Delivery : delivery[d].state # "none" => event[d[1]].state = "processed"

\* A steady browser is still the same recipient's, whom its event found, for whom
\* its delivery was made, and whom no worker has turned away or may turn away for what it
\* read.
SteadyRecipients ==
    \A e \in Event : \A s \in steady[e] :
      /\ event[e].state # "none"
      /\ Recipient(e, s) /\ subscription[s].user \in access

SteadyFound ==
    \A w \in Worker : pc[w] = "insert" =>
      \A s \in steady[current[w].job] : found[w][s] = subscription[s].user

SteadyServed ==
    \A e \in Event : event[e].state = "processed" => \A s \in steady[e] :
      /\ delivery[<<e, s>>].state \in {"pending", "delivered", "failed"}
      /\ delivery[<<e, s>>].user = subscription[s].user

NoneTurnedAway ==
    \A w \in Worker :
      pc[w] = "torn" \/ (pc[w] = "settle" /\ outcome[w] = "unauthorized") =>
        current[w].job[2] \notin steady[current[w].job[1]]

PushInv ==
    /\ TypeOK /\ Holding /\ OneMaterialises /\ MadeAtTheEnd
    /\ SteadyRecipients /\ SteadyFound /\ SteadyServed /\ NoneTurnedAway

-------------------------------------------------------------------------------
(* What the shared parts of the actions do *)

\* Calling off what a browser was still to get changes no delivery's recipient,
\* makes none and unmakes none.
LEMMA SuppressEffect ==
    ASSUME TypeOK, NEW s \in Subscription, SuppressPending(s)
    PROVE  /\ delivery' \in [Delivery -> DeliveryRow \cup {NoDelivery}]
           /\ \A d \in Delivery :
                /\ delivery'[d].user = delivery[d].user
                /\ delivery'[d].state = "none" <=> delivery[d].state = "none"
                /\ d[2] # s => delivery'[d] = delivery[d]
<1>1. ASSUME NEW d \in Delivery
      PROVE  LET r == IF d[2] = s /\ delivery[d].state = "pending"
                      THEN [delivery[d] EXCEPT !.state = "suppressed", !.locked = FALSE]
                      ELSE delivery[d]
             IN  /\ r \in DeliveryRow \cup {NoDelivery}
                 /\ r.user = delivery[d].user
                 /\ r.state = "none" <=> delivery[d].state = "none"
                 /\ d[2] # s => r = delivery[d]
  <2>1. delivery[d] \in DeliveryRow \cup {NoDelivery}
    BY DEF TypeOK
  <2>2. CASE delivery[d].state = "pending"
    <3>1. delivery[d] \in DeliveryRow
      BY <2>1, <2>2 DEF NoDelivery
    <3> QED
      BY <3>1, <2>2 DEF DeliveryRow, Attempt
  <2>3. CASE delivery[d].state # "pending"
    BY <2>1, <2>3
  <2> QED
    BY <2>2, <2>3
<1> QED
  BY <1>1 DEF SuppressPending

\* A change of a person's rights tears the reads of those who were reading them.
LEMMA TearEffect ==
    ASSUME TypeOK, NEW u \in User, Tear(u)
    PROVE  /\ pc' \in [Worker -> {"idle", "events", "insert", "deliveries", "access", "rights",
                                  "torn", "send", "settle"}]
           /\ \A w \in Worker :
                \/ pc'[w] = pc[w]
                \/ pc[w] = "rights" /\ pc'[w] = "torn" /\ w \in ReadingFor(u)
  BY DEF TypeOK, Tear, ReadingFor

\* Of the workers, the rest is left alone.
LEMMA RightsMove ==
    ASSUME TypeOK, NEW u \in User, ChangeAccess(u) \/ ChangeGrounds(u)
    PROVE  /\ event' = event /\ delivery' = delivery
           /\ batch' = batch /\ current' = current /\ found' = found /\ outcome' = outcome
           /\ \A w \in Worker :
                \/ pc'[w] = pc[w]
                \/ pc[w] = "rights" /\ pc'[w] = "torn" /\ w \in ReadingFor(u)
  BY TearEffect DEF ChangeAccess, ChangeGrounds, rows

\* A claim takes pending rows, counts an attempt and leaves the rest as it is.
LEMMA ClaimEventsEffect ==
    ASSUME TypeOK, NEW w \in Worker, NEW E \in SUBSET Event, ClaimEvents(w, E)
    PROVE  /\ event' \in [Event -> EventRow]
           /\ \A e \in Event : event'[e].state = event[e].state
           /\ batch' \in [Worker -> SUBSET (EventClaim \cup DeliveryClaim)]
           /\ \A v \in Worker : v # w => batch'[v] = batch[v]
           /\ batch'[w] \subseteq EventClaim
<1> USE PushAssumption
<1>1. ASSUME NEW e \in E
      PROVE  /\ event[e].attempts + 1 \in Attempt
             /\ Claimed(event[e]) \in EventRow
             /\ Claimed(event[e]).state = event[e].state
  <2>1. event[e] \in EventRow /\ Claimable(event[e])
    BY <1>1 DEF TypeOK, ClaimEvents
  <2>2. event[e].attempts + 1 \in Attempt
    BY <2>1 DEF Claimable, EventRow, Attempt
  <2>3. Claimed(event[e]) \in EventRow /\ Claimed(event[e]).state = event[e].state
    BY <2>1, <2>2 DEF Claimed, EventRow
  <2> QED
    BY <2>2, <2>3
<1>2. ASSUME NEW e \in Event
      PROVE  LET r == IF e \in E THEN Claimed(event[e]) ELSE event[e]
             IN  r \in EventRow /\ r.state = event[e].state
  BY <1>1 DEF TypeOK
<1>3. event' = [e \in Event |-> IF e \in E THEN Claimed(event[e]) ELSE event[e]]
  BY DEF ClaimEvents
<1>4. batch' = [batch EXCEPT ![w] =
                  {[job |-> e, attempt |-> event[e].attempts + 1, to |-> NoUser] : e \in E}]
  BY DEF ClaimEvents
<1>5. {[job |-> e, attempt |-> event[e].attempts + 1, to |-> NoUser] : e \in E} \subseteq EventClaim
  BY <1>1 DEF EventClaim
<1>6. batch'[w] = {[job |-> e, attempt |-> event[e].attempts + 1, to |-> NoUser] : e \in E}
  BY <1>4 DEF TypeOK
<1>7. /\ batch' \in [Worker -> SUBSET (EventClaim \cup DeliveryClaim)]
      /\ \A v \in Worker : v # w => batch'[v] = batch[v]
  BY <1>4, <1>5 DEF TypeOK
<1> QED
  BY <1>2, <1>3, <1>5, <1>6, <1>7

\* A claimed delivery goes to its browser's owner, who is its recipient.
LEMMA ClaimDeliveriesEffect ==
    ASSUME TypeOK, NEW w \in Worker, NEW D \in SUBSET Delivery, ClaimDeliveries(w, D)
    PROVE  /\ delivery' \in [Delivery -> DeliveryRow \cup {NoDelivery}]
           /\ \A d \in Delivery : /\ delivery'[d].state = delivery[d].state
                                  /\ delivery'[d].user = delivery[d].user
           /\ batch' \in [Worker -> SUBSET (EventClaim \cup DeliveryClaim)]
           /\ \A v \in Worker : v # w => batch'[v] = batch[v]
           /\ batch'[w] \subseteq DeliveryClaim
           /\ \A c \in batch'[w] : /\ delivery[c.job].state # "none"
                                   /\ c.to = delivery[c.job].user
<1> USE PushAssumption
<1> DEFINE claim(d) == [job |-> d, attempt |-> delivery[d].attempts + 1,
                        to |-> subscription[d[2]].user]
<1>1. ASSUME NEW d \in D
      PROVE  /\ claim(d) \in DeliveryClaim
             /\ claim(d).to = delivery[d].user
             /\ delivery[d].state # "none"
             /\ Claimed(delivery[d]) \in DeliveryRow
             /\ Claimed(delivery[d]).state = delivery[d].state
             /\ Claimed(delivery[d]).user = delivery[d].user
  <2>1. /\ delivery[d] \in DeliveryRow \cup {NoDelivery}
        /\ Claimable(delivery[d]) /\ Owned(d)
    BY <1>1 DEF TypeOK, ClaimDeliveries
  <2>2. delivery[d] \in DeliveryRow
    BY <2>1 DEF Claimable, NoDelivery
  <2>3. /\ delivery[d].attempts + 1 \in Attempt
        /\ delivery[d].state # "none"
        /\ subscription[d[2]].user = delivery[d].user
        /\ delivery[d].user \in User
    BY <2>1, <2>2 DEF Claimable, Owned, DeliveryRow, Attempt
  <2>4. /\ Claimed(delivery[d]) \in DeliveryRow
        /\ Claimed(delivery[d]).state = delivery[d].state
        /\ Claimed(delivery[d]).user = delivery[d].user
    BY <2>2, <2>3 DEF Claimed, DeliveryRow
  <2> QED
    BY <2>3, <2>4 DEF DeliveryClaim
<1>2. ASSUME NEW d \in Delivery
      PROVE  LET r == IF d \in D THEN Claimed(delivery[d]) ELSE delivery[d]
             IN  /\ r \in DeliveryRow \cup {NoDelivery}
                 /\ r.state = delivery[d].state /\ r.user = delivery[d].user
  BY <1>1 DEF TypeOK
<1>3. delivery' = [d \in Delivery |-> IF d \in D THEN Claimed(delivery[d]) ELSE delivery[d]]
  BY DEF ClaimDeliveries
<1>4. batch' = [batch EXCEPT ![w] = {claim(d) : d \in D}]
  BY DEF ClaimDeliveries
<1>5. batch'[w] = {claim(d) : d \in D}
  BY <1>4 DEF TypeOK
<1>6. {claim(d) : d \in D} \subseteq DeliveryClaim
  BY <1>1
<1>7. \A c \in {claim(d) : d \in D} : delivery[c.job].state # "none" /\ c.to = delivery[c.job].user
  BY <1>1
<1>8. /\ delivery' \in [Delivery -> DeliveryRow \cup {NoDelivery}]
      /\ \A d \in Delivery : delivery'[d].state = delivery[d].state /\ delivery'[d].user = delivery[d].user
  BY <1>2, <1>3
<1>9. /\ batch' \in [Worker -> SUBSET (EventClaim \cup DeliveryClaim)]
      /\ \A v \in Worker : v # w => batch'[v] = batch[v]
  BY <1>4, <1>6 DEF TypeOK
<1> QED
  BY <1>5, <1>6, <1>7, <1>8, <1>9

\* A failed attempt leaves a row of its kind, with the same recipient.
LEMMA RowsAfter ==
    /\ \A r \in EventRow, c \in EventClaim : AfterFailure(r, c) \in EventRow
    /\ \A r \in DeliveryRow, c \in DeliveryClaim :
         /\ AfterFailure(r, c) \in DeliveryRow /\ AfterFailure(r, c).user = r.user
         /\ \A x \in {"delivered", "suppressed", "failed"} :
              Settled(r, c, x) \in DeliveryRow /\ Settled(r, c, x).user = r.user
<1>1. \A r \in EventRow, c \in EventClaim : AfterFailure(r, c) \in EventRow
  BY DEF AfterFailure, Fenced, EventRow
<1>2. \A r \in DeliveryRow, c \in DeliveryClaim :
         AfterFailure(r, c) \in DeliveryRow /\ AfterFailure(r, c).user = r.user
  BY DEF AfterFailure, Fenced, DeliveryRow
<1>3. \A r \in DeliveryRow, c \in DeliveryClaim : \A x \in {"delivered", "suppressed", "failed"} :
         Settled(r, c, x) \in DeliveryRow /\ Settled(r, c, x).user = r.user
  BY DEF Settled, Fenced, DeliveryRow
<1> QED
  BY <1>1, <1>2, <1>3

-------------------------------------------------------------------------------
(* Each part is kept by every action *)

LEMMA TypeOKStep == ASSUME PushInv, [Next]_vars PROVE TypeOK'
<1> USE DEF rows, people, workers, PushInv, TypeOK
<1>0. CASE UNCHANGED vars
  BY <1>0 DEF vars, TypeOK
<1>1. ASSUME NEW e \in Event, AddEvent(e) PROVE TypeOK'
  BY <1>1, PushAssumption DEF AddEvent, EventRow, DeliveryRow, EventClaim, DeliveryClaim,
     Attempt, NoEvent, NoDelivery, Delivery
<1>2. ASSUME NEW u \in User, NEW s \in Subscription, Register(u, s) PROVE TypeOK'
  BY <1>2, SuppressEffect DEF Register, Unsteady
<1>3. ASSUME NEW s \in Subscription, Unregister(s) PROVE TypeOK'
  <2>1. subscription' \in [Subscription -> [user : User \cup {NoUser}, enabled : BOOLEAN]]
    BY <1>3 DEF Unregister
  <2> QED
    BY <1>3, <2>1, SuppressEffect DEF Unregister, Unsteady
<1>4. ASSUME NEW u \in User, ChangePreferences(u) PROVE TypeOK'
  BY <1>4 DEF ChangePreferences, Unsteady, BrowsersOf
<1>5. ASSUME NEW u \in User, ChangeAccess(u) PROVE TypeOK'
  BY <1>5, TearEffect DEF ChangeAccess, Unsteady, BrowsersOf
<1>6. ASSUME NEW u \in User, ChangeGrounds(u) PROVE TypeOK'
  BY <1>6, TearEffect DEF ChangeGrounds, ReadingFor
<1>7. ASSUME NEW w \in Worker, NEW c \in batch[w], ReadRecipients(w, c) PROVE TypeOK'
  BY <1>7 DEF ReadRecipients, Goto
<1>8. ASSUME NEW w \in Worker, NEW c \in batch[w], DropEvent(w, c) PROVE TypeOK'
  <2>1. c.job \in Event /\ event[c.job] \in EventRow
    BY <1>8 DEF DropEvent, Holding, AboutEvents, EventClaim
  <2>2. [event[c.job] EXCEPT !.state = "dropped", !.locked = FALSE] \in EventRow
    BY <2>1 DEF EventRow
  <2>3. event' = [event EXCEPT ![c.job] =
          [event[c.job] EXCEPT !.state = "dropped", !.locked = FALSE]]
    BY <1>8, <2>1 DEF DropEvent
  <2>4. event' \in [Event -> EventRow]
    BY <2>2, <2>3
  <2> QED
    BY <1>8, <2>4 DEF DropEvent, EndEvent, Goto
<1>9. ASSUME NEW w \in Worker, NEW c \in batch[w], FailEvent(w, c) PROVE TypeOK'
  <2>1. c \in EventClaim
    BY <1>9 DEF FailEvent, Holding, AboutEvents
  <2>2. c.job \in Event /\ AfterFailure(event[c.job], c) \in EventRow
    BY <2>1, RowsAfter DEF EventClaim
  <2>3. event' \in [Event -> EventRow]
    BY <1>9, <2>2 DEF FailEvent
  <2> QED
    BY <1>9, <2>3 DEF FailEvent, EndEvent, Goto
<1>10. ASSUME NEW w \in Worker, NEW c \in batch[w], CheckEnabled(w, c) PROVE TypeOK'
  BY <1>10 DEF CheckEnabled, Goto, Finish
<1>11. ASSUME NEW w \in Worker, CreateDeliveries(w) PROVE TypeOK'
  <2> DEFINE e == current[w].job
  <2>1. e \in Event /\ event[e] \in EventRow
    BY <1>11 DEF CreateDeliveries, Holding, AboutEvents, EventClaim
  <2>2. event' \in [Event -> EventRow]
    <3>1. [event[e] EXCEPT !.state = "processed", !.locked = FALSE] \in EventRow
      BY <2>1 DEF EventRow
    <3>2. event' = [event EXCEPT ![e] = [event[e] EXCEPT !.state = "processed", !.locked = FALSE]]
      BY <1>11, <2>1 DEF CreateDeliveries
    <3> QED
      BY <3>1, <3>2
  <2>3. delivery' \in [Delivery -> DeliveryRow \cup {NoDelivery}]
    <3>1. ASSUME NEW d \in Delivery, found[w][d[2]] # NoUser
          PROVE  [state |-> "pending", user |-> found[w][d[2]], attempts |-> 0, locked |-> FALSE]
                   \in DeliveryRow
      BY <3>1, PushAssumption DEF DeliveryRow, Attempt, Delivery
    <3> QED
      BY <1>11, <3>1 DEF CreateDeliveries
  <2> QED
    BY <1>11, <2>2, <2>3 DEF CreateDeliveries, EndEvent, Goto
<1>12. ASSUME NEW w \in Worker, ReadIssue(w) PROVE TypeOK'
  BY <1>12 DEF ReadIssue, Goto, Finish
<1>13. ASSUME NEW w \in Worker, CheckAccess(w) PROVE TypeOK'
  BY <1>13 DEF CheckAccess, Goto, Finish
<1>14. ASSUME NEW w \in Worker, PrepareFails(w) PROVE TypeOK'
  BY <1>14 DEF PrepareFails, Goto, Finish
<1>15. ASSUME NEW w \in Worker, NEW result \in {"accepted", "rejected", "refused", "error"}, Send(w, result)
        PROVE TypeOK'
  BY <1>15 DEF Send, Goto, Finish
<1>16. ASSUME NEW w \in Worker, SettleDelivery(w) PROVE TypeOK'
  <2>1. /\ current[w] \in DeliveryClaim /\ current[w].job \in Delivery
        /\ delivery[current[w].job] \in DeliveryRow
    BY <1>16 DEF SettleDelivery, Holding, AboutDeliveries, DeliveryClaim, NoDelivery
  <2>2. PICK x \in {"delivered", "suppressed", "failed"} : 
          delivery' = [delivery EXCEPT ![current[w].job] =
            Settled(delivery[current[w].job], current[w], x)]
    BY <1>16, <2>1 DEF SettleDelivery
  <2>3. delivery' \in [Delivery -> DeliveryRow \cup {NoDelivery}]
    BY <2>1, <2>2, RowsAfter
  <2> QED
    BY <1>16, <2>3 DEF SettleDelivery, EndDelivery, Goto
<1>17. ASSUME NEW w \in Worker, FailDelivery(w) PROVE TypeOK'
  <2>1. /\ current[w] \in DeliveryClaim /\ current[w].job \in Delivery
        /\ delivery[current[w].job] \in DeliveryRow
    BY <1>17 DEF FailDelivery, Holding, AboutDeliveries, DeliveryClaim, NoDelivery
  <2>2. delivery' \in [Delivery -> DeliveryRow \cup {NoDelivery}]
    BY <1>17, <2>1, RowsAfter DEF FailDelivery
  <2> QED
    BY <1>17, <2>2 DEF FailDelivery, EndDelivery, Goto
<1>18. ASSUME NEW w \in Worker, DisableRejected(w) PROVE TypeOK'
  <2>1. current[w] \in DeliveryClaim /\ current[w].job[2] \in Subscription
    BY <1>18 DEF DisableRejected, Holding, AboutDeliveries, DeliveryClaim, Delivery
  <2>2. SuppressPending(current[w].job[2])
    BY <1>18 DEF DisableRejected
  <2>3. delivery' \in [Delivery -> DeliveryRow \cup {NoDelivery}]
    BY <2>1, <2>2, SuppressEffect
  <2>4. subscription' \in [Subscription -> [user : User \cup {NoUser}, enabled : BOOLEAN]]
    BY <1>18, <2>1 DEF DisableRejected
  <2> QED
    BY <1>18, <2>3, <2>4 DEF DisableRejected, Unsteady, EndDelivery, Goto
<1>19. ASSUME NEW w \in Worker, EndRun(w) PROVE TypeOK'
  BY <1>19 DEF EndRun, Goto
<1>20. ASSUME NEW w \in Worker, NEW E \in SUBSET Event, ClaimEvents(w, E) PROVE TypeOK'
  BY <1>20, ClaimEventsEffect DEF ClaimEvents, Goto
<1>21. ASSUME NEW w \in Worker, NEW D \in SUBSET Delivery, ClaimDeliveries(w, D)
        PROVE TypeOK'
  BY <1>21, ClaimDeliveriesEffect DEF ClaimDeliveries, Goto
<1>22. ASSUME NEW w \in Worker, Stop(w) PROVE TypeOK'
  BY <1>22 DEF Stop, Goto
<1> QED
  BY <1>0, <1>1, <1>2, <1>3, <1>4, <1>5, <1>6, <1>7, <1>8, <1>9, <1>10, <1>11, <1>12,
     <1>13, <1>14, <1>15, <1>16, <1>17, <1>18, <1>19, <1>20, <1>21, <1>22
     DEF Next, Change, Progress, Claim

LEMMA HoldingStep == ASSUME PushInv, [Next]_vars PROVE Holding'
<1> USE DEF rows, people, workers, PushInv, TypeOK
<1>0. CASE UNCHANGED vars
  BY <1>0 DEF vars, Holding
<1>1. ASSUME NEW e \in Event, AddEvent(e) PROVE Holding'
  BY <1>1 DEF AddEvent, Holding
<1>2. ASSUME NEW u \in User, NEW s \in Subscription, Register(u, s) PROVE Holding'
  <2>1. \A d \in Delivery : /\ delivery'[d].user = delivery[d].user
                            /\ delivery'[d].state = "none" <=> delivery[d].state = "none"
    BY <1>2, SuppressEffect DEF Register
  <2>2. UNCHANGED workers
    BY <1>2 DEF Register
  <2> QED
    BY <2>1, <2>2 DEF Holding, AboutDeliveries, DeliveryClaim
<1>3. ASSUME NEW s \in Subscription, Unregister(s) PROVE Holding'
  <2>1. \A d \in Delivery : /\ delivery'[d].user = delivery[d].user
                            /\ delivery'[d].state = "none" <=> delivery[d].state = "none"
    BY <1>3, SuppressEffect DEF Unregister
  <2>2. UNCHANGED workers
    BY <1>3 DEF Unregister
  <2> QED
    BY <2>1, <2>2 DEF Holding, AboutDeliveries, DeliveryClaim
<1>4. ASSUME NEW u \in User, ChangePreferences(u) PROVE Holding'
  BY <1>4 DEF ChangePreferences, Unsteady, BrowsersOf, Holding
<1>5. ASSUME NEW u \in User, ChangeAccess(u) PROVE Holding'
  <2>1. delivery' = delivery /\ batch' = batch /\ current' = current
    BY <1>5, RightsMove
  <2>2. ASSUME NEW w \in Worker
        PROVE  pc'[w] = pc[w] \/ (pc[w] = "rights" /\ pc'[w] = "torn")
    BY <1>5, RightsMove
  <2> QED
    BY <2>1, <2>2 DEF Holding, AboutEvents, AboutDeliveries
<1>6. ASSUME NEW u \in User, ChangeGrounds(u) PROVE Holding'
  <2>1. delivery' = delivery /\ batch' = batch /\ current' = current
    BY <1>6, RightsMove
  <2>2. ASSUME NEW w \in Worker
        PROVE  pc'[w] = pc[w] \/ (pc[w] = "rights" /\ pc'[w] = "torn")
    BY <1>6, RightsMove
  <2> QED
    BY <2>1, <2>2 DEF Holding, AboutEvents, AboutDeliveries
<1>7. ASSUME NEW w \in Worker, NEW c \in batch[w], ReadRecipients(w, c) PROVE Holding'
  BY <1>7 DEF ReadRecipients, Goto, Fenced, RowLocked, Holding, EventClaim, DeliveryClaim,
     NoDelivery, AboutEvents, AboutDeliveries
<1>8. ASSUME NEW w \in Worker, NEW c \in batch[w], DropEvent(w, c) PROVE Holding'
  BY <1>8 DEF DropEvent, EndEvent, Goto, Holding
<1>9. ASSUME NEW w \in Worker, NEW c \in batch[w], FailEvent(w, c) PROVE Holding'
  BY <1>9 DEF FailEvent, EndEvent, Goto, AfterFailure, Fenced, RowLocked, Holding,
     EventClaim, DeliveryClaim, NoDelivery, AboutEvents, AboutDeliveries
<1>10. ASSUME NEW w \in Worker, NEW c \in batch[w], CheckEnabled(w, c) PROVE Holding'
  BY <1>10 DEF CheckEnabled, Goto, Finish, Owned, Holding, EventClaim, DeliveryClaim,
     NoDelivery, AboutEvents, AboutDeliveries
<1>11. ASSUME NEW w \in Worker, CreateDeliveries(w) PROVE Holding'
  BY <1>11 DEF CreateDeliveries, EndEvent, Goto, Holding, EventClaim, DeliveryClaim,
     NoDelivery, AboutEvents, AboutDeliveries
<1>12. ASSUME NEW w \in Worker, ReadIssue(w) PROVE Holding'
  BY <1>12 DEF ReadIssue, Goto, Holding, EventClaim, DeliveryClaim, NoDelivery,
     AboutEvents, AboutDeliveries
<1>13. ASSUME NEW w \in Worker, CheckAccess(w) PROVE Holding'
  BY <1>13 DEF CheckAccess, Goto, Finish, Holding, EventClaim, DeliveryClaim, NoDelivery,
     AboutEvents, AboutDeliveries
<1>14. ASSUME NEW w \in Worker, PrepareFails(w) PROVE Holding'
  BY <1>14 DEF PrepareFails, Goto, Finish, Holding, EventClaim, DeliveryClaim, NoDelivery,
     AboutEvents, AboutDeliveries
<1>15. ASSUME NEW w \in Worker, NEW result \in {"accepted", "rejected", "refused", "error"}, Send(w, result)
        PROVE Holding'
  BY <1>15 DEF Send, Goto, Finish, Holding, EventClaim, DeliveryClaim, NoDelivery,
     AboutEvents, AboutDeliveries
<1>16. ASSUME NEW w \in Worker, SettleDelivery(w) PROVE Holding'
  BY <1>16 DEF SettleDelivery, EndDelivery, Goto, Settled, Fenced, Holding, EventClaim,
     DeliveryClaim, NoDelivery, AboutEvents, AboutDeliveries
<1>17. ASSUME NEW w \in Worker, FailDelivery(w) PROVE Holding'
  BY <1>17 DEF FailDelivery, EndDelivery, Goto, AfterFailure, Fenced, Holding, EventClaim,
     DeliveryClaim, NoDelivery, AboutEvents, AboutDeliveries
<1>18. ASSUME NEW w \in Worker, DisableRejected(w) PROVE Holding'
  <2>1. current[w] \in DeliveryClaim /\ current[w].job[2] \in Subscription
    BY <1>18 DEF DisableRejected, Holding, AboutDeliveries, DeliveryClaim, Delivery
  <2>2. SuppressPending(current[w].job[2])
    BY <1>18 DEF DisableRejected
  <2>3. \A d \in Delivery : /\ delivery'[d].user = delivery[d].user
                            /\ delivery'[d].state = "none" <=> delivery[d].state = "none"
    BY <2>1, <2>2, SuppressEffect
  <2>4. \A v \in Worker : batch'[v] \subseteq batch[v] /\ (v # w => batch'[v] = batch[v])
    BY <1>18 DEF DisableRejected, EndDelivery
  <2>5. /\ pc' = [pc EXCEPT ![w] = "deliveries"]
        /\ current' = [current EXCEPT ![w] = NoClaim]
        /\ pc[w] = "settle"
    BY <1>18 DEF DisableRejected, EndDelivery, Goto
  <2>6. \A v \in Worker : pc[v] \in AboutDeliveries =>
          \A c \in batch[v] : c.job \in Delivery /\ delivery'[c.job].state # "none"
                              /\ c.to = delivery'[c.job].user
    BY <2>3 DEF Holding, AboutDeliveries, DeliveryClaim
  <2> QED
    BY <2>4, <2>5, <2>6 DEF Holding, AboutEvents, AboutDeliveries
<1>19. ASSUME NEW w \in Worker, EndRun(w) PROVE Holding'
  BY <1>19 DEF EndRun, Goto, Holding
<1>20. ASSUME NEW w \in Worker, NEW E \in SUBSET Event, ClaimEvents(w, E) PROVE Holding'
  <2>1. /\ pc' = [pc EXCEPT ![w] = "events"]
        /\ current' = current /\ delivery' = delivery
        /\ batch'[w] \subseteq EventClaim
        /\ \A v \in Worker : v # w => batch'[v] = batch[v]
    BY <1>20, ClaimEventsEffect DEF ClaimEvents, Goto
  <2> QED
    BY <2>1 DEF Holding, AboutEvents, AboutDeliveries
<1>21. ASSUME NEW w \in Worker, NEW D \in SUBSET Delivery, ClaimDeliveries(w, D)
        PROVE Holding'
  <2>1. /\ pc' = [pc EXCEPT ![w] = "deliveries"]
        /\ current' = current
    BY <1>21 DEF ClaimDeliveries, Goto
  <2>2. /\ batch'[w] \subseteq DeliveryClaim
        /\ \A v \in Worker : v # w => batch'[v] = batch[v]
        /\ \A d \in Delivery : /\ delivery'[d].state = delivery[d].state
                               /\ delivery'[d].user = delivery[d].user
        /\ \A c \in batch'[w] : delivery[c.job].state # "none" /\ c.to = delivery[c.job].user
    BY <1>21, ClaimDeliveriesEffect
  <2>3. \A c \in DeliveryClaim : c.job \in Delivery
    BY DEF DeliveryClaim
  <2>4. \A c \in batch'[w] : delivery'[c.job].state # "none" /\ c.to = delivery'[c.job].user
    BY <2>2, <2>3
  <2>5. \A v \in Worker : pc[v] \in AboutDeliveries => \A c \in batch[v] :
          delivery'[c.job].state # "none" /\ c.to = delivery'[c.job].user
    BY <2>2, <2>3 DEF Holding
  <2> QED
    BY <2>1, <2>2, <2>4, <2>5 DEF Holding, AboutEvents, AboutDeliveries
<1>22. ASSUME NEW w \in Worker, Stop(w) PROVE Holding'
  BY <1>22 DEF Stop, Goto, Holding
<1> QED
  BY <1>0, <1>1, <1>2, <1>3, <1>4, <1>5, <1>6, <1>7, <1>8, <1>9, <1>10, <1>11, <1>12,
     <1>13, <1>14, <1>15, <1>16, <1>17, <1>18, <1>19, <1>20, <1>21, <1>22
     DEF Next, Change, Progress, Claim

LEMMA OneMaterialisesStep == ASSUME PushInv, [Next]_vars PROVE OneMaterialises'
<1> USE DEF rows, people, workers, PushInv, TypeOK
<1>0. CASE UNCHANGED vars
  BY <1>0 DEF vars, OneMaterialises
<1>1. ASSUME NEW e \in Event, AddEvent(e) PROVE OneMaterialises'
  BY <1>1 DEF AddEvent, OneMaterialises
<1>2. ASSUME NEW u \in User, NEW s \in Subscription, Register(u, s)
       PROVE OneMaterialises'
  BY <1>2, SuppressEffect DEF Register, Unsteady, OneMaterialises
<1>3. ASSUME NEW s \in Subscription, Unregister(s) PROVE OneMaterialises'
  BY <1>3, SuppressEffect DEF Unregister, Unsteady, OneMaterialises
<1>4. ASSUME NEW u \in User, ChangePreferences(u) PROVE OneMaterialises'
  BY <1>4 DEF ChangePreferences, Unsteady, BrowsersOf, OneMaterialises
<1>5. ASSUME NEW u \in User, ChangeAccess(u) PROVE OneMaterialises'
  BY <1>5, TearEffect DEF ChangeAccess, Unsteady, BrowsersOf, OneMaterialises
<1>6. ASSUME NEW u \in User, ChangeGrounds(u) PROVE OneMaterialises'
  BY <1>6, TearEffect DEF ChangeGrounds, OneMaterialises
<1>7. ASSUME NEW w \in Worker, NEW c \in batch[w], ReadRecipients(w, c)
       PROVE OneMaterialises'
  BY <1>7 DEF ReadRecipients, Goto, Fenced, RowLocked, OneMaterialises, EventClaim,
     Holding, AboutEvents
<1>8. ASSUME NEW w \in Worker, NEW c \in batch[w], DropEvent(w, c)
       PROVE OneMaterialises'
  BY <1>8 DEF DropEvent, EndEvent, Goto, Fenced, RowLocked, OneMaterialises, EventClaim,
     Holding, AboutEvents
<1>9. ASSUME NEW w \in Worker, NEW c \in batch[w], FailEvent(w, c)
       PROVE OneMaterialises'
  BY <1>9 DEF FailEvent, EndEvent, Goto, AfterFailure, Fenced, RowLocked, OneMaterialises,
     EventClaim, Holding, AboutEvents
<1>10. ASSUME NEW w \in Worker, NEW c \in batch[w], CheckEnabled(w, c)
       PROVE OneMaterialises'
  BY <1>10 DEF CheckEnabled, Goto, Finish, OneMaterialises
<1>11. ASSUME NEW w \in Worker, CreateDeliveries(w) PROVE OneMaterialises'
  BY <1>11 DEF CreateDeliveries, EndEvent, Goto, OneMaterialises, EventClaim, Holding,
     AboutEvents
<1>12. ASSUME NEW w \in Worker, ReadIssue(w) PROVE OneMaterialises'
  BY <1>12 DEF ReadIssue, Goto, OneMaterialises
<1>13. ASSUME NEW w \in Worker, CheckAccess(w) PROVE OneMaterialises'
  BY <1>13 DEF CheckAccess, Goto, Finish, OneMaterialises
<1>14. ASSUME NEW w \in Worker, PrepareFails(w) PROVE OneMaterialises'
  BY <1>14 DEF PrepareFails, Goto, Finish, OneMaterialises
<1>15. ASSUME NEW w \in Worker, NEW result \in {"accepted", "rejected", "refused", "error"}, Send(w, result)
        PROVE OneMaterialises'
  BY <1>15 DEF Send, Goto, Finish, OneMaterialises
<1>16. ASSUME NEW w \in Worker, SettleDelivery(w) PROVE OneMaterialises'
  BY <1>16 DEF SettleDelivery, EndDelivery, Goto, OneMaterialises
<1>17. ASSUME NEW w \in Worker, FailDelivery(w) PROVE OneMaterialises'
  BY <1>17 DEF FailDelivery, EndDelivery, Goto, OneMaterialises
<1>18. ASSUME NEW w \in Worker, DisableRejected(w) PROVE OneMaterialises'
  BY <1>18, SuppressEffect DEF DisableRejected, EndDelivery, Goto, Unsteady, OneMaterialises
<1>19. ASSUME NEW w \in Worker, EndRun(w) PROVE OneMaterialises'
  BY <1>19 DEF EndRun, Goto, OneMaterialises
<1>20. ASSUME NEW w \in Worker, NEW E \in SUBSET Event, ClaimEvents(w, E)
        PROVE OneMaterialises'
  <2>1. /\ pc' = [pc EXCEPT ![w] = "events"] /\ current' = current
    BY <1>20 DEF ClaimEvents, Goto
  <2>2. \A e \in Event : event'[e].state = event[e].state
    BY <1>20, ClaimEventsEffect
  <2>3. \A v \in Worker : pc[v] = "insert" => current[v].job \in Event
    BY DEF Holding, AboutEvents, EventClaim
  <2> QED
    BY <2>1, <2>2, <2>3 DEF OneMaterialises
<1>21. ASSUME NEW w \in Worker, NEW D \in SUBSET Delivery, ClaimDeliveries(w, D)
        PROVE OneMaterialises'
  BY <1>21, ClaimDeliveriesEffect DEF ClaimDeliveries, Goto, OneMaterialises
<1>22. ASSUME NEW w \in Worker, Stop(w) PROVE OneMaterialises'
  BY <1>22 DEF Stop, Goto, OneMaterialises
<1> QED
  BY <1>0, <1>1, <1>2, <1>3, <1>4, <1>5, <1>6, <1>7, <1>8, <1>9, <1>10, <1>11, <1>12,
     <1>13, <1>14, <1>15, <1>16, <1>17, <1>18, <1>19, <1>20, <1>21, <1>22
     DEF Next, Change, Progress, Claim

LEMMA MadeAtTheEndStep == ASSUME PushInv, [Next]_vars PROVE MadeAtTheEnd'
<1> USE DEF rows, people, workers, PushInv, TypeOK
<1>0. CASE UNCHANGED vars
  BY <1>0 DEF vars, MadeAtTheEnd
<1>1. ASSUME NEW e \in Event, AddEvent(e) PROVE MadeAtTheEnd'
  BY <1>1 DEF AddEvent, MadeAtTheEnd
<1>2. ASSUME NEW u \in User, NEW s \in Subscription, Register(u, s) PROVE MadeAtTheEnd'
  BY <1>2, SuppressEffect DEF Register, Unsteady, MadeAtTheEnd
<1>3. ASSUME NEW s \in Subscription, Unregister(s) PROVE MadeAtTheEnd'
  BY <1>3, SuppressEffect DEF Unregister, Unsteady, MadeAtTheEnd
<1>4. ASSUME NEW u \in User, ChangePreferences(u) PROVE MadeAtTheEnd'
  BY <1>4 DEF ChangePreferences, Unsteady, BrowsersOf, MadeAtTheEnd
<1>5. ASSUME NEW u \in User, ChangeAccess(u) PROVE MadeAtTheEnd'
  BY <1>5, TearEffect DEF ChangeAccess, Unsteady, BrowsersOf, MadeAtTheEnd
<1>6. ASSUME NEW u \in User, ChangeGrounds(u) PROVE MadeAtTheEnd'
  BY <1>6, TearEffect DEF ChangeGrounds, MadeAtTheEnd
<1>7. ASSUME NEW w \in Worker, NEW c \in batch[w], ReadRecipients(w, c)
       PROVE MadeAtTheEnd'
  BY <1>7 DEF ReadRecipients, Goto, MadeAtTheEnd
<1>8. ASSUME NEW w \in Worker, NEW c \in batch[w], DropEvent(w, c) PROVE MadeAtTheEnd'
  BY <1>8, PushAssumption DEF DropEvent, EndEvent, Goto, Fenced, RowLocked, MadeAtTheEnd,
     OneMaterialises, Holding, EventClaim, DeliveryClaim, DeliveryRow, NoDelivery,
     Delivery, AboutEvents, AboutDeliveries
<1>9. ASSUME NEW w \in Worker, NEW c \in batch[w], FailEvent(w, c) PROVE MadeAtTheEnd'
  BY <1>9 DEF FailEvent, EndEvent, Goto, AfterFailure, Fenced, RowLocked, MadeAtTheEnd,
     OneMaterialises, Holding, EventClaim, DeliveryClaim, NoDelivery, AboutEvents,
     AboutDeliveries
<1>10. ASSUME NEW w \in Worker, NEW c \in batch[w], CheckEnabled(w, c)
       PROVE MadeAtTheEnd'
  BY <1>10 DEF CheckEnabled, Goto, Finish, MadeAtTheEnd
<1>11. ASSUME NEW w \in Worker, CreateDeliveries(w) PROVE MadeAtTheEnd'
  BY <1>11, PushAssumption DEF CreateDeliveries, EndEvent, Goto, MadeAtTheEnd,
     OneMaterialises, Holding, EventClaim, DeliveryClaim, DeliveryRow, NoDelivery,
     Delivery, AboutEvents, AboutDeliveries
<1>12. ASSUME NEW w \in Worker, ReadIssue(w) PROVE MadeAtTheEnd'
  BY <1>12 DEF ReadIssue, Goto, MadeAtTheEnd
<1>13. ASSUME NEW w \in Worker, CheckAccess(w) PROVE MadeAtTheEnd'
  BY <1>13 DEF CheckAccess, Goto, Finish, MadeAtTheEnd
<1>14. ASSUME NEW w \in Worker, PrepareFails(w) PROVE MadeAtTheEnd'
  BY <1>14 DEF PrepareFails, Goto, Finish, MadeAtTheEnd
<1>15. ASSUME NEW w \in Worker, NEW result \in {"accepted", "rejected", "refused", "error"}, Send(w, result)
        PROVE MadeAtTheEnd'
  BY <1>15 DEF Send, Goto, Finish, MadeAtTheEnd
<1>16. ASSUME NEW w \in Worker, SettleDelivery(w) PROVE MadeAtTheEnd'
  BY <1>16 DEF SettleDelivery, EndDelivery, Goto, Settled, Fenced, MadeAtTheEnd,
     OneMaterialises, Holding, EventClaim, DeliveryClaim, NoDelivery, AboutEvents,
     AboutDeliveries
<1>17. ASSUME NEW w \in Worker, FailDelivery(w) PROVE MadeAtTheEnd'
  BY <1>17 DEF FailDelivery, EndDelivery, Goto, AfterFailure, Fenced, MadeAtTheEnd,
     OneMaterialises, Holding, EventClaim, DeliveryClaim, NoDelivery, AboutEvents,
     AboutDeliveries
<1>18. ASSUME NEW w \in Worker, DisableRejected(w) PROVE MadeAtTheEnd'
  <2>1. current[w].job[2] \in Subscription /\ SuppressPending(current[w].job[2])
    BY <1>18 DEF DisableRejected, Holding, AboutDeliveries, DeliveryClaim, Delivery
  <2>2. \A d \in Delivery : delivery'[d].state = "none" <=> delivery[d].state = "none"
    BY <2>1, SuppressEffect
  <2> QED
    BY <1>18, <2>2 DEF DisableRejected, MadeAtTheEnd
<1>19. ASSUME NEW w \in Worker, EndRun(w) PROVE MadeAtTheEnd'
  BY <1>19 DEF EndRun, Goto, MadeAtTheEnd
<1>20. ASSUME NEW w \in Worker, NEW E \in SUBSET Event, ClaimEvents(w, E)
        PROVE MadeAtTheEnd'
  BY <1>20, PushAssumption, ClaimEventsEffect DEF ClaimEvents, Goto, MadeAtTheEnd,
     OneMaterialises, Holding, EventClaim, DeliveryClaim, DeliveryRow, NoDelivery,
     Delivery, AboutEvents, AboutDeliveries
<1>21. ASSUME NEW w \in Worker, NEW D \in SUBSET Delivery, ClaimDeliveries(w, D)
        PROVE MadeAtTheEnd'
  BY <1>21, ClaimDeliveriesEffect DEF ClaimDeliveries, Goto, MadeAtTheEnd
<1>22. ASSUME NEW w \in Worker, Stop(w) PROVE MadeAtTheEnd'
  BY <1>22 DEF Stop, Goto, MadeAtTheEnd
<1> QED
  BY <1>0, <1>1, <1>2, <1>3, <1>4, <1>5, <1>6, <1>7, <1>8, <1>9, <1>10, <1>11, <1>12,
     <1>13, <1>14, <1>15, <1>16, <1>17, <1>18, <1>19, <1>20, <1>21, <1>22
     DEF Next, Change, Progress, Claim

LEMMA SteadyRecipientsStep == ASSUME PushInv, [Next]_vars PROVE SteadyRecipients'
<1> USE DEF rows, people, workers, PushInv, TypeOK
<1>0. CASE UNCHANGED vars
  BY <1>0 DEF vars, SteadyRecipients, Recipient
<1>1. ASSUME NEW e \in Event, AddEvent(e) PROVE SteadyRecipients'
  BY <1>1 DEF AddEvent, SteadyRecipients, Recipient, Holding, AboutEvents, EventClaim,
     DeliveryClaim
<1>2. ASSUME NEW u \in User, NEW s \in Subscription, Register(u, s)
       PROVE SteadyRecipients'
  BY <1>2, SuppressEffect DEF Register, Unsteady, SteadyRecipients, Recipient, Holding,
     AboutEvents, EventClaim, DeliveryClaim
<1>3. ASSUME NEW s \in Subscription, Unregister(s) PROVE SteadyRecipients'
  BY <1>3, SuppressEffect DEF Unregister, Unsteady, SteadyRecipients, Recipient, Holding,
     AboutEvents, EventClaim, DeliveryClaim
<1>4. ASSUME NEW u \in User, ChangePreferences(u) PROVE SteadyRecipients'
  BY <1>4 DEF ChangePreferences, Unsteady, BrowsersOf, SteadyRecipients, Recipient,
     Holding, AboutEvents, EventClaim, DeliveryClaim
<1>5. ASSUME NEW u \in User, ChangeAccess(u) PROVE SteadyRecipients'
  BY <1>5, TearEffect DEF ChangeAccess, Unsteady, BrowsersOf, SteadyRecipients, Recipient, Holding,
     AboutEvents, EventClaim, DeliveryClaim
<1>6. ASSUME NEW u \in User, ChangeGrounds(u) PROVE SteadyRecipients'
  BY <1>6, TearEffect DEF ChangeGrounds, SteadyRecipients, Recipient, Holding,
     AboutEvents, EventClaim, DeliveryClaim
<1>7. ASSUME NEW w \in Worker, NEW c \in batch[w], ReadRecipients(w, c)
       PROVE SteadyRecipients'
  BY <1>7 DEF ReadRecipients, Goto, Fenced, RowLocked, SteadyRecipients, Recipient,
     Holding, AboutEvents, EventClaim, DeliveryClaim
<1>8. ASSUME NEW w \in Worker, NEW c \in batch[w], DropEvent(w, c)
       PROVE SteadyRecipients'
  BY <1>8 DEF DropEvent, EndEvent, Goto, Fenced, RowLocked, SteadyRecipients, Recipient,
     Holding, AboutEvents, EventClaim, DeliveryClaim
<1>9. ASSUME NEW w \in Worker, NEW c \in batch[w], FailEvent(w, c)
       PROVE SteadyRecipients'
  BY <1>9 DEF FailEvent, EndEvent, Goto, AfterFailure, Fenced, RowLocked, SteadyRecipients,
     Recipient, Holding, AboutEvents, EventClaim, DeliveryClaim
<1>10. ASSUME NEW w \in Worker, NEW c \in batch[w], CheckEnabled(w, c)
       PROVE SteadyRecipients'
  BY <1>10 DEF CheckEnabled, Goto, Finish, Owned, SteadyRecipients, Recipient, Holding,
     AboutEvents, EventClaim, DeliveryClaim
<1>11. ASSUME NEW w \in Worker, CreateDeliveries(w) PROVE SteadyRecipients'
  BY <1>11 DEF CreateDeliveries, EndEvent, Goto, SteadyRecipients, Recipient, Holding,
     AboutEvents, EventClaim, DeliveryClaim
<1>12. ASSUME NEW w \in Worker, ReadIssue(w) PROVE SteadyRecipients'
  BY <1>12 DEF ReadIssue, Goto, SteadyRecipients, Recipient, Holding,
     AboutEvents, EventClaim, DeliveryClaim
<1>13. ASSUME NEW w \in Worker, CheckAccess(w) PROVE SteadyRecipients'
  BY <1>13 DEF CheckAccess, Goto, Finish, SteadyRecipients, Recipient, Holding,
     AboutEvents, EventClaim, DeliveryClaim
<1>14. ASSUME NEW w \in Worker, PrepareFails(w) PROVE SteadyRecipients'
  BY <1>14 DEF PrepareFails, Goto, Finish, SteadyRecipients, Recipient, Holding,
     AboutEvents, EventClaim, DeliveryClaim
<1>15. ASSUME NEW w \in Worker, NEW result \in {"accepted", "rejected", "refused", "error"}, Send(w, result)
        PROVE SteadyRecipients'
  BY <1>15 DEF Send, Goto, Finish, SteadyRecipients, Recipient, Holding, AboutEvents,
     EventClaim, DeliveryClaim
<1>16. ASSUME NEW w \in Worker, SettleDelivery(w) PROVE SteadyRecipients'
  BY <1>16 DEF SettleDelivery, EndDelivery, Goto, Settled, Fenced, SteadyRecipients,
     Recipient, Holding, AboutEvents, EventClaim, DeliveryClaim
<1>17. ASSUME NEW w \in Worker, FailDelivery(w) PROVE SteadyRecipients'
  BY <1>17 DEF FailDelivery, EndDelivery, Goto, AfterFailure, Fenced, SteadyRecipients,
     Recipient, Holding, AboutEvents, EventClaim, DeliveryClaim
<1>18. ASSUME NEW w \in Worker, DisableRejected(w) PROVE SteadyRecipients'
  BY <1>18, SuppressEffect DEF DisableRejected, EndDelivery, Goto, Unsteady,
     SteadyRecipients, Recipient, Holding, AboutEvents, EventClaim, DeliveryClaim
<1>19. ASSUME NEW w \in Worker, EndRun(w) PROVE SteadyRecipients'
  BY <1>19 DEF EndRun, Goto, SteadyRecipients, Recipient, Holding, AboutEvents, EventClaim,
     DeliveryClaim
<1>20. ASSUME NEW w \in Worker, NEW E \in SUBSET Event, ClaimEvents(w, E)
        PROVE SteadyRecipients'
  BY <1>20, ClaimEventsEffect DEF ClaimEvents, Goto, SteadyRecipients, Recipient, Holding,
     AboutEvents, EventClaim, DeliveryClaim
<1>21. ASSUME NEW w \in Worker, NEW D \in SUBSET Delivery, ClaimDeliveries(w, D)
        PROVE SteadyRecipients'
  BY <1>21, ClaimDeliveriesEffect DEF ClaimDeliveries, Goto, SteadyRecipients, Recipient,
     Holding, AboutEvents, EventClaim, DeliveryClaim
<1>22. ASSUME NEW w \in Worker, Stop(w) PROVE SteadyRecipients'
  BY <1>22 DEF Stop, Goto, SteadyRecipients, Recipient, Holding, AboutEvents, EventClaim,
     DeliveryClaim
<1> QED
  BY <1>0, <1>1, <1>2, <1>3, <1>4, <1>5, <1>6, <1>7, <1>8, <1>9, <1>10, <1>11, <1>12,
     <1>13, <1>14, <1>15, <1>16, <1>17, <1>18, <1>19, <1>20, <1>21, <1>22
     DEF Next, Change, Progress, Claim

LEMMA SteadyFoundStep == ASSUME PushInv, [Next]_vars PROVE SteadyFound'
<1> USE DEF rows, people, workers, PushInv, TypeOK
<1>0. CASE UNCHANGED vars
  BY <1>0 DEF vars, SteadyFound
<1>1. ASSUME NEW e \in Event, AddEvent(e) PROVE SteadyFound'
  BY <1>1 DEF AddEvent, SteadyFound, Recipient, SteadyRecipients, OneMaterialises, Holding,
     AboutEvents, EventClaim
<1>2. ASSUME NEW u \in User, NEW s \in Subscription, Register(u, s) PROVE SteadyFound'
  BY <1>2, SuppressEffect DEF Register, Unsteady, SteadyFound, Recipient, SteadyRecipients,
     OneMaterialises, Holding, AboutEvents, EventClaim
<1>3. ASSUME NEW s \in Subscription, Unregister(s) PROVE SteadyFound'
  BY <1>3, SuppressEffect DEF Unregister, Unsteady, SteadyFound, Recipient,
     SteadyRecipients, OneMaterialises, Holding, AboutEvents, EventClaim
<1>4. ASSUME NEW u \in User, ChangePreferences(u) PROVE SteadyFound'
  BY <1>4 DEF ChangePreferences, Unsteady, BrowsersOf, SteadyFound, Recipient,
     SteadyRecipients, OneMaterialises, Holding, AboutEvents, EventClaim
<1>5. ASSUME NEW u \in User, ChangeAccess(u) PROVE SteadyFound'
  BY <1>5, TearEffect DEF ChangeAccess, Unsteady, BrowsersOf, SteadyFound, Recipient, SteadyRecipients,
     OneMaterialises, Holding, AboutEvents, EventClaim
<1>6. ASSUME NEW u \in User, ChangeGrounds(u) PROVE SteadyFound'
  BY <1>6, TearEffect DEF ChangeGrounds, SteadyFound, Recipient, SteadyRecipients,
     OneMaterialises, Holding, AboutEvents, EventClaim
<1>7. ASSUME NEW w \in Worker, NEW c \in batch[w], ReadRecipients(w, c)
       PROVE SteadyFound'
  BY <1>7 DEF ReadRecipients, Goto, Fenced, RowLocked, SteadyFound, Recipient,
     SteadyRecipients, OneMaterialises, Holding, AboutEvents, EventClaim
<1>8. ASSUME NEW w \in Worker, NEW c \in batch[w], DropEvent(w, c) PROVE SteadyFound'
  BY <1>8 DEF DropEvent, EndEvent, Goto, SteadyFound
<1>9. ASSUME NEW w \in Worker, NEW c \in batch[w], FailEvent(w, c) PROVE SteadyFound'
  BY <1>9 DEF FailEvent, EndEvent, Goto, SteadyFound
<1>10. ASSUME NEW w \in Worker, NEW c \in batch[w], CheckEnabled(w, c)
       PROVE SteadyFound'
  BY <1>10 DEF CheckEnabled, Goto, Finish, SteadyFound
<1>11. ASSUME NEW w \in Worker, CreateDeliveries(w) PROVE SteadyFound'
  BY <1>11 DEF CreateDeliveries, EndEvent, Goto, SteadyFound
<1>12. ASSUME NEW w \in Worker, ReadIssue(w) PROVE SteadyFound'
  BY <1>12 DEF ReadIssue, Goto, SteadyFound
<1>13. ASSUME NEW w \in Worker, CheckAccess(w) PROVE SteadyFound'
  BY <1>13 DEF CheckAccess, Goto, Finish, SteadyFound
<1>14. ASSUME NEW w \in Worker, PrepareFails(w) PROVE SteadyFound'
  BY <1>14 DEF PrepareFails, Goto, Finish, SteadyFound
<1>15. ASSUME NEW w \in Worker, NEW result \in {"accepted", "rejected", "refused", "error"}, Send(w, result)
        PROVE SteadyFound'
  BY <1>15 DEF Send, Goto, Finish, SteadyFound
<1>16. ASSUME NEW w \in Worker, SettleDelivery(w) PROVE SteadyFound'
  BY <1>16 DEF SettleDelivery, EndDelivery, Goto, SteadyFound
<1>17. ASSUME NEW w \in Worker, FailDelivery(w) PROVE SteadyFound'
  BY <1>17 DEF FailDelivery, EndDelivery, Goto, SteadyFound
<1>18. ASSUME NEW w \in Worker, DisableRejected(w) PROVE SteadyFound'
  BY <1>18, SuppressEffect DEF DisableRejected, EndDelivery, Goto, Unsteady, SteadyFound,
     Recipient, SteadyRecipients, OneMaterialises, Holding, AboutEvents, EventClaim
<1>19. ASSUME NEW w \in Worker, EndRun(w) PROVE SteadyFound'
  BY <1>19 DEF EndRun, Goto, SteadyFound
<1>20. ASSUME NEW w \in Worker, NEW E \in SUBSET Event, ClaimEvents(w, E)
        PROVE SteadyFound'
  BY <1>20, ClaimEventsEffect DEF ClaimEvents, Goto, SteadyFound
<1>21. ASSUME NEW w \in Worker, NEW D \in SUBSET Delivery, ClaimDeliveries(w, D)
        PROVE SteadyFound'
  BY <1>21, ClaimDeliveriesEffect DEF ClaimDeliveries, Goto, SteadyFound
<1>22. ASSUME NEW w \in Worker, Stop(w) PROVE SteadyFound'
  BY <1>22 DEF Stop, Goto, SteadyFound
<1> QED
  BY <1>0, <1>1, <1>2, <1>3, <1>4, <1>5, <1>6, <1>7, <1>8, <1>9, <1>10, <1>11, <1>12,
     <1>13, <1>14, <1>15, <1>16, <1>17, <1>18, <1>19, <1>20, <1>21, <1>22
     DEF Next, Change, Progress, Claim

LEMMA SteadyServedStep == ASSUME PushInv, [Next]_vars PROVE SteadyServed'
<1> USE DEF rows, people, workers, PushInv, TypeOK
<1>0. CASE UNCHANGED vars
  BY <1>0 DEF vars, SteadyServed
<1>1. ASSUME NEW e \in Event, AddEvent(e) PROVE SteadyServed'
  BY <1>1 DEF AddEvent, SteadyServed
<1>2. ASSUME NEW u \in User, NEW s \in Subscription, Register(u, s) PROVE SteadyServed'
  <2>1. /\ \A e \in Event : steady'[e] = steady[e] \ {s}
        /\ \A t \in Subscription : t # s => subscription'[t] = subscription[t]
        /\ event' = event
    BY <1>2 DEF Register, Unsteady
  <2>2. \A e \in Event, t \in Subscription : t # s => delivery'[<<e, t>>] = delivery[<<e, t>>]
    BY <1>2, SuppressEffect DEF Register, Delivery
  <2> QED
    BY <2>1, <2>2 DEF SteadyServed
<1>3. ASSUME NEW s \in Subscription, Unregister(s) PROVE SteadyServed'
  <2>1. /\ \A e \in Event : steady'[e] = steady[e] \ {s}
        /\ \A t \in Subscription : t # s => subscription'[t] = subscription[t]
        /\ event' = event
    BY <1>3 DEF Unregister, Unsteady
  <2>2. \A e \in Event, t \in Subscription : t # s => delivery'[<<e, t>>] = delivery[<<e, t>>]
    BY <1>3, SuppressEffect DEF Unregister, Delivery
  <2> QED
    BY <2>1, <2>2 DEF SteadyServed
<1>4. ASSUME NEW u \in User, ChangePreferences(u) PROVE SteadyServed'
  BY <1>4 DEF ChangePreferences, Unsteady, BrowsersOf, SteadyServed
<1>5. ASSUME NEW u \in User, ChangeAccess(u) PROVE SteadyServed'
  BY <1>5, TearEffect DEF ChangeAccess, Unsteady, BrowsersOf, SteadyServed
<1>6. ASSUME NEW u \in User, ChangeGrounds(u) PROVE SteadyServed'
  BY <1>6, TearEffect DEF ChangeGrounds, SteadyServed
<1>7. ASSUME NEW w \in Worker, NEW c \in batch[w], ReadRecipients(w, c)
       PROVE SteadyServed'
  BY <1>7 DEF ReadRecipients, Goto, SteadyServed
<1>8. ASSUME NEW w \in Worker, NEW c \in batch[w], DropEvent(w, c) PROVE SteadyServed'
  BY <1>8 DEF DropEvent, EndEvent, Goto, SteadyServed
<1>9. ASSUME NEW w \in Worker, NEW c \in batch[w], FailEvent(w, c) PROVE SteadyServed'
  BY <1>9 DEF FailEvent, EndEvent, Goto, AfterFailure, Fenced, RowLocked, SteadyServed,
     SteadyRecipients, SteadyFound, MadeAtTheEnd, NoneTurnedAway, OneMaterialises,
     Recipient, Holding, AboutEvents, AboutDeliveries, EventClaim, DeliveryClaim, NoDelivery
<1>10. ASSUME NEW w \in Worker, NEW c \in batch[w], CheckEnabled(w, c)
       PROVE SteadyServed'
  BY <1>10 DEF CheckEnabled, Goto, Finish, SteadyServed
<1>11. ASSUME NEW w \in Worker, CreateDeliveries(w) PROVE SteadyServed'
  BY <1>11, PushAssumption DEF CreateDeliveries, EndEvent, Goto, SteadyServed,
     SteadyRecipients, SteadyFound, MadeAtTheEnd, NoneTurnedAway, OneMaterialises,
     Recipient, Holding, AboutEvents, AboutDeliveries, EventClaim, DeliveryClaim,
     DeliveryRow, NoDelivery, Delivery
<1>12. ASSUME NEW w \in Worker, ReadIssue(w) PROVE SteadyServed'
  BY <1>12 DEF ReadIssue, Goto, SteadyServed
<1>13. ASSUME NEW w \in Worker, CheckAccess(w) PROVE SteadyServed'
  BY <1>13 DEF CheckAccess, Goto, Finish, SteadyServed
<1>14. ASSUME NEW w \in Worker, PrepareFails(w) PROVE SteadyServed'
  BY <1>14 DEF PrepareFails, Goto, Finish, SteadyServed
<1>15. ASSUME NEW w \in Worker, NEW result \in {"accepted", "rejected", "refused", "error"}, Send(w, result)
        PROVE SteadyServed'
  BY <1>15 DEF Send, Goto, Finish, SteadyServed
<1>16. ASSUME NEW w \in Worker, SettleDelivery(w) PROVE SteadyServed'
  BY <1>16, PushAssumption DEF SettleDelivery, EndDelivery, Goto, Settled, Fenced,
     SteadyServed, SteadyRecipients, SteadyFound, MadeAtTheEnd, NoneTurnedAway,
     OneMaterialises, Recipient, Holding, AboutEvents, AboutDeliveries, EventClaim,
     DeliveryClaim, DeliveryRow, NoDelivery, Delivery
<1>17. ASSUME NEW w \in Worker, FailDelivery(w) PROVE SteadyServed'
  BY <1>17, PushAssumption DEF FailDelivery, EndDelivery, Goto, AfterFailure, Fenced,
     SteadyServed, SteadyRecipients, SteadyFound, MadeAtTheEnd, NoneTurnedAway,
     OneMaterialises, Recipient, Holding, AboutEvents, AboutDeliveries, EventClaim,
     DeliveryClaim, DeliveryRow, NoDelivery, Delivery
<1>18. ASSUME NEW w \in Worker, DisableRejected(w) PROVE SteadyServed'
  BY <1>18, PushAssumption, SuppressEffect DEF DisableRejected, EndDelivery, Goto,
     Unsteady, SteadyServed, SteadyRecipients, SteadyFound, MadeAtTheEnd, NoneTurnedAway,
     OneMaterialises, Recipient, Holding, AboutEvents, AboutDeliveries, EventClaim,
     DeliveryClaim, DeliveryRow, NoDelivery, Delivery
<1>19. ASSUME NEW w \in Worker, EndRun(w) PROVE SteadyServed'
  BY <1>19 DEF EndRun, Goto, SteadyServed
<1>20. ASSUME NEW w \in Worker, NEW E \in SUBSET Event, ClaimEvents(w, E)
        PROVE SteadyServed'
  <2>1. \A e \in Event : event'[e].state = event[e].state
    BY <1>20, ClaimEventsEffect
  <2>2. UNCHANGED <<delivery, steady, subscription>>
    BY <1>20 DEF ClaimEvents
  <2> QED
    BY <2>1, <2>2 DEF SteadyServed
<1>21. ASSUME NEW w \in Worker, NEW D \in SUBSET Delivery, ClaimDeliveries(w, D)
        PROVE SteadyServed'
  <2>1. \A e \in Event, t \in Subscription :
          /\ delivery'[<<e, t>>].state = delivery[<<e, t>>].state
          /\ delivery'[<<e, t>>].user = delivery[<<e, t>>].user
    BY <1>21, ClaimDeliveriesEffect DEF Delivery
  <2>2. UNCHANGED <<event, steady, subscription>>
    BY <1>21 DEF ClaimDeliveries
  <2> QED
    BY <2>1, <2>2 DEF SteadyServed
<1>22. ASSUME NEW w \in Worker, Stop(w) PROVE SteadyServed'
  BY <1>22 DEF Stop, Goto, SteadyServed
<1> QED
  BY <1>0, <1>1, <1>2, <1>3, <1>4, <1>5, <1>6, <1>7, <1>8, <1>9, <1>10, <1>11, <1>12,
     <1>13, <1>14, <1>15, <1>16, <1>17, <1>18, <1>19, <1>20, <1>21, <1>22
     DEF Next, Change, Progress, Claim

LEMMA NoneTurnedAwayStep == ASSUME PushInv, [Next]_vars PROVE NoneTurnedAway'
<1> USE DEF rows, people, workers, PushInv, TypeOK
<1>0. CASE UNCHANGED vars
  BY <1>0 DEF vars, NoneTurnedAway
<1>1. ASSUME NEW e \in Event, AddEvent(e) PROVE NoneTurnedAway'
  BY <1>1 DEF AddEvent, NoneTurnedAway, SteadyRecipients, MadeAtTheEnd, Recipient, Holding,
     AboutDeliveries, DeliveryClaim
<1>2. ASSUME NEW u \in User, NEW s \in Subscription, Register(u, s)
       PROVE NoneTurnedAway'
  BY <1>2, PushAssumption, SuppressEffect DEF Register, Unsteady, NoneTurnedAway,
     SteadyRecipients, SteadyServed, MadeAtTheEnd, Recipient, Holding, AboutDeliveries,
     DeliveryClaim, Delivery
<1>3. ASSUME NEW s \in Subscription, Unregister(s) PROVE NoneTurnedAway'
  BY <1>3, PushAssumption, SuppressEffect DEF Unregister, Unsteady, NoneTurnedAway,
     SteadyRecipients, SteadyServed, MadeAtTheEnd, Recipient, Holding, AboutDeliveries,
     DeliveryClaim, Delivery
<1>4. ASSUME NEW u \in User, ChangePreferences(u) PROVE NoneTurnedAway'
  BY <1>4, PushAssumption DEF ChangePreferences, Unsteady, BrowsersOf, NoneTurnedAway,
     SteadyRecipients, SteadyServed, MadeAtTheEnd, Recipient, Holding, AboutDeliveries,
     DeliveryClaim, Delivery
<1>5. ASSUME NEW u \in User, ChangeAccess(u) PROVE NoneTurnedAway'
  <2> SUFFICES ASSUME NEW w \in Worker,
                      pc'[w] = "torn" \/ (pc'[w] = "settle" /\ outcome'[w] = "unauthorized")
               PROVE  current'[w].job[2] \notin steady'[current'[w].job[1]]
    BY DEF NoneTurnedAway
  <2> DEFINE e == current[w].job[1]
             s == current[w].job[2]
  <2>1. /\ current' = current /\ outcome' = outcome
        /\ \/ pc'[w] = pc[w]
           \/ pc[w] = "rights" /\ pc'[w] = "torn" /\ w \in ReadingFor(u)
    BY <1>5, RightsMove
  <2>2. /\ current[w] \in DeliveryClaim /\ current[w].job = <<e, s>>
        /\ e \in Event /\ s \in Subscription
    BY <2>1 DEF Holding, AboutDeliveries, DeliveryClaim, Delivery
  <2>3. steady'[e] \subseteq steady[e]
    BY <1>5, <2>2 DEF ChangeAccess, Unsteady
  <2>4. CASE pc'[w] = pc[w]
    BY <2>1, <2>3, <2>4 DEF NoneTurnedAway
  <2>5. CASE w \in ReadingFor(u) /\ s \in steady[e] /\ pc'[w] # pc[w]
    <3>1. current[w] \in batch[w] /\ delivery[<<e, s>>].state # "none"
      BY <2>1, <2>2, <2>5 DEF Holding, AboutDeliveries
    <3>2. event[e].state = "processed" /\ delivery[<<e, s>>].user = u
      BY <2>2, <2>5, <3>1 DEF MadeAtTheEnd, ReadingFor, Delivery
    <3>3. subscription[s].user = u /\ u \in access
      BY <2>2, <2>5, <3>2 DEF SteadyServed, SteadyRecipients
    <3> QED
      BY <1>5, <2>1, <2>2, <3>3 DEF ChangeAccess, Unsteady, BrowsersOf
  <2> QED
    BY <2>1, <2>3, <2>4, <2>5
<1>6. ASSUME NEW u \in User, ChangeGrounds(u) PROVE NoneTurnedAway'
  <2> SUFFICES ASSUME NEW w \in Worker,
                      pc'[w] = "torn" \/ (pc'[w] = "settle" /\ outcome'[w] = "unauthorized")
               PROVE  current'[w].job[2] \notin steady'[current'[w].job[1]]
    BY DEF NoneTurnedAway
  <2> DEFINE e == current[w].job[1]
             s == current[w].job[2]
  <2>1. /\ current' = current /\ outcome' = outcome
        /\ \/ pc'[w] = pc[w]
           \/ pc[w] = "rights" /\ pc'[w] = "torn" /\ w \in ReadingFor(u)
    BY <1>6, RightsMove
  <2>2. current[w].job = <<e, s>> /\ e \in Event /\ s \in Subscription
    BY <2>1 DEF Holding, AboutDeliveries, DeliveryClaim, Delivery
  <2>3. steady'[e] =
          steady[e] \ {t \in Subscription : \E v \in ReadingFor(u) : current[v].job = <<e, t>>}
    BY <1>6, <2>2 DEF ChangeGrounds
  <2>4. CASE pc'[w] = pc[w]
    BY <2>1, <2>3, <2>4 DEF NoneTurnedAway
  <2>5. CASE w \in ReadingFor(u)
    BY <2>1, <2>2, <2>3, <2>5
  <2> QED
    BY <2>1, <2>4, <2>5
<1>7. ASSUME NEW w \in Worker, NEW c \in batch[w], ReadRecipients(w, c)
       PROVE NoneTurnedAway'
  BY <1>7 DEF ReadRecipients, Goto, NoneTurnedAway
<1>8. ASSUME NEW w \in Worker, NEW c \in batch[w], DropEvent(w, c)
       PROVE NoneTurnedAway'
  BY <1>8 DEF DropEvent, EndEvent, Goto, NoneTurnedAway
<1>9. ASSUME NEW w \in Worker, NEW c \in batch[w], FailEvent(w, c)
       PROVE NoneTurnedAway'
  BY <1>9 DEF FailEvent, EndEvent, Goto, NoneTurnedAway
<1>10. ASSUME NEW w \in Worker, NEW c \in batch[w], CheckEnabled(w, c)
       PROVE NoneTurnedAway'
  BY <1>10, PushAssumption DEF CheckEnabled, Goto, Finish, Owned, NoneTurnedAway,
     SteadyRecipients, SteadyServed, MadeAtTheEnd, Recipient, Holding, AboutDeliveries,
     DeliveryClaim, Delivery
<1>11. ASSUME NEW w \in Worker, CreateDeliveries(w) PROVE NoneTurnedAway'
  BY <1>11 DEF CreateDeliveries, EndEvent, Goto, NoneTurnedAway
<1>12. ASSUME NEW w \in Worker, ReadIssue(w) PROVE NoneTurnedAway'
  BY <1>12 DEF ReadIssue, Goto, NoneTurnedAway
<1>13. ASSUME NEW w \in Worker, CheckAccess(w) PROVE NoneTurnedAway'
  BY <1>13, PushAssumption DEF CheckAccess, Goto, Finish, NoneTurnedAway, SteadyRecipients,
     SteadyServed, MadeAtTheEnd, Recipient, Holding, AboutDeliveries, DeliveryClaim,
     Delivery
<1>14. ASSUME NEW w \in Worker, PrepareFails(w) PROVE NoneTurnedAway'
  BY <1>14 DEF PrepareFails, Goto, Finish, NoneTurnedAway
<1>15. ASSUME NEW w \in Worker, NEW result \in {"accepted", "rejected", "refused", "error"}, Send(w, result)
        PROVE NoneTurnedAway'
  BY <1>15 DEF Send, Goto, Finish, NoneTurnedAway
<1>16. ASSUME NEW w \in Worker, SettleDelivery(w) PROVE NoneTurnedAway'
  BY <1>16 DEF SettleDelivery, EndDelivery, Goto, NoneTurnedAway
<1>17. ASSUME NEW w \in Worker, FailDelivery(w) PROVE NoneTurnedAway'
  BY <1>17 DEF FailDelivery, EndDelivery, Goto, NoneTurnedAway
<1>18. ASSUME NEW w \in Worker, DisableRejected(w) PROVE NoneTurnedAway'
  BY <1>18, PushAssumption, SuppressEffect DEF DisableRejected, EndDelivery, Goto,
     Unsteady, NoneTurnedAway, SteadyRecipients, SteadyServed, MadeAtTheEnd, Recipient,
     Holding, AboutDeliveries, DeliveryClaim, Delivery
<1>19. ASSUME NEW w \in Worker, EndRun(w) PROVE NoneTurnedAway'
  BY <1>19 DEF EndRun, Goto, NoneTurnedAway
<1>20. ASSUME NEW w \in Worker, NEW E \in SUBSET Event, ClaimEvents(w, E)
        PROVE NoneTurnedAway'
  BY <1>20, ClaimEventsEffect DEF ClaimEvents, Goto, NoneTurnedAway
<1>21. ASSUME NEW w \in Worker, NEW D \in SUBSET Delivery, ClaimDeliveries(w, D)
        PROVE NoneTurnedAway'
  BY <1>21, ClaimDeliveriesEffect DEF ClaimDeliveries, Goto, NoneTurnedAway
<1>22. ASSUME NEW w \in Worker, Stop(w) PROVE NoneTurnedAway'
  BY <1>22 DEF Stop, Goto, NoneTurnedAway
<1> QED
  BY <1>0, <1>1, <1>2, <1>3, <1>4, <1>5, <1>6, <1>7, <1>8, <1>9, <1>10, <1>11, <1>12,
     <1>13, <1>14, <1>15, <1>16, <1>17, <1>18, <1>19, <1>20, <1>21, <1>22
     DEF Next, Change, Progress, Claim

LEMMA PushInvInit == Init => PushInv
  BY PushAssumption DEF Init, PushInv, TypeOK, Holding, OneMaterialises, MadeAtTheEnd, SteadyRecipients,
     SteadyFound, SteadyServed, NoneTurnedAway, NoEvent, NoDelivery, EventRow, DeliveryRow,
     EventClaim, DeliveryClaim, Attempt, AboutEvents, AboutDeliveries

LEMMA PushInvHolds == Spec => []PushInv
<1>1. PushInv /\ [Next]_vars => PushInv'
  BY TypeOKStep, HoldingStep, OneMaterialisesStep, MadeAtTheEndStep, SteadyRecipientsStep,
     SteadyFoundStep, SteadyServedStep, NoneTurnedAwayStep DEF PushInv
<1> QED
  BY PushInvInit, <1>1, PTL DEF Spec

-------------------------------------------------------------------------------
(* The theorems *)

\* Every reachable state is well typed; in particular no row is claimed more
\* often than its claims are counted, and a delivery that is there has a recipient.
THEOREM PushTyped == Spec => []TypeOK
<1>1. PushInv => TypeOK
  BY DEF PushInv
<1> QED
  BY PushInvHolds, <1>1, PTL

\* ClaimPushNotificationDeliveries hands out the keys of the recipient's own
\* browser, and no later change of hands makes them anyone else's: a message is
\* sent under the keys of the person its delivery was made for.
THEOREM KeysAreTheRecipients == Spec => []KeysMatchUser
<1>1. PushInv => KeysMatchUser
  BY DEF PushInv, Holding, KeysMatchUser, AboutDeliveries
<1> QED
  BY PushInvHolds, <1>1, PTL

\* MaterializePushNotificationEvent makes its deliveries with the end of the
\* event, from browsers read under the event's row lock, so nobody who could be
\* told of a change throughout, on the same grounds while a worker asks for them, is left
\* out, however many workers claim the event.
THEOREM EveryRecipientServed == Spec => []NoRecipientForgotten
<1>1. PushInv => NoRecipientForgotten
  BY DEF PushInv, SteadyServed, NoRecipientForgotten
<1> QED
  BY PushInvHolds, <1>1, PTL

-------------------------------------------------------------------------------
(* Rows claimed under leases, of either kind: R is a table of them by job and C *)
(* the claims that each worker has not finished.                               *)

Claims(Job, C) ==
    \A w \in Worker : \A c \in C[w] : c.job \in Job /\ c.attempt \in Nat \ {0}

\* An attempt number fences: no claim is ahead of its row, a claim that still
\* holds finds its row locked, and no other claim has its job and its number.
NumberFences(Job, R, C) ==
    /\ \A j \in Job : /\ R[j].attempts \in Nat /\ R[j].locked \in BOOLEAN
                      /\ R[j].state = "none" => R[j].attempts = 0
    /\ Claims(Job, C)
    /\ \A w \in Worker : \A c \in C[w] :
         /\ c.attempt <= R[c.job].attempts
         /\ Fenced(R[c.job], c) => R[c.job].locked
         /\ \A v \in Worker : \A b \in C[v] :
              c.job = b.job /\ (w = v \/ c.attempt = b.attempt) => w = v /\ c = b

\* The worker with the lease of a row.
LEMMA LeaseholderHas ==
    ASSUME NEW Job, NEW R, NEW C, NumberFences(Job, R, C), NEW j \in Job
    PROVE  /\ \A w \in Worker : Leaseholder(R[j], j, C) = w <=> HasLease(w, R[j], j, C)
           /\ Leaseholder(R[j], j, C) \in Worker \cup {NoWorker}
<1>1. \A w, v \in Worker : HasLease(w, R[j], j, C) /\ HasLease(v, R[j], j, C) => w = v
  BY DEF HasLease, NumberFences
<1>2. CASE \E w \in Worker : HasLease(w, R[j], j, C)
  <2>1. PICK w \in Worker : HasLease(w, R[j], j, C)
    BY <1>2
  <2>2. Leaseholder(R[j], j, C) = CHOOSE v \in Worker : HasLease(v, R[j], j, C)
    BY <1>2 DEF Leaseholder
  <2>3. /\ (CHOOSE v \in Worker : HasLease(v, R[j], j, C)) \in Worker
        /\ HasLease(CHOOSE v \in Worker : HasLease(v, R[j], j, C), R[j], j, C)
    BY <1>2
  <2> QED
    BY <1>1, <2>2, <2>3
<1>3. CASE ~\E w \in Worker : HasLease(w, R[j], j, C)
  BY <1>3, PushAssumption DEF Leaseholder
<1> QED
  BY <1>2, <1>3

\* Who has the lease is decided by the row and by the claims there are of it.
LEMMA LeaseholderMoves ==
    ASSUME NEW Job, NEW R, NEW C, NEW Q, NEW D, NEW j \in Job,
           NumberFences(Job, R, C), NumberFences(Job, Q, D)
    PROVE  /\ (\A w \in Worker : HasLease(w, Q[j], j, D) <=> HasLease(w, R[j], j, C))
                => Leaseholder(Q[j], j, D) = Leaseholder(R[j], j, C)
           /\ (\A w \in Worker : ~HasLease(w, Q[j], j, D)) => Leaseholder(Q[j], j, D) = NoWorker
<1>1. \A w \in Worker : /\ Leaseholder(R[j], j, C) = w <=> HasLease(w, R[j], j, C)
                        /\ Leaseholder(Q[j], j, D) = w <=> HasLease(w, Q[j], j, D)
  BY LeaseholderHas
<1>2. /\ Leaseholder(R[j], j, C) \in Worker \cup {NoWorker}
      /\ Leaseholder(Q[j], j, D) \in Worker \cup {NoWorker}
  BY LeaseholderHas
<1> QED
  BY <1>1, <1>2

\* What a claim does: the rows of J are locked under new numbers, and w has them.
Takes(Job, R, C, Q, D, w, J) ==
    /\ C[w] = {} /\ \A v \in Worker : v # w => D[v] = C[v]
    /\ \A j \in Job : IF j \in J
         THEN /\ R[j].state = "pending" /\ Q[j].state = "pending"
              /\ Q[j].attempts = R[j].attempts + 1 /\ Q[j].locked = TRUE
         ELSE Q[j] = R[j]
    /\ \A c \in D[w] : c.job \in J /\ c.attempt = R[c.job].attempts + 1
    /\ \A c, b \in D[w] : c.job = b.job => c = b
    /\ \A j \in J : \E c \in D[w] : c.job = j

\* What the end of a claim does: its row, if the claim still holds, is unlocked
\* in its new state.
Returns(Job, R, C, Q, D, w, c, state) ==
    /\ c \in C[w] /\ D[w] = C[w] \ {c} /\ \A v \in Worker : v # w => D[v] = C[v]
    /\ \A j \in Job : j # c.job => Q[j] = R[j]
    /\ IF Fenced(R[c.job], c)
         THEN Q[c.job].state = state /\ Q[c.job].attempts = R[c.job].attempts
              /\ Q[c.job].locked = FALSE
         ELSE Q[c.job] = R[c.job]

\* Rows are called off, and a worker that finds its own among them drops it.
CallsOff(Job, R, C, Q, D, w, J, own) ==
    /\ own \subseteq C[w] /\ D[w] = C[w] \ own /\ \A v \in Worker : v # w => D[v] = C[v]
    /\ \A j \in Job : IF j \in J
         THEN R[j].state = "pending" /\ Q[j].state = "suppressed"
              /\ Q[j].attempts = R[j].attempts /\ Q[j].locked = FALSE
         ELSE Q[j] = R[j]
    /\ \A c \in own : R[c.job].state = "pending" => c.job \in J

Adds(Job, R, C, Q, D, J) ==
    /\ \A w \in Worker : D[w] = C[w]
    /\ \A j \in Job : IF j \in J
         THEN R[j].state = "none" /\ Q[j].state = "pending" /\ Q[j].attempts = 0
              /\ Q[j].locked \in BOOLEAN
         ELSE Q[j] = R[j]

DropsAll(Job, R, C, Q, D, w) ==
    /\ \A j \in Job : Q[j] = R[j]
    /\ D[w] = {} /\ \A v \in Worker : v # w => D[v] = C[v]

LEMMA TakesFences ==
    ASSUME NEW Job, NEW R, NEW C, NEW Q, NEW D, NEW w \in Worker, NEW J \in SUBSET Job,
           NumberFences(Job, R, C), Takes(Job, R, C, Q, D, w, J)
    PROVE  NumberFences(Job, Q, D)
<1>1. \A j \in Job : /\ Q[j].attempts \in Nat /\ Q[j].locked \in BOOLEAN
                     /\ Q[j].state = "none" => Q[j].attempts = 0
  <2> SUFFICES ASSUME NEW j \in Job
               PROVE  /\ Q[j].attempts \in Nat /\ Q[j].locked \in BOOLEAN
                      /\ Q[j].state = "none" => Q[j].attempts = 0
    OBVIOUS
  <2>1. CASE j \in J
    <3>1. Q[j].state = "pending" /\ Q[j].attempts = R[j].attempts + 1 /\ Q[j].locked = TRUE
      BY <2>1 DEF Takes
    <3>2. R[j].attempts \in Nat
      BY DEF NumberFences
    <3>3. Q[j].attempts \in Nat
      BY <3>1, <3>2
    <3> QED
      BY <3>1, <3>3, Zenon
  <2>2. CASE j \notin J
    <3>1. Q[j] = R[j]
      BY <2>2 DEF Takes
    <3> QED
      BY <3>1 DEF NumberFences
  <2> QED
    BY <2>1, <2>2
<1>2. Claims(Job, D)
  BY DEF NumberFences, Takes, Claims
<1>3. ASSUME NEW v \in Worker, NEW c \in D[v]
      PROVE  /\ c.attempt <= Q[c.job].attempts
             /\ Fenced(Q[c.job], c) => Q[c.job].locked
  <2>1. CASE v = w
    BY <1>2, <1>3, <2>1 DEF NumberFences, Takes, Claims, Fenced
  <2>2. CASE v # w
    BY <1>2, <1>3, <2>2 DEF NumberFences, Takes, Claims, Fenced
  <2> QED
    BY <2>1, <2>2
<1>4. ASSUME NEW u \in Worker, NEW c \in D[u], NEW v \in Worker, NEW b \in D[v],
             c.job = b.job, u = v \/ c.attempt = b.attempt
      PROVE  u = v /\ c = b
  <2>1. CASE u = w /\ v = w
    BY <1>4, <2>1 DEF Takes
  <2>2. CASE u # w /\ v # w
    BY <1>4, <2>2 DEF Takes, NumberFences
  <2>3. CASE u = w /\ v # w
    <3>1. b \in C[v] /\ b.attempt <= R[b.job].attempts /\ c.attempt = R[c.job].attempts + 1
      BY <1>4, <2>3 DEF Takes, NumberFences
    <3>2. R[b.job].attempts \in Nat /\ b.attempt \in Nat
      BY <3>1 DEF NumberFences, Claims
    <3> QED
      BY <1>4, <2>3, <3>1, <3>2
  <2>4. CASE u # w /\ v = w
    <3>1. c \in C[u] /\ c.attempt <= R[c.job].attempts /\ b.attempt = R[b.job].attempts + 1
      BY <1>4, <2>4 DEF Takes, NumberFences
    <3>2. R[c.job].attempts \in Nat /\ c.attempt \in Nat
      BY <3>1 DEF NumberFences, Claims
    <3> QED
      BY <1>4, <2>4, <3>1, <3>2
  <2> QED
    BY <2>1, <2>2, <2>3, <2>4
<1> QED
  BY <1>1, <1>2, <1>3, <1>4 DEF NumberFences

LEMMA ReturnsFences ==
    ASSUME NEW Job, NEW R, NEW C, NEW Q, NEW D, NEW w \in Worker, NEW c, NEW x,
           x # "none", NumberFences(Job, R, C), Returns(Job, R, C, Q, D, w, c, x)
    PROVE  NumberFences(Job, Q, D)
<1>1. c.job \in Job /\ \A v \in Worker : D[v] \subseteq C[v]
  BY DEF NumberFences, Returns, Claims
<1>2. \A j \in Job : /\ Q[j].attempts = R[j].attempts /\ Q[j].locked \in BOOLEAN
                     /\ Q[j].state = "none" => Q[j].attempts = 0
  <2> SUFFICES ASSUME NEW j \in Job
               PROVE  /\ Q[j].attempts = R[j].attempts /\ Q[j].locked \in BOOLEAN
                      /\ Q[j].state = "none" => Q[j].attempts = 0
    OBVIOUS
  <2>1. CASE j = c.job /\ Fenced(R[c.job], c)
    BY <2>1 DEF NumberFences, Returns
  <2>2. CASE ~(j = c.job /\ Fenced(R[c.job], c))
    <3>1. Q[j] = R[j]
      BY <2>2 DEF Returns
    <3> QED
      BY <3>1 DEF NumberFences
  <2> QED
    BY <2>1, <2>2
<1>3. ASSUME NEW v \in Worker, NEW b \in D[v], Fenced(Q[b.job], b) PROVE Q[b.job].locked
  <2>1. CASE b.job # c.job
    BY <1>1, <1>3, <2>1 DEF NumberFences, Returns, Claims, Fenced
  <2>2. CASE b.job = c.job /\ Fenced(R[c.job], c)
    <3>1. b.attempt = c.attempt /\ b \in C[v] /\ c \in C[w]
      BY <1>1, <1>2, <1>3, <2>2 DEF Fenced, Returns
    <3>2. v = w /\ b = c
      BY <2>2, <3>1 DEF NumberFences
    <3> QED
      BY <1>3, <3>2 DEF Returns
  <2>3. CASE b.job = c.job /\ ~Fenced(R[c.job], c)
    BY <1>1, <1>3, <2>3 DEF NumberFences, Returns, Fenced
  <2> QED
    BY <2>1, <2>2, <2>3
<1> QED
  BY <1>1, <1>2, <1>3 DEF NumberFences, Claims

LEMMA CallsOffFences ==
    ASSUME NEW Job, NEW R, NEW C, NEW Q, NEW D, NEW w \in Worker, NEW J, NEW own,
           NumberFences(Job, R, C), CallsOff(Job, R, C, Q, D, w, J, own)
    PROVE  NumberFences(Job, Q, D)
<1>1. \A v \in Worker : D[v] \subseteq C[v]
  BY DEF CallsOff
<1>2. \A j \in Job : /\ Q[j].attempts = R[j].attempts /\ Q[j].locked \in BOOLEAN
                     /\ Q[j].state = "none" => Q[j].attempts = 0
                     /\ Q[j].state = "pending" => Q[j] = R[j]
  BY DEF NumberFences, CallsOff
<1> QED
  BY <1>1, <1>2 DEF NumberFences, Claims, Fenced

LEMMA AddsFences ==
    ASSUME NEW Job, NEW R, NEW C, NEW Q, NEW D, NEW J,
           NumberFences(Job, R, C), Adds(Job, R, C, Q, D, J)
    PROVE  NumberFences(Job, Q, D)
<1>1. \A j \in Job : /\ Q[j].attempts = R[j].attempts /\ Q[j].locked \in BOOLEAN
                     /\ Q[j].state = "none" => Q[j].attempts = 0
                     /\ R[j].attempts # 0 => Q[j] = R[j]
  BY DEF NumberFences, Adds
<1>2. \A v \in Worker : \A c \in C[v] : R[c.job].attempts # 0
  BY DEF NumberFences, Claims
<1> QED
  BY <1>1, <1>2 DEF NumberFences, Claims, Adds, Fenced

LEMMA DropsAllFences ==
    ASSUME NEW Job, NEW R, NEW C, NEW Q, NEW D, NEW w \in Worker,
           NumberFences(Job, R, C), DropsAll(Job, R, C, Q, D, w)
    PROVE  NumberFences(Job, Q, D)
<1>1. \A v \in Worker : D[v] \subseteq C[v]
  BY DEF DropsAll
<1> QED
  BY <1>1 DEF NumberFences, Claims, Fenced, DropsAll

-------------------------------------------------------------------------------
(* What each does to the queue that LeasedQueue describes *)

\* The phases, leases and jobs of one queue become those of another.
QueueMoves(Job, R, C, Q, D, J, phase, L, holder, w, own) ==
    /\ \A j \in Job : Phase(Q[j].state) = IF j \in J THEN phase ELSE Phase(R[j].state)
    /\ \A j \in Job :
         Leaseholder(Q[j], j, D) = IF j \in L THEN holder ELSE Leaseholder(R[j], j, C)
    /\ \A v \in Worker : JobsOf(D)[v] = IF v = w THEN own ELSE JobsOf(C)[v]

LEMMA TakesMoves ==
    ASSUME NEW Job, NEW R, NEW C, NEW Q, NEW D, NEW w \in Worker, NEW J \in SUBSET Job,
           NumberFences(Job, R, C), Takes(Job, R, C, Q, D, w, J)
    PROVE  /\ \A j \in J : Phase(R[j].state) = "open"
           /\ QueueMoves(Job, R, C, Q, D, {}, "open", J, w, w, JobsOf(C)[w] \cup J)
<1>1. NumberFences(Job, Q, D)
  BY TakesFences
<1>2. \A j \in J : Phase(R[j].state) = "open"
  BY DEF Takes, Phase
<1>3. \A j \in Job : Q[j].state = R[j].state
  BY DEF Takes
<1>4. ASSUME NEW j \in J PROVE Leaseholder(Q[j], j, D) = w
  <2>1. HasLease(w, Q[j], j, D)
    BY DEF Takes, HasLease
  <2> QED
    BY <1>1, <2>1, LeaseholderHas
<1>5. ASSUME NEW j \in Job, j \notin J PROVE Leaseholder(Q[j], j, D) = Leaseholder(R[j], j, C)
  <2>1. Q[j] = R[j] /\ \A v \in Worker : \A c \in C[v] \cup D[v] : c.job = j => c \in C[v] /\ c \in D[v]
    BY <1>5 DEF Takes
  <2>2. \A v \in Worker : HasLease(v, Q[j], j, D) <=> HasLease(v, R[j], j, C)
    BY <2>1 DEF HasLease
  <2> QED
    BY <1>1, <2>2, LeaseholderMoves
<1>6. JobsOf(D)[w] = JobsOf(C)[w] \cup J /\ \A v \in Worker : v # w => JobsOf(D)[v] = JobsOf(C)[v]
  BY DEF Takes, JobsOf
<1> QED
  BY <1>2, <1>3, <1>4, <1>5, <1>6 DEF QueueMoves

\* A claim that ends, in a new state or fenced off, is dropped by its worker, who
\* loses the lease if it had it.
LEMMA ReturnsMoves ==
    ASSUME NEW Job, NEW R, NEW C, NEW Q, NEW D, NEW w \in Worker, NEW c, NEW x,
           x # "none", NumberFences(Job, R, C), Returns(Job, R, C, Q, D, w, c, x)
    PROVE  /\ c.job \in Job /\ c.job \in JobsOf(C)[w]
           /\ Leaseholder(R[c.job], c.job, C) = w <=> Fenced(R[c.job], c)
           /\ QueueMoves(Job, R, C, Q, D,
                IF Fenced(R[c.job], c) THEN {c.job} ELSE {}, Phase(x),
                IF Fenced(R[c.job], c) THEN {c.job} ELSE {}, NoWorker,
                w, JobsOf(C)[w] \ {c.job})
<1>1. NumberFences(Job, Q, D)
  BY ReturnsFences
<1>2. /\ c \in C[w] /\ c.job \in Job /\ c.job \in JobsOf(C)[w]
      /\ \A b \in C[w] : b.job = c.job => b = c
  BY DEF NumberFences, Claims, Returns, JobsOf
<1>3. Leaseholder(R[c.job], c.job, C) = w <=> Fenced(R[c.job], c)
  <2>1. HasLease(w, R[c.job], c.job, C) <=> Fenced(R[c.job], c)
    BY <1>2 DEF HasLease, Fenced, NumberFences
  <2> QED
    BY <1>2, <2>1, LeaseholderHas
<1>4. ASSUME Fenced(R[c.job], c)
      PROVE  Leaseholder(Q[c.job], c.job, D) = NoWorker
  <2>1. ~Q[c.job].locked
    BY <1>4 DEF Returns
  <2>2. \A v \in Worker : ~HasLease(v, Q[c.job], c.job, D)
    BY <2>1 DEF HasLease
  <2> QED
    BY <1>1, <1>2, <2>2, LeaseholderMoves
<1>5. ASSUME ~Fenced(R[c.job], c)
      PROVE  Leaseholder(Q[c.job], c.job, D) = Leaseholder(R[c.job], c.job, C)
  <2>1. Q[c.job] = R[c.job]
    BY <1>5 DEF Returns
  <2>2. ASSUME NEW v \in Worker
        PROVE  HasLease(v, Q[c.job], c.job, D) <=> HasLease(v, R[c.job], c.job, C)
    <3>1. CASE v = w
      BY <1>2, <1>5, <2>1, <3>1 DEF HasLease, Returns, Fenced
    <3>2. CASE v # w
      BY <2>1, <3>2 DEF HasLease, Returns
    <3> QED
      BY <3>1, <3>2
  <2> QED
    BY <1>1, <1>2, <2>2, LeaseholderMoves
<1>6. ASSUME NEW j \in Job, j # c.job PROVE Leaseholder(Q[j], j, D) = Leaseholder(R[j], j, C)
  <2>1. Q[j] = R[j] /\ \A v \in Worker : \A b \in C[v] \cup D[v] : b.job = j => b \in C[v] /\ b \in D[v]
    BY <1>6 DEF Returns
  <2>2. \A v \in Worker : HasLease(v, Q[j], j, D) <=> HasLease(v, R[j], j, C)
    BY <2>1 DEF HasLease
  <2> QED
    BY <1>1, <2>2, LeaseholderMoves
<1>7. /\ JobsOf(D)[w] = JobsOf(C)[w] \ {c.job}
      /\ \A v \in Worker : v # w => JobsOf(D)[v] = JobsOf(C)[v]
  BY <1>2 DEF Returns, JobsOf
<1>8. \A j \in Job : Phase(Q[j].state) = IF j = c.job /\ Fenced(R[c.job], c) THEN Phase(x)
                                          ELSE Phase(R[j].state)
  BY <1>2 DEF Returns
<1> QED
  BY <1>2, <1>3, <1>4, <1>5, <1>6, <1>7, <1>8 DEF QueueMoves

LEMMA CallsOffMoves ==
    ASSUME NEW Job, NEW R, NEW C, NEW Q, NEW D, NEW w \in Worker, NEW J \in SUBSET Job, NEW own,
           NumberFences(Job, R, C), CallsOff(Job, R, C, Q, D, w, J, own)
    PROVE  /\ \A j \in J : Phase(R[j].state) = "open"
           /\ {c.job : c \in own} \subseteq JobsOf(C)[w]
           /\ \A j \in {c.job : c \in own} : Leaseholder(R[j], j, C) = w => j \in J
           /\ QueueMoves(Job, R, C, Q, D, J, "cancelled", J, NoWorker,
                         w, JobsOf(C)[w] \ {c.job : c \in own})
<1>1. NumberFences(Job, Q, D)
  BY CallsOffFences
<1>2. /\ \A j \in J : Phase(R[j].state) = "open"
      /\ {c.job : c \in own} \subseteq JobsOf(C)[w]
  BY DEF CallsOff, Phase, JobsOf
<1>3. ASSUME NEW c \in own, Leaseholder(R[c.job], c.job, C) = w PROVE c.job \in J
  <2>1. c.job \in Job
    BY DEF CallsOff, NumberFences, Claims
  <2>2. HasLease(w, R[c.job], c.job, C)
    BY <1>3, <2>1, LeaseholderHas
  <2> QED
    BY <2>2 DEF HasLease, CallsOff
<1>4. ASSUME NEW j \in J PROVE Leaseholder(Q[j], j, D) = NoWorker
  <2>1. \A v \in Worker : ~HasLease(v, Q[j], j, D)
    BY DEF HasLease, CallsOff
  <2> QED
    BY <1>1, <2>1, LeaseholderMoves
<1>5. ASSUME NEW j \in Job, j \notin J PROVE Leaseholder(Q[j], j, D) = Leaseholder(R[j], j, C)
  <2>1. Q[j] = R[j] /\ \A c \in own : c.job = j => R[j].state # "pending"
    BY <1>5 DEF CallsOff
  <2>2. ASSUME NEW v \in Worker
        PROVE  HasLease(v, Q[j], j, D) <=> HasLease(v, R[j], j, C)
    <3>1. CASE v = w
      BY <2>1, <3>1 DEF HasLease, CallsOff
    <3>2. CASE v # w
      BY <2>1, <3>2 DEF HasLease, CallsOff
    <3> QED
      BY <3>1, <3>2
  <2> QED
    BY <1>1, <2>2, LeaseholderMoves
<1>6. /\ JobsOf(D)[w] = JobsOf(C)[w] \ {c.job : c \in own}
      /\ \A v \in Worker : v # w => JobsOf(D)[v] = JobsOf(C)[v]
  <2>1. \A c, b \in C[w] : c.job = b.job => c = b
    BY DEF NumberFences
  <2> QED
    BY <2>1 DEF CallsOff, JobsOf
<1>7. \A j \in Job : Phase(Q[j].state) = IF j \in J THEN "cancelled" ELSE Phase(R[j].state)
  BY DEF CallsOff, Phase
<1> QED
  BY <1>2, <1>3, <1>4, <1>5, <1>6, <1>7 DEF QueueMoves

LEMMA AddsMoves ==
    ASSUME NEW Job, NEW R, NEW C, NEW Q, NEW D, NEW J \in SUBSET Job, NEW w,
           NumberFences(Job, R, C), Adds(Job, R, C, Q, D, J)
    PROVE  /\ \A j \in J : Phase(R[j].state) = "absent"
           /\ QueueMoves(Job, R, C, Q, D, J, "open", {}, NoWorker, w, JobsOf(C)[w])
<1>1. NumberFences(Job, Q, D)
  BY AddsFences
<1>2. /\ \A j \in J : Phase(R[j].state) = "absent"
      /\ \A j \in Job : Phase(Q[j].state) = IF j \in J THEN "open" ELSE Phase(R[j].state)
  BY DEF Adds, Phase
<1>3. ASSUME NEW j \in Job PROVE Leaseholder(Q[j], j, D) = Leaseholder(R[j], j, C)
  <2>1. \A v \in Worker : \A c \in D[v] : c.job = j => j \notin J
    BY <1>1 DEF NumberFences, Claims, Adds
  <2>2. ASSUME NEW v \in Worker PROVE HasLease(v, Q[j], j, D) <=> HasLease(v, R[j], j, C)
    <3>1. CASE j \in J
      BY <2>1, <3>1 DEF HasLease, Adds
    <3>2. CASE j \notin J
      BY <3>2 DEF HasLease, Adds
    <3> QED
      BY <3>1, <3>2
  <2> QED
    BY <1>1, <2>2, LeaseholderMoves
<1>4. \A v \in Worker : JobsOf(D)[v] = JobsOf(C)[v]
  BY DEF Adds, JobsOf
<1> QED
  BY <1>2, <1>3, <1>4 DEF QueueMoves

LEMMA DropsAllMoves ==
    ASSUME NEW Job, NEW R, NEW C, NEW Q, NEW D, NEW w \in Worker,
           NumberFences(Job, R, C), DropsAll(Job, R, C, Q, D, w)
    PROVE  QueueMoves(Job, R, C, Q, D, {}, "open",
                      {j \in JobsOf(C)[w] : Leaseholder(R[j], j, C) = w}, NoWorker, w, {})
<1>1. NumberFences(Job, Q, D)
  BY DropsAllFences
<1>2. ASSUME NEW j \in Job, Leaseholder(R[j], j, C) = w
      PROVE  j \in JobsOf(C)[w] /\ Leaseholder(Q[j], j, D) = NoWorker
  <2>1. HasLease(w, R[j], j, C) /\ \A v \in Worker : HasLease(v, R[j], j, C) => v = w
    BY <1>2, LeaseholderHas
  <2>2. \A v \in Worker : ~HasLease(v, Q[j], j, D)
    BY <2>1 DEF HasLease, DropsAll
  <2>3. j \in JobsOf(C)[w]
    BY <2>1 DEF HasLease, JobsOf
  <2> QED
    BY <1>1, <2>2, <2>3, LeaseholderMoves
<1>3. ASSUME NEW j \in Job, Leaseholder(R[j], j, C) # w
      PROVE  Leaseholder(Q[j], j, D) = Leaseholder(R[j], j, C)
  <2>1. ~HasLease(w, R[j], j, C)
    BY <1>3, LeaseholderHas
  <2>2. \A v \in Worker : HasLease(v, Q[j], j, D) <=> HasLease(v, R[j], j, C)
    BY <2>1 DEF HasLease, DropsAll
  <2> QED
    BY <1>1, <2>2, LeaseholderMoves
<1>4. /\ JobsOf(D)[w] = {} /\ \A v \in Worker : v # w => JobsOf(D)[v] = JobsOf(C)[v]
      /\ \A j \in Job : Q[j] = R[j]
  BY DEF DropsAll, JobsOf
<1> QED
  BY <1>2, <1>3, <1>4 DEF QueueMoves

-------------------------------------------------------------------------------
(* What the steps do to the rows and claims of each kind *)

EventClaims == ClaimsOf(EventClaim)
DeliveryClaims == ClaimsOf(DeliveryClaim)

LEMMA KindsDiffer == EventClaim \cap DeliveryClaim = {}
  BY PushAssumption DEF EventClaim, DeliveryClaim

\* Between its runs a worker holds no claims; one that makes deliveries has a
\* claim that holds; and deliveries are made by workers.
IdleHoldsNone == \A w \in Worker : pc[w] = "idle" => batch[w] = {}
InsertHolds == \A w \in Worker : pc[w] = "insert" => Fenced(event[current[w].job], current[w])
MadeByWorkers == \A d \in Delivery : delivery[d].state # "none" => Worker # {}

LeaseInv ==
    /\ PushInv
    /\ NumberFences(Event, event, EventClaims)
    /\ NumberFences(Delivery, delivery, DeliveryClaims)
    /\ IdleHoldsNone /\ InsertHolds /\ MadeByWorkers

Same(R, C, Q, D) == R = Q /\ C = D

EventsMove ==
    \/ Same(event, EventClaims, event', EventClaims')
    \/ \E w \in Worker, J \in SUBSET Event :
         Takes(Event, event, EventClaims, event', EventClaims', w, J)
    \/ \E w \in Worker, c \in EventClaim, x \in {"pending", "processed", "dropped", "failed"} :
         Returns(Event, event, EventClaims, event', EventClaims', w, c, x)
    \/ \E J \in SUBSET Event : Adds(Event, event, EventClaims, event', EventClaims', J)
    \/ \E w \in Worker : DropsAll(Event, event, EventClaims, event', EventClaims', w)

DeliveriesMove ==
    \/ Same(delivery, DeliveryClaims, delivery', DeliveryClaims')
    \/ \E w \in Worker, J \in SUBSET Delivery :
         \/ Takes(Delivery, delivery, DeliveryClaims, delivery', DeliveryClaims', w, J)
         \/ Adds(Delivery, delivery, DeliveryClaims, delivery', DeliveryClaims', J)
         \/ \E own \in SUBSET DeliveryClaim :
              CallsOff(Delivery, delivery, DeliveryClaims, delivery', DeliveryClaims', w, J, own)
    \/ \E w \in Worker, c \in DeliveryClaim, x \in {"pending", "delivered", "suppressed", "failed"} :
         Returns(Delivery, delivery, DeliveryClaims, delivery', DeliveryClaims', w, c, x)
    \/ \E w \in Worker :
         DropsAll(Delivery, delivery, DeliveryClaims, delivery', DeliveryClaims', w)

\* A claim that is finished leaves the claims of its own kind.
LEMMA ClaimsLose ==
    ASSUME TypeOK, NEW w \in Worker, NEW c, batch' = [batch EXCEPT ![w] = @ \ {c}]
    PROVE  /\ EventClaims'[w] = EventClaims[w] \ {c}
           /\ DeliveryClaims'[w] = DeliveryClaims[w] \ {c}
           /\ \A v \in Worker : v # w => /\ EventClaims'[v] = EventClaims[v]
                                         /\ DeliveryClaims'[v] = DeliveryClaims[v]
           /\ c \in EventClaim => DeliveryClaims' = DeliveryClaims
           /\ c \in DeliveryClaim => EventClaims' = EventClaims
<1>1. batch'[w] = batch[w] \ {c} /\ \A v \in Worker : v # w => batch'[v] = batch[v]
  BY DEF TypeOK
<1>2. ASSUME NEW Kind, NEW v \in Worker
      PROVE  ClaimsOf(Kind)'[v] = IF v = w THEN ClaimsOf(Kind)[w] \ {c} ELSE ClaimsOf(Kind)[v]
  BY <1>1 DEF ClaimsOf
<1>3. ASSUME NEW Kind, c \notin Kind PROVE ClaimsOf(Kind)' = ClaimsOf(Kind)
  <2>1. \A v \in Worker : batch'[v] \cap Kind = batch[v] \cap Kind
    BY <1>1, <1>3
  <2> QED
    BY <2>1 DEF ClaimsOf
<1> QED
  BY <1>2, <1>3, KindsDiffer DEF EventClaims, DeliveryClaims


\* The events: an entry is enqueued, claimed, or ends; deliveries and people leave
\* them alone.
LEMMA EventsMoveStep == ASSUME LeaseInv, [Next]_vars PROVE EventsMove
<1> USE DEF rows, people, workers, LeaseInv, PushInv
<1>0. ASSUME event' = event, batch' = batch PROVE EventsMove
  BY <1>0 DEF EventsMove, Same, EventClaims, ClaimsOf
<1>1. CASE UNCHANGED vars
  BY <1>0, <1>1 DEF vars
<1>2. ASSUME NEW e \in Event, AddEvent(e) PROVE EventsMove
  <2>1. event[e].attempts = 0 /\ event[e].locked \in BOOLEAN /\ event[e] \in EventRow
    BY <1>2 DEF AddEvent, NumberFences, TypeOK
  <2>2. event'[e].state = "pending" /\ event'[e].attempts = 0 /\ event'[e].locked \in BOOLEAN
    BY <1>2, <2>1 DEF AddEvent, TypeOK, EventRow
  <2>3. Adds(Event, event, EventClaims, event', EventClaims', {e})
    BY <1>2, <2>2 DEF AddEvent, Adds, TypeOK, EventClaims, ClaimsOf
  <2> QED
    BY <2>3 DEF EventsMove
<1>3. CASE Change
  BY <1>0, <1>2, <1>3 DEF Change, Register, Unregister, ChangePreferences, ChangeAccess,
     ChangeGrounds
<1>4. ASSUME NEW w \in Worker, NEW c \in batch[w], ReadRecipients(w, c) \/ CheckEnabled(w, c)
      PROVE  EventsMove
  BY <1>0, <1>4 DEF ReadRecipients, CheckEnabled
<1>5. ASSUME NEW w \in Worker, NEW c \in batch[w], DropEvent(w, c) PROVE EventsMove
  <2>1. c \in EventClaim /\ c.job \in Event /\ event[c.job] \in EventRow
    BY <1>5 DEF DropEvent, Holding, AboutEvents, EventClaim, TypeOK
  <2>2. /\ event'[c.job].state = "dropped" /\ event'[c.job].attempts = event[c.job].attempts
        /\ event'[c.job].locked = FALSE
        /\ \A e \in Event : e # c.job => event'[e] = event[e]
    BY <1>5, <2>1 DEF DropEvent, TypeOK, EventRow
  <2>3. batch' = [batch EXCEPT ![w] = @ \ {c}] /\ Fenced(event[c.job], c)
    BY <1>5 DEF DropEvent, EndEvent
  <2>4. c \in EventClaims[w]
    BY <2>1 DEF EventClaims, ClaimsOf
  <2>5. Returns(Event, event, EventClaims, event', EventClaims', w, c, "dropped")
    BY <2>2, <2>3, <2>4, ClaimsLose DEF Returns
  <2> QED
    BY <2>1, <2>5 DEF EventsMove
<1>6. ASSUME NEW w \in Worker, NEW c \in batch[w], FailEvent(w, c) PROVE EventsMove
  <2> DEFINE x == IF c.attempt >= MaxAttempts THEN "failed" ELSE "pending"
  <2>1. c \in EventClaim /\ c.job \in Event /\ event[c.job] \in EventRow
    BY <1>6 DEF FailEvent, Holding, AboutEvents, EventClaim, TypeOK
  <2>2. /\ event'[c.job] = AfterFailure(event[c.job], c)
        /\ \A e \in Event : e # c.job => event'[e] = event[e]
    BY <1>6, <2>1 DEF FailEvent, TypeOK
  <2>3. IF Fenced(event[c.job], c)
          THEN /\ event'[c.job].state = x /\ event'[c.job].attempts = event[c.job].attempts
               /\ event'[c.job].locked = FALSE
          ELSE event'[c.job] = event[c.job]
    BY <2>1, <2>2 DEF AfterFailure, EventRow
  <2>4. batch' = [batch EXCEPT ![w] = @ \ {c}]
    BY <1>6 DEF FailEvent, EndEvent
  <2>5. c \in EventClaims[w]
    BY <2>1 DEF EventClaims, ClaimsOf
  <2>6. Returns(Event, event, EventClaims, event', EventClaims', w, c, x)
    BY <2>2, <2>3, <2>4, <2>5, ClaimsLose DEF Returns
  <2> QED
    BY <2>1, <2>6 DEF EventsMove
<1>7. ASSUME NEW w \in Worker, CreateDeliveries(w) PROVE EventsMove
  <2> DEFINE c == current[w]
  <2>1. c \in batch[w] /\ c \in EventClaim /\ c.job \in Event /\ event[c.job] \in EventRow
    BY <1>7 DEF CreateDeliveries, Holding, AboutEvents, EventClaim, TypeOK
  <2>2. /\ event'[c.job].state = "processed" /\ event'[c.job].attempts = event[c.job].attempts
        /\ event'[c.job].locked = FALSE
        /\ \A e \in Event : e # c.job => event'[e] = event[e]
    BY <1>7, <2>1 DEF CreateDeliveries, TypeOK, EventRow
  <2>3. batch' = [batch EXCEPT ![w] = @ \ {c}] /\ Fenced(event[c.job], c)
    BY <1>7 DEF CreateDeliveries, EndEvent, InsertHolds
  <2>4. c \in EventClaims[w]
    BY <2>1 DEF EventClaims, ClaimsOf
  <2>5. Returns(Event, event, EventClaims, event', EventClaims', w, c, "processed")
    BY <2>2, <2>3, <2>4, ClaimsLose DEF Returns
  <2> QED
    BY <2>1, <2>5 DEF EventsMove
<1>8. ASSUME NEW w \in Worker,
             \/ ReadIssue(w) \/ CheckAccess(w) \/ PrepareFails(w) \/ EndRun(w)
             \/ \E result \in {"accepted", "rejected", "refused", "error"} : Send(w, result)
      PROVE  EventsMove
  BY <1>0, <1>8 DEF ReadIssue, CheckAccess, PrepareFails, EndRun, Send
<1>9. ASSUME NEW w \in Worker, SettleDelivery(w) \/ FailDelivery(w) \/ DisableRejected(w)
      PROVE  EventsMove
  <2>1. current[w] \in DeliveryClaim /\ event' = event
    BY <1>9 DEF SettleDelivery, FailDelivery, DisableRejected, Holding, AboutDeliveries
  <2>2. batch' = [batch EXCEPT ![w] = @ \ {current[w]}]
    BY <1>9 DEF SettleDelivery, FailDelivery, DisableRejected, EndDelivery
  <2> QED
    BY <2>1, <2>2, ClaimsLose DEF EventsMove, Same
<1>10. ASSUME NEW w \in Worker, NEW E \in SUBSET Event, ClaimEvents(w, E) PROVE EventsMove
  <2> DEFINE claim(e) == [job |-> e, attempt |-> event[e].attempts + 1, to |-> NoUser]
  <2>1. batch[w] = {} /\ batch' = [batch EXCEPT ![w] = {claim(e) : e \in E}]
    BY <1>10 DEF ClaimEvents, IdleHoldsNone
  <2>2. batch'[w] = {claim(e) : e \in E} /\ batch'[w] \subseteq EventClaim
        /\ \A v \in Worker : v # w => batch'[v] = batch[v]
    BY <1>10, <2>1, ClaimEventsEffect DEF TypeOK
  <2>3. /\ EventClaims[w] = {} /\ EventClaims'[w] = {claim(e) : e \in E}
        /\ \A v \in Worker : v # w => EventClaims'[v] = EventClaims[v]
    BY <2>1, <2>2 DEF EventClaims, ClaimsOf
  <2>4. ASSUME NEW e \in E
        PROVE  /\ event[e].state = "pending" /\ event'[e].state = "pending"
               /\ event'[e].attempts = event[e].attempts + 1 /\ event'[e].locked = TRUE
    <3>1. event[e] \in EventRow /\ event[e].state = "pending"
      BY <1>10 DEF ClaimEvents, Claimable, TypeOK
    <3>2. event'[e] = Claimed(event[e])
      BY <1>10 DEF ClaimEvents
    <3> QED
      BY <3>1, <3>2 DEF Claimed, EventRow
  <2>5. \A e \in Event : e \notin E => event'[e] = event[e]
    BY <1>10 DEF ClaimEvents
  <2>6. Takes(Event, event, EventClaims, event', EventClaims', w, E)
    <3>1. \A e \in E : /\ claim(e) \in EventClaims'[w] /\ claim(e).job = e
                       /\ claim(e).attempt = event[e].attempts + 1
      BY <2>3
    <3>2. \A c \in EventClaims'[w] : \E e \in E : c = claim(e)
      BY <2>3
    <3> HIDE DEF claim
    <3>3. /\ \A c \in EventClaims'[w] : c.job \in E /\ c.attempt = event[c.job].attempts + 1
          /\ \A c, b \in EventClaims'[w] : c.job = b.job => c = b
          /\ \A e \in E : \E c \in EventClaims'[w] : c.job = e
      BY ONLY <3>1, <3>2
    <3> QED
      BY <2>3, <2>4, <2>5, <3>3 DEF Takes
  <2> QED
    BY <2>6 DEF EventsMove
<1>11. ASSUME NEW w \in Worker, NEW E \in SUBSET Delivery, ClaimDeliveries(w, E) PROVE EventsMove
  <2>1. /\ batch[w] = {} /\ batch'[w] \subseteq DeliveryClaim /\ event' = event
        /\ \A v \in Worker : v # w => batch'[v] = batch[v]
    BY <1>11, ClaimDeliveriesEffect DEF ClaimDeliveries
  <2>2. EventClaims' = EventClaims
    BY <2>1, KindsDiffer DEF EventClaims, ClaimsOf
  <2> QED
    BY <2>1, <2>2 DEF EventsMove, Same
<1>12. ASSUME NEW w \in Worker, Stop(w) PROVE EventsMove
  <2>1. /\ EventClaims'[w] = {} /\ event' = event
        /\ \A v \in Worker : v # w => EventClaims'[v] = EventClaims[v]
    BY <1>12 DEF Stop, TypeOK, EventClaims, ClaimsOf
  <2>2. DropsAll(Event, event, EventClaims, event', EventClaims', w)
    BY <2>1 DEF DropsAll
  <2> QED
    BY <2>2 DEF EventsMove
<1> QED
  BY <1>1, <1>3, <1>4, <1>5, <1>6, <1>7, <1>8, <1>9, <1>10, <1>11, <1>12
  DEF Next, Progress, Claim

\* A browser's pending deliveries are called off; whoever finds the browser gone
\* drops the delivery it was about.
LEMMA SuppressCallsOff ==
    ASSUME LeaseInv, NEW w \in Worker, NEW s \in Subscription, SuppressPending(s),
           NEW own \in SUBSET DeliveryClaims[w],
           DeliveryClaims'[w] = DeliveryClaims[w] \ own,
           \A v \in Worker : v # w => DeliveryClaims'[v] = DeliveryClaims[v],
           \A c \in own : c.job[2] = s
    PROVE  DeliveriesMove
<1> DEFINE J == {d \in Delivery : d[2] = s /\ delivery[d].state = "pending"}
<1>1. ASSUME NEW d \in Delivery
      PROVE  IF d \in J
               THEN /\ delivery[d].state = "pending" /\ delivery'[d].state = "suppressed"
                    /\ delivery'[d].attempts = delivery[d].attempts
                    /\ delivery'[d].locked = FALSE
               ELSE delivery'[d] = delivery[d]
  <2>1. CASE d \in J
    <3>1. delivery[d] \in DeliveryRow
      BY <2>1 DEF LeaseInv, PushInv, TypeOK, NoDelivery
    <3>2. delivery'[d] = [delivery[d] EXCEPT !.state = "suppressed", !.locked = FALSE]
      BY <2>1 DEF SuppressPending
    <3> QED
      BY <2>1, <3>1, <3>2 DEF DeliveryRow
  <2>2. CASE d \notin J
    BY <2>2 DEF SuppressPending
  <2> QED
    BY <2>1, <2>2
<1>2. own \subseteq DeliveryClaim /\ \A c \in own : c.job \in Delivery
  BY DEF DeliveryClaims, ClaimsOf, DeliveryClaim
<1>3. \A c \in own : delivery[c.job].state = "pending" => c.job \in J
  BY <1>2
<1> HIDE DEF J
<1>4. CallsOff(Delivery, delivery, DeliveryClaims, delivery', DeliveryClaims', w, J, own)
  BY <1>1, <1>3 DEF CallsOff
<1>5. J \in SUBSET Delivery
  BY DEF J
<1> QED
  BY <1>2, <1>4, <1>5 DEF DeliveriesMove

\* The deliveries: they are made with the end of their event, claimed, called off
\* with their browser, or end.
LEMMA DeliveriesMoveStep == ASSUME LeaseInv, [Next]_vars PROVE DeliveriesMove
<1> USE DEF rows, people, workers, LeaseInv, PushInv
<1>0. ASSUME delivery' = delivery, batch' = batch PROVE DeliveriesMove
  BY <1>0 DEF DeliveriesMove, Same, DeliveryClaims, ClaimsOf
<1>1. CASE UNCHANGED vars
  BY <1>0, <1>1 DEF vars
<1>2. ASSUME NEW s \in Subscription, SuppressPending(s), batch' = batch PROVE DeliveriesMove
  <2>1. CASE Worker = {}
    <3>1. \A d \in Delivery : delivery[d].state = "none"
      BY <2>1 DEF MadeByWorkers
    <3>2. delivery' = [d \in Delivery |-> delivery[d]]
      BY <1>2, <3>1 DEF SuppressPending
    <3>3. delivery' = delivery
      BY <3>2 DEF TypeOK
    <3> QED
      BY <1>0, <1>2, <3>3
  <2>2. ASSUME NEW w \in Worker PROVE DeliveriesMove
    <3> DEFINE own == {}
    <3>1. /\ own \in SUBSET DeliveryClaims[w] /\ DeliveryClaims'[w] = DeliveryClaims[w] \ own
          /\ \A v \in Worker : v # w => DeliveryClaims'[v] = DeliveryClaims[v]
          /\ \A c \in own : c.job[2] = s
      BY <1>2 DEF DeliveryClaims, ClaimsOf
    <3> HIDE DEF own, LeaseInv
    <3> QED
      BY <1>2, <3>1, SuppressCallsOff
  <2> QED
    BY <2>1, <2>2
<1>3. CASE Change
  BY <1>0, <1>2, <1>3
  DEF Change, AddEvent, Register, Unregister, ChangePreferences, ChangeAccess,
     ChangeGrounds
<1>4. ASSUME NEW w \in Worker, NEW c \in batch[w], ReadRecipients(w, c) \/ CheckEnabled(w, c)
      PROVE  DeliveriesMove
  BY <1>0, <1>4 DEF ReadRecipients, CheckEnabled
<1>5. ASSUME NEW w \in Worker, NEW c \in batch[w], DropEvent(w, c) \/ FailEvent(w, c)
      PROVE  DeliveriesMove
  <2>1. c \in EventClaim /\ delivery' = delivery
    BY <1>5 DEF DropEvent, FailEvent, Holding, AboutEvents
  <2>2. batch' = [batch EXCEPT ![w] = @ \ {c}]
    BY <1>5 DEF DropEvent, FailEvent, EndEvent
  <2> QED
    BY <2>1, <2>2, ClaimsLose DEF DeliveriesMove, Same
<1>6. ASSUME NEW w \in Worker, CreateDeliveries(w) PROVE DeliveriesMove
  <2> DEFINE J == {d \in Delivery : /\ d[1] = current[w].job /\ found[w][d[2]] # NoUser
                                    /\ delivery[d].state = "none"}
  <2>1. current[w] \in EventClaim /\ batch' = [batch EXCEPT ![w] = @ \ {current[w]}]
    BY <1>6 DEF CreateDeliveries, EndEvent, Holding, AboutEvents
  <2>2. DeliveryClaims' = DeliveryClaims
    BY <2>1, ClaimsLose
  <2>3. \A d \in Delivery : IF d \in J
          THEN /\ delivery[d].state = "none" /\ delivery'[d].state = "pending"
               /\ delivery'[d].attempts = 0 /\ delivery'[d].locked \in BOOLEAN
          ELSE delivery'[d] = delivery[d]
    BY <1>6 DEF CreateDeliveries
  <2> HIDE DEF J
  <2>4. Adds(Delivery, delivery, DeliveryClaims, delivery', DeliveryClaims', J)
    BY <2>2, <2>3 DEF Adds
  <2>5. J \in SUBSET Delivery
    BY DEF J
  <2> QED
    BY <2>4, <2>5 DEF DeliveriesMove
<1>7. ASSUME NEW w \in Worker,
             \/ ReadIssue(w) \/ CheckAccess(w) \/ PrepareFails(w) \/ EndRun(w)
             \/ \E result \in {"accepted", "rejected", "refused", "error"} : Send(w, result)
      PROVE  DeliveriesMove
  BY <1>0, <1>7 DEF ReadIssue, CheckAccess, PrepareFails, EndRun, Send
<1>8. ASSUME NEW w \in Worker, pc[w] = "settle", EndDelivery(w),
             NEW x \in {"pending", "delivered", "suppressed", "failed"},
             NEW r, delivery' = [delivery EXCEPT ![current[w].job] = r],
             IF Fenced(delivery[current[w].job], current[w])
               THEN /\ r.state = x /\ r.attempts = delivery[current[w].job].attempts
                    /\ r.locked = FALSE
               ELSE r = delivery[current[w].job]
      PROVE  DeliveriesMove
  <2> DEFINE c == current[w]
  <2>1. c \in batch[w] /\ c \in DeliveryClaim /\ c.job \in Delivery
    BY <1>8 DEF Holding, AboutDeliveries, DeliveryClaim
  <2>2. delivery'[c.job] = r /\ \A d \in Delivery : d # c.job => delivery'[d] = delivery[d]
    BY <1>8, <2>1 DEF TypeOK
  <2>3. c \in DeliveryClaims[w]
    BY <2>1 DEF DeliveryClaims, ClaimsOf
  <2>4. Returns(Delivery, delivery, DeliveryClaims, delivery', DeliveryClaims', w, c, x)
    BY <1>8, <2>2, <2>3, ClaimsLose DEF Returns, EndDelivery
  <2> QED
    BY <2>1, <2>4 DEF DeliveriesMove
<1>9. ASSUME NEW w \in Worker, SettleDelivery(w) PROVE DeliveriesMove
  <2> DEFINE x == CASE outcome[w] = "accepted" -> "delivered"
                    [] outcome[w] = "unauthorized" -> "suppressed"
                    [] OTHER -> "failed"
             row == delivery[current[w].job]
             r == Settled(row, current[w], x)
  <2>1. row \in DeliveryRow
    BY <1>9 DEF SettleDelivery, Holding, AboutDeliveries, DeliveryClaim, TypeOK, NoDelivery
  <2>2. IF Fenced(row, current[w])
          THEN r.state = x /\ r.attempts = row.attempts /\ r.locked = FALSE ELSE r = row
    BY <2>1 DEF Settled, DeliveryRow
  <2>3. x \in {"pending", "delivered", "suppressed", "failed"}
    OBVIOUS
  <2>4. pc[w] = "settle" /\ EndDelivery(w) /\ delivery' = [delivery EXCEPT ![current[w].job] = r]
    BY <1>9 DEF SettleDelivery
  <2> HIDE DEF x, r
  <2> QED
    BY <1>8, <2>2, <2>3, <2>4
<1>10. ASSUME NEW w \in Worker, FailDelivery(w) PROVE DeliveriesMove
  <2> DEFINE x == IF current[w].attempt >= MaxAttempts THEN "failed" ELSE "pending"
             row == delivery[current[w].job]
             r == AfterFailure(row, current[w])
  <2>1. row \in DeliveryRow
    BY <1>10 DEF FailDelivery, Holding, AboutDeliveries, DeliveryClaim, TypeOK, NoDelivery
  <2>2. IF Fenced(row, current[w])
          THEN r.state = x /\ r.attempts = row.attempts /\ r.locked = FALSE ELSE r = row
    BY <2>1 DEF AfterFailure, DeliveryRow
  <2>3. x \in {"pending", "delivered", "suppressed", "failed"}
    OBVIOUS
  <2>4. pc[w] = "settle" /\ EndDelivery(w) /\ delivery' = [delivery EXCEPT ![current[w].job] = r]
    BY <1>10 DEF FailDelivery
  <2> HIDE DEF x, r
  <2> QED
    BY <1>8, <2>2, <2>3, <2>4
<1>11. ASSUME NEW w \in Worker, DisableRejected(w) PROVE DeliveriesMove
  <2>1. /\ current[w] \in batch[w] /\ current[w] \in DeliveryClaim
        /\ current[w].job[2] \in Subscription
    BY <1>11 DEF DisableRejected, Holding, AboutDeliveries, DeliveryClaim, Delivery
  <2>2. SuppressPending(current[w].job[2]) /\ batch' = [batch EXCEPT ![w] = @ \ {current[w]}]
    BY <1>11 DEF DisableRejected, EndDelivery
  <2>3. current[w] \in DeliveryClaims[w]
    BY <2>1 DEF DeliveryClaims, ClaimsOf
  <2> DEFINE own == {current[w]}
  <2>4. /\ own \in SUBSET DeliveryClaims[w] /\ DeliveryClaims'[w] = DeliveryClaims[w] \ own
        /\ \A v \in Worker : v # w => DeliveryClaims'[v] = DeliveryClaims[v]
        /\ \A c \in own : c.job[2] = current[w].job[2]
    BY <2>2, <2>3, ClaimsLose
  <2> HIDE DEF own, LeaseInv
  <2> QED
    BY <2>1, <2>2, <2>4, SuppressCallsOff
<1>12. ASSUME NEW w \in Worker, NEW E \in SUBSET Event, ClaimEvents(w, E) PROVE DeliveriesMove
  <2>1. /\ batch[w] = {} /\ batch'[w] \subseteq EventClaim /\ delivery' = delivery
        /\ \A v \in Worker : v # w => batch'[v] = batch[v]
    BY <1>12, ClaimEventsEffect DEF ClaimEvents, IdleHoldsNone
  <2>2. DeliveryClaims' = DeliveryClaims
    BY <2>1, KindsDiffer DEF DeliveryClaims, ClaimsOf
  <2> QED
    BY <2>1, <2>2 DEF DeliveriesMove, Same
<1>13. ASSUME NEW w \in Worker, NEW J \in SUBSET Delivery, ClaimDeliveries(w, J)
       PROVE  DeliveriesMove
  <2> DEFINE claim(d) == [job |-> d, attempt |-> delivery[d].attempts + 1,
                          to |-> subscription[d[2]].user]
  <2>1. batch[w] = {} /\ batch' = [batch EXCEPT ![w] = {claim(d) : d \in J}]
    BY <1>13 DEF ClaimDeliveries
  <2>2. batch'[w] = {claim(d) : d \in J} /\ batch'[w] \subseteq DeliveryClaim
        /\ \A v \in Worker : v # w => batch'[v] = batch[v]
    BY <1>13, <2>1, ClaimDeliveriesEffect DEF TypeOK
  <2>3. /\ DeliveryClaims[w] = {} /\ DeliveryClaims'[w] = {claim(d) : d \in J}
        /\ \A v \in Worker : v # w => DeliveryClaims'[v] = DeliveryClaims[v]
    BY <2>1, <2>2 DEF DeliveryClaims, ClaimsOf
  <2>4. ASSUME NEW d \in J
        PROVE  /\ delivery[d].state = "pending" /\ delivery'[d].state = "pending"
               /\ delivery'[d].attempts = delivery[d].attempts + 1
               /\ delivery'[d].locked = TRUE
    <3>1. delivery[d].state = "pending"
      BY <1>13 DEF ClaimDeliveries, Claimable
    <3>2. delivery[d] \in DeliveryRow
      BY <3>1 DEF TypeOK, NoDelivery
    <3>3. delivery'[d] = Claimed(delivery[d])
      BY <1>13 DEF ClaimDeliveries
    <3> QED
      BY <3>1, <3>2, <3>3 DEF Claimed, DeliveryRow
  <2>5. \A d \in Delivery : d \notin J => delivery'[d] = delivery[d]
    BY <1>13 DEF ClaimDeliveries
  <2>6. Takes(Delivery, delivery, DeliveryClaims, delivery', DeliveryClaims', w, J)
    <3>1. \A d \in J : /\ claim(d) \in DeliveryClaims'[w] /\ claim(d).job = d
                       /\ claim(d).attempt = delivery[d].attempts + 1
      BY <2>3
    <3>2. \A c \in DeliveryClaims'[w] : \E d \in J : c = claim(d)
      BY <2>3
    <3> HIDE DEF claim
    <3>3. /\ \A c \in DeliveryClaims'[w] : c.job \in J /\ c.attempt = delivery[c.job].attempts + 1
          /\ \A c, b \in DeliveryClaims'[w] : c.job = b.job => c = b
          /\ \A d \in J : \E c \in DeliveryClaims'[w] : c.job = d
      BY ONLY <3>1, <3>2
    <3> QED
      BY <2>3, <2>4, <2>5, <3>3 DEF Takes
  <2> QED
    BY <2>6 DEF DeliveriesMove
<1>14. ASSUME NEW w \in Worker, Stop(w) PROVE DeliveriesMove
  <2>1. /\ DeliveryClaims'[w] = {} /\ delivery' = delivery
        /\ \A v \in Worker : v # w => DeliveryClaims'[v] = DeliveryClaims[v]
    BY <1>14 DEF Stop, TypeOK, DeliveryClaims, ClaimsOf
  <2>2. DropsAll(Delivery, delivery, DeliveryClaims, delivery', DeliveryClaims', w)
    BY <2>1 DEF DropsAll
  <2> QED
    BY <2>2 DEF DeliveriesMove
<1> QED
  BY <1>1, <1>3, <1>4, <1>5, <1>6, <1>7, <1>9, <1>10, <1>11, <1>12, <1>13, <1>14
  DEF Next, Progress, Claim

LEMMA MovesFence ==
    ASSUME LeaseInv, EventsMove, DeliveriesMove
    PROVE  /\ NumberFences(Event, event', EventClaims')
           /\ NumberFences(Delivery, delivery', DeliveryClaims')
<1>1. NumberFences(Event, event', EventClaims')
  <2>1. CASE Same(event, EventClaims, event', EventClaims')
    BY <2>1 DEF Same, LeaseInv
  <2>2. ASSUME NEW w \in Worker, NEW J \in SUBSET Event,
               Takes(Event, event, EventClaims, event', EventClaims', w, J)
        PROVE  NumberFences(Event, event', EventClaims')
    BY <2>2, TakesFences DEF LeaseInv
  <2>3. ASSUME NEW w \in Worker, NEW c \in EventClaim,
               NEW x \in {"pending", "processed", "dropped", "failed"},
               Returns(Event, event, EventClaims, event', EventClaims', w, c, x)
        PROVE  NumberFences(Event, event', EventClaims')
    <3>1. x # "none"
      OBVIOUS
    <3> QED
      BY <2>3, <3>1, ReturnsFences DEF LeaseInv
  <2>4. ASSUME NEW J \in SUBSET Event, Adds(Event, event, EventClaims, event', EventClaims', J)
        PROVE  NumberFences(Event, event', EventClaims')
    BY <2>4, AddsFences DEF LeaseInv
  <2>5. ASSUME NEW w \in Worker, DropsAll(Event, event, EventClaims, event', EventClaims', w)
        PROVE  NumberFences(Event, event', EventClaims')
    BY <2>5, DropsAllFences DEF LeaseInv
  <2> QED
    BY <2>1, <2>2, <2>3, <2>4, <2>5 DEF EventsMove
<1>2. NumberFences(Delivery, delivery', DeliveryClaims')
  <2>1. CASE Same(delivery, DeliveryClaims, delivery', DeliveryClaims')
    BY <2>1 DEF Same, LeaseInv
  <2>2. ASSUME NEW w \in Worker, NEW J \in SUBSET Delivery,
               Takes(Delivery, delivery, DeliveryClaims, delivery', DeliveryClaims', w, J)
        PROVE  NumberFences(Delivery, delivery', DeliveryClaims')
    BY <2>2, TakesFences DEF LeaseInv
  <2>3. ASSUME NEW w \in Worker, NEW c \in DeliveryClaim,
               NEW x \in {"pending", "delivered", "suppressed", "failed"},
               Returns(Delivery, delivery, DeliveryClaims, delivery', DeliveryClaims', w, c, x)
        PROVE  NumberFences(Delivery, delivery', DeliveryClaims')
    <3>1. x # "none"
      OBVIOUS
    <3> QED
      BY <2>3, <3>1, ReturnsFences DEF LeaseInv
  <2>4. ASSUME NEW J \in SUBSET Delivery,
               Adds(Delivery, delivery, DeliveryClaims, delivery', DeliveryClaims', J)
        PROVE  NumberFences(Delivery, delivery', DeliveryClaims')
    BY <2>4, AddsFences DEF LeaseInv
  <2>5. ASSUME NEW w \in Worker, NEW J \in SUBSET Delivery, NEW own \in SUBSET DeliveryClaim,
               CallsOff(Delivery, delivery, DeliveryClaims, delivery', DeliveryClaims', w, J, own)
        PROVE  NumberFences(Delivery, delivery', DeliveryClaims')
    BY <2>5, CallsOffFences DEF LeaseInv
  <2>6. ASSUME NEW w \in Worker,
               DropsAll(Delivery, delivery, DeliveryClaims, delivery', DeliveryClaims', w)
        PROVE  NumberFences(Delivery, delivery', DeliveryClaims')
    BY <2>6, DropsAllFences DEF LeaseInv
  <2> QED
    BY <2>1, <2>2, <2>3, <2>4, <2>5, <2>6 DEF DeliveriesMove
<1> QED
  BY <1>1, <1>2

LEMMA IdleHoldsNoneStep == ASSUME LeaseInv, [Next]_vars PROVE IdleHoldsNone'
<1> USE DEF rows, people, workers, LeaseInv, PushInv, TypeOK, IdleHoldsNone
<1>1. CASE UNCHANGED vars \/ Change
  <2>1. ASSUME NEW u \in User, ChangeAccess(u) \/ ChangeGrounds(u) PROVE IdleHoldsNone'
    BY <2>1, RightsMove
  <2> QED
    BY <1>1, <2>1 DEF vars, Change, AddEvent, Register, Unregister, ChangePreferences
<1>2. ASSUME NEW w \in Worker, NEW c \in batch[w],
             ReadRecipients(w, c) \/ DropEvent(w, c) \/ FailEvent(w, c) \/ CheckEnabled(w, c)
      PROVE  IdleHoldsNone'
  BY <1>2 DEF ReadRecipients, DropEvent, FailEvent, CheckEnabled, EndEvent, Finish, Goto
<1>3. ASSUME NEW w \in Worker,
             \/ CreateDeliveries(w) \/ ReadIssue(w) \/ CheckAccess(w) \/ PrepareFails(w) \/ EndRun(w)
             \/ \E result \in {"accepted", "rejected", "refused", "error"} : Send(w, result)
             \/ Stop(w)
      PROVE  IdleHoldsNone'
  BY <1>3 DEF CreateDeliveries, ReadIssue, CheckAccess, PrepareFails, EndRun, Send, Stop, EndEvent,
     Finish, Goto
<1>4. ASSUME NEW w \in Worker, SettleDelivery(w) \/ FailDelivery(w) \/ DisableRejected(w)
      PROVE  IdleHoldsNone'
  BY <1>4 DEF SettleDelivery, FailDelivery, DisableRejected, EndDelivery, Goto
<1>5. ASSUME NEW w \in Worker, Claim(w) PROVE IdleHoldsNone'
  BY <1>5 DEF Claim, ClaimEvents, ClaimDeliveries, Goto
<1> QED
  BY <1>1, <1>2, <1>3, <1>4, <1>5 DEF Next, Progress

\* The row of a worker that makes deliveries is locked in the database: nobody
\* claims it or ends it meanwhile.
LEMMA InsertHoldsStep == ASSUME LeaseInv, [Next]_vars PROVE InsertHolds'
<1> USE DEF rows, people, workers, LeaseInv, PushInv, TypeOK, InsertHolds
<1>1. CASE UNCHANGED vars \/ Change
  <2>1. ASSUME event' = event, pc' = pc, current' = current, found' = found PROVE InsertHolds'
    BY <2>1
  <2>2. ASSUME NEW e \in Event, AddEvent(e) PROVE InsertHolds'
    BY <2>2 DEF AddEvent, Fenced
  <2>3. ASSUME NEW u \in User, ChangeAccess(u) \/ ChangeGrounds(u) PROVE InsertHolds'
    BY <2>3, RightsMove
  <2> QED
    BY <1>1, <2>1, <2>2, <2>3 DEF vars, Change, Register, Unregister, ChangePreferences
<1>2. ASSUME NEW w \in Worker, NEW c \in batch[w], ReadRecipients(w, c) \/ CheckEnabled(w, c)
      PROVE  InsertHolds'
  BY <1>2 DEF ReadRecipients, CheckEnabled, Finish, Goto
<1>3. ASSUME NEW w \in Worker, NEW c \in batch[w], DropEvent(w, c) \/ FailEvent(w, c)
      PROVE  InsertHolds'
  <2>1. \A v \in Worker : pc[v] = "insert" /\ v # w => current[v].job # c.job
    BY <1>3 DEF DropEvent, FailEvent, RowLocked, OneMaterialises
  <2>2. \A e \in Event : e # c.job => event'[e] = event[e]
    BY <1>3 DEF DropEvent, FailEvent
  <2>3. \A v \in Worker : pc'[v] = "insert" => v # w /\ pc[v] = "insert" /\ current'[v] = current[v]
    BY <1>3 DEF DropEvent, FailEvent, EndEvent, Goto
  <2>4. \A v \in Worker : pc[v] = "insert" => current[v].job \in Event
    BY DEF Holding, AboutEvents, EventClaim
  <2> QED
    BY <2>1, <2>2, <2>3, <2>4
<1>4. ASSUME NEW w \in Worker, CreateDeliveries(w) PROVE InsertHolds'
  <2>1. \A v \in Worker : pc[v] = "insert" /\ v # w => current[v].job # current[w].job
    BY <1>4 DEF CreateDeliveries, OneMaterialises
  <2>2. \A e \in Event : e # current[w].job => event'[e] = event[e]
    BY <1>4 DEF CreateDeliveries
  <2>3. \A v \in Worker : pc'[v] = "insert" => v # w /\ pc[v] = "insert" /\ current'[v] = current[v]
    BY <1>4 DEF CreateDeliveries, EndEvent, Goto
  <2>4. \A v \in Worker : pc[v] = "insert" => current[v].job \in Event
    BY DEF Holding, AboutEvents, EventClaim
  <2> QED
    BY <2>1, <2>2, <2>3, <2>4
<1>5. ASSUME NEW w \in Worker,
             \/ ReadIssue(w) \/ CheckAccess(w) \/ PrepareFails(w) \/ EndRun(w)
             \/ \E result \in {"accepted", "rejected", "refused", "error"} : Send(w, result)
             \/ Stop(w)
      PROVE  InsertHolds'
  BY <1>5 DEF ReadIssue, CheckAccess, PrepareFails, EndRun, Send, Stop, Finish, Goto
<1>6. ASSUME NEW w \in Worker, SettleDelivery(w) \/ FailDelivery(w) \/ DisableRejected(w)
      PROVE  InsertHolds'
  BY <1>6 DEF SettleDelivery, FailDelivery, DisableRejected, EndDelivery, Goto
<1>7. ASSUME NEW w \in Worker, NEW E \in SUBSET Event, ClaimEvents(w, E) PROVE InsertHolds'
  <2>1. \A v \in Worker : pc[v] = "insert" => current[v].job \in Event \ E
    BY <1>7 DEF ClaimEvents, RowLocked, Holding, AboutEvents, EventClaim
  <2>2. \A e \in Event \ E : event'[e] = event[e]
    BY <1>7 DEF ClaimEvents
  <2>3. \A v \in Worker : pc'[v] = "insert" => pc[v] = "insert" /\ current'[v] = current[v]
    BY <1>7 DEF ClaimEvents, Goto
  <2> QED
    BY <2>1, <2>2, <2>3
<1>8. ASSUME NEW w \in Worker, NEW D \in SUBSET Delivery, ClaimDeliveries(w, D)
      PROVE  InsertHolds'
  BY <1>8 DEF ClaimDeliveries, Goto
<1> QED
  BY <1>1, <1>2, <1>3, <1>4, <1>5, <1>6, <1>7, <1>8 DEF Next, Progress, Claim

LEMMA LeaseInvInit == Init => LeaseInv
<1> SUFFICES ASSUME Init PROVE LeaseInv
  OBVIOUS
<1>1. \A w \in Worker : EventClaims[w] = {} /\ DeliveryClaims[w] = {}
  BY DEF Init, EventClaims, DeliveryClaims, ClaimsOf
<1>2. /\ NumberFences(Event, event, EventClaims)
      /\ NumberFences(Delivery, delivery, DeliveryClaims)
  BY <1>1 DEF Init, NumberFences, Claims, NoEvent, NoDelivery
<1>3. IdleHoldsNone /\ InsertHolds /\ MadeByWorkers
  BY DEF Init, IdleHoldsNone, InsertHolds, MadeByWorkers, NoDelivery
<1> QED
  BY <1>2, <1>3, PushInvInit DEF LeaseInv

LEMMA LeaseInvStep == LeaseInv /\ [Next]_vars => LeaseInv'
<1> SUFFICES ASSUME LeaseInv, [Next]_vars PROVE LeaseInv'
  OBVIOUS
<1>1. EventsMove /\ DeliveriesMove
  BY EventsMoveStep, DeliveriesMoveStep
<1>2. PushInv'
  BY TypeOKStep, HoldingStep, OneMaterialisesStep, MadeAtTheEndStep, SteadyRecipientsStep,
     SteadyFoundStep, SteadyServedStep, NoneTurnedAwayStep DEF PushInv, LeaseInv
<1>3. MadeByWorkers'
  BY <1>1 DEF DeliveriesMove, Same, MadeByWorkers, LeaseInv
<1> QED
  BY <1>1, <1>2, <1>3, MovesFence, IdleHoldsNoneStep, InsertHoldsStep DEF LeaseInv

-------------------------------------------------------------------------------
(* The leased queues *)

LEMMA EventQueueMoves ==
    ASSUME NEW w \in Worker, NEW J, NEW p, NEW L, NEW h, NEW own,
           QueueMoves(Event, event, EventClaims, event', EventClaims', J, p, L, h, w, own)
    PROVE  /\ EventQueue!Become(J, p) /\ EventQueue!LeaseTo(L, h)
           /\ JobsOf(EventClaims)' = [JobsOf(EventClaims) EXCEPT ![w] = own]
<1>1. EventQueue!Become(J, p) /\ EventQueue!LeaseTo(L, h)
  BY DEF QueueMoves, EventClaims, EventQueue!Become, EventQueue!LeaseTo
<1>2. JobsOf(EventClaims)' = [JobsOf(EventClaims) EXCEPT ![w] = own]
  BY DEF QueueMoves, JobsOf
<1> QED
  BY <1>1, <1>2

LEMMA DeliveryQueueMoves ==
    ASSUME NEW w \in Worker, NEW J, NEW p, NEW L, NEW h, NEW own,
           QueueMoves(Delivery, delivery, DeliveryClaims, delivery', DeliveryClaims',
                      J, p, L, h, w, own)
    PROVE  /\ DeliveryQueue!Become(J, p) /\ DeliveryQueue!LeaseTo(L, h)
           /\ JobsOf(DeliveryClaims)' = [JobsOf(DeliveryClaims) EXCEPT ![w] = own]
<1>1. DeliveryQueue!Become(J, p) /\ DeliveryQueue!LeaseTo(L, h)
  BY DEF QueueMoves, DeliveryClaims, DeliveryQueue!Become, DeliveryQueue!LeaseTo
<1>2. JobsOf(DeliveryClaims)' = [JobsOf(DeliveryClaims) EXCEPT ![w] = own]
  BY DEF QueueMoves, JobsOf
<1> QED
  BY <1>1, <1>2

\* What happens to the events is a step of their queue, or none.
LEMMA EventQueueStep ==
    ASSUME LeaseInv, EventsMove PROVE [EventQueue!Next]_(EventQueue!vars)
<1>0. NumberFences(Event, event, EventClaims)
  BY DEF LeaseInv
<1>1. CASE Same(event, EventClaims, event', EventClaims')
  BY <1>1 DEF Same, EventQueue!vars, EventClaims
<1>2. ASSUME NEW w \in Worker, NEW J \in SUBSET Event,
             Takes(Event, event, EventClaims, event', EventClaims', w, J)
      PROVE  EventQueue!Next
  <2>1. /\ \A j \in J : Phase(event[j].state) = "open"
        /\ QueueMoves(Event, event, EventClaims, event', EventClaims', {}, "open", J, w,
                      w, JobsOf(EventClaims)[w] \cup J)
    BY <1>0, <1>2, TakesMoves
  <2>2. EventQueue!Claim(w, J)
    BY <2>1, EventQueueMoves
    DEF EventQueue!Claim, EventQueue!Become, EventQueue!LeaseTo, EventClaims
  <2> QED
    BY <2>2 DEF EventQueue!Next
<1>3. ASSUME NEW w \in Worker, NEW c \in EventClaim,
             NEW x \in {"pending", "processed", "dropped", "failed"},
             Returns(Event, event, EventClaims, event', EventClaims', w, c, x)
      PROVE  EventQueue!Next
  <2> DEFINE row == event[c.job]
             moved == IF Fenced(row, c) THEN {c.job} ELSE {}
  <2>1. /\ c.job \in Event /\ c.job \in JobsOf(EventClaims)[w]
        /\ Leaseholder(row, c.job, EventClaims) = w <=> Fenced(row, c)
        /\ QueueMoves(Event, event, EventClaims, event', EventClaims', moved, Phase(x), moved,
                      NoWorker, w, JobsOf(EventClaims)[w] \ {c.job})
    BY <1>0, <1>3, ReturnsMoves
  <2>2. /\ EventQueue!Become(moved, Phase(x)) /\ EventQueue!LeaseTo(moved, NoWorker)
        /\ EventQueue!Drop(w, {c.job})
    BY <2>1, EventQueueMoves DEF EventQueue!Drop, EventClaims
  <2>3. CASE Fenced(row, c) /\ x = "pending"
    <3>1. EventQueue!Become({}, "open")
      BY <2>2, <2>3 DEF EventQueue!Become, Phase, Fenced
    <3>2. EventQueue!Leave(w, {c.job})
      BY <2>1, <2>2, <2>3, <3>1
      DEF EventQueue!Leave, EventQueue!Become, EventQueue!LeaseTo, EventClaims
    <3> QED
      BY <2>1, <3>2 DEF EventQueue!Next
  <2>4. CASE Fenced(row, c) /\ x \in {"processed", "dropped", "failed"}
    <3>1. Phase(x) = "settled"
      BY <2>4 DEF Phase
    <3>2. EventQueue!Settle(w, c.job)
      BY <2>1, <2>2, <2>4, <3>1 DEF EventQueue!Settle, EventClaims
    <3> QED
      BY <2>1, <3>2 DEF EventQueue!Next
  <2>5. CASE ~Fenced(row, c)
    <3>1. EventQueue!Leave(w, {c.job})
      BY <2>1, <2>2, <2>5
      DEF EventQueue!Leave, EventQueue!Become, EventQueue!LeaseTo, EventClaims
    <3> QED
      BY <2>1, <3>1 DEF EventQueue!Next
  <2> QED
    BY <2>3, <2>4, <2>5
<1>4. ASSUME NEW J \in SUBSET Event, Adds(Event, event, EventClaims, event', EventClaims', J)
      PROVE  EventQueue!Next
  <2>1. ASSUME NEW w
        PROVE  /\ \A j \in J : Phase(event[j].state) = "absent"
               /\ QueueMoves(Event, event, EventClaims, event', EventClaims', J, "open", {},
                             NoWorker, w, JobsOf(EventClaims)[w])
    BY <1>0, <1>4, AddsMoves
  <2>2. EventQueue!Enqueue(J)
    BY <2>1
    DEF QueueMoves, JobsOf, EventQueue!Enqueue, EventQueue!Become, EventQueue!LeaseTo, EventClaims
  <2> QED
    BY <2>2 DEF EventQueue!Next
<1>5. ASSUME NEW w \in Worker, DropsAll(Event, event, EventClaims, event', EventClaims', w)
      PROVE  EventQueue!Next
  <2> DEFINE J == JobsOf(EventClaims)[w]
             held == {j \in J : Leaseholder(event[j], j, EventClaims) = w}
  <2>1. QueueMoves(Event, event, EventClaims, event', EventClaims', {}, "open", held, NoWorker, w, {})
    BY <1>0, <1>5, DropsAllMoves
  <2>2. J \in SUBSET Event
    BY <1>0 DEF NumberFences, Claims, JobsOf
  <2>3. /\ EventQueue!Become({}, "open") /\ EventQueue!LeaseTo(held, NoWorker)
        /\ EventQueue!Drop(w, J)
    BY <2>1, EventQueueMoves DEF EventQueue!Drop, EventClaims
  <2>4. EventQueue!Leave(w, J)
    BY <2>2, <2>3 DEF EventQueue!Leave, EventQueue!Become, EventQueue!LeaseTo, EventClaims
  <2> QED
    BY <2>2, <2>4 DEF EventQueue!Next
<1> QED
  BY <1>1, <1>2, <1>3, <1>4, <1>5 DEF EventsMove

\* So is what happens to the deliveries.
LEMMA DeliveryQueueStep ==
    ASSUME LeaseInv, DeliveriesMove PROVE [DeliveryQueue!Next]_(DeliveryQueue!vars)
<1>0. NumberFences(Delivery, delivery, DeliveryClaims)
  BY DEF LeaseInv
<1>1. CASE Same(delivery, DeliveryClaims, delivery', DeliveryClaims')
  BY <1>1 DEF Same, DeliveryQueue!vars, DeliveryClaims
<1>2. ASSUME NEW w \in Worker, NEW J \in SUBSET Delivery,
             Takes(Delivery, delivery, DeliveryClaims, delivery', DeliveryClaims', w, J)
      PROVE  DeliveryQueue!Next
  <2>1. /\ \A j \in J : Phase(delivery[j].state) = "open"
        /\ QueueMoves(Delivery, delivery, DeliveryClaims, delivery', DeliveryClaims', {}, "open", J, w,
                      w, JobsOf(DeliveryClaims)[w] \cup J)
    BY <1>0, <1>2, TakesMoves
  <2>2. DeliveryQueue!Claim(w, J)
    BY <2>1, DeliveryQueueMoves
    DEF DeliveryQueue!Claim, DeliveryQueue!Become, DeliveryQueue!LeaseTo, DeliveryClaims
  <2> QED
    BY <2>2 DEF DeliveryQueue!Next
<1>3. ASSUME NEW w \in Worker, NEW c \in DeliveryClaim,
             NEW x \in {"pending", "delivered", "suppressed", "failed"},
             Returns(Delivery, delivery, DeliveryClaims, delivery', DeliveryClaims', w, c, x)
      PROVE  DeliveryQueue!Next
  <2> DEFINE row == delivery[c.job]
             moved == IF Fenced(row, c) THEN {c.job} ELSE {}
  <2>1. /\ c.job \in Delivery /\ c.job \in JobsOf(DeliveryClaims)[w]
        /\ Leaseholder(row, c.job, DeliveryClaims) = w <=> Fenced(row, c)
        /\ QueueMoves(Delivery, delivery, DeliveryClaims, delivery', DeliveryClaims', moved, Phase(x), moved,
                      NoWorker, w, JobsOf(DeliveryClaims)[w] \ {c.job})
    BY <1>0, <1>3, ReturnsMoves
  <2>2. /\ DeliveryQueue!Become(moved, Phase(x)) /\ DeliveryQueue!LeaseTo(moved, NoWorker)
        /\ DeliveryQueue!Drop(w, {c.job})
    BY <2>1, DeliveryQueueMoves DEF DeliveryQueue!Drop, DeliveryClaims
  <2>3. CASE Fenced(row, c) /\ x = "pending"
    <3>1. DeliveryQueue!Become({}, "open")
      BY <2>2, <2>3 DEF DeliveryQueue!Become, Phase, Fenced
    <3>2. DeliveryQueue!Leave(w, {c.job})
      BY <2>1, <2>2, <2>3, <3>1
      DEF DeliveryQueue!Leave, DeliveryQueue!Become, DeliveryQueue!LeaseTo, DeliveryClaims
    <3> QED
      BY <2>1, <3>2 DEF DeliveryQueue!Next
  <2>4. CASE Fenced(row, c) /\ x \in {"delivered", "failed"}
    <3>1. Phase(x) = "settled"
      BY <2>4 DEF Phase
    <3>2. DeliveryQueue!Settle(w, c.job)
      BY <2>1, <2>2, <2>4, <3>1 DEF DeliveryQueue!Settle, DeliveryClaims
    <3> QED
      BY <2>1, <3>2 DEF DeliveryQueue!Next
  <2>5. CASE Fenced(row, c) /\ x = "suppressed"
    <3>1. Phase(x) = "cancelled" /\ Phase(row.state) = "open"
      BY <2>5 DEF Phase, Fenced
    <3>2. DeliveryQueue!Cancel(w, {c.job}, {c.job})
      BY <2>1, <2>2, <2>5, <3>1 DEF DeliveryQueue!Cancel, DeliveryClaims
    <3> QED
      BY <2>1, <3>2 DEF DeliveryQueue!Next
  <2>6. CASE ~Fenced(row, c)
    <3>1. DeliveryQueue!Leave(w, {c.job})
      BY <2>1, <2>2, <2>6
      DEF DeliveryQueue!Leave, DeliveryQueue!Become, DeliveryQueue!LeaseTo, DeliveryClaims
    <3> QED
      BY <2>1, <3>1 DEF DeliveryQueue!Next
  <2> QED
    BY <2>3, <2>4, <2>5, <2>6
<1>4. ASSUME NEW J \in SUBSET Delivery, Adds(Delivery, delivery, DeliveryClaims, delivery', DeliveryClaims', J)
      PROVE  DeliveryQueue!Next
  <2>1. ASSUME NEW w
        PROVE  /\ \A j \in J : Phase(delivery[j].state) = "absent"
               /\ QueueMoves(Delivery, delivery, DeliveryClaims, delivery', DeliveryClaims', J, "open", {},
                             NoWorker, w, JobsOf(DeliveryClaims)[w])
    BY <1>0, <1>4, AddsMoves
  <2>2. DeliveryQueue!Enqueue(J)
    BY <2>1
    DEF QueueMoves, JobsOf, DeliveryQueue!Enqueue, DeliveryQueue!Become, DeliveryQueue!LeaseTo, DeliveryClaims
  <2> QED
    BY <2>2 DEF DeliveryQueue!Next
<1>5. ASSUME NEW w \in Worker, DropsAll(Delivery, delivery, DeliveryClaims, delivery', DeliveryClaims', w)
      PROVE  DeliveryQueue!Next
  <2> DEFINE J == JobsOf(DeliveryClaims)[w]
             held == {j \in J : Leaseholder(delivery[j], j, DeliveryClaims) = w}
  <2>1. QueueMoves(Delivery, delivery, DeliveryClaims, delivery', DeliveryClaims', {}, "open", held, NoWorker, w, {})
    BY <1>0, <1>5, DropsAllMoves
  <2>2. J \in SUBSET Delivery
    BY <1>0 DEF NumberFences, Claims, JobsOf
  <2>3. /\ DeliveryQueue!Become({}, "open") /\ DeliveryQueue!LeaseTo(held, NoWorker)
        /\ DeliveryQueue!Drop(w, J)
    BY <2>1, DeliveryQueueMoves DEF DeliveryQueue!Drop, DeliveryClaims
  <2>4. DeliveryQueue!Leave(w, J)
    BY <2>2, <2>3 DEF DeliveryQueue!Leave, DeliveryQueue!Become, DeliveryQueue!LeaseTo, DeliveryClaims
  <2> QED
    BY <2>2, <2>4 DEF DeliveryQueue!Next
<1>6. ASSUME NEW w \in Worker, NEW J \in SUBSET Delivery, NEW own \in SUBSET DeliveryClaim,
             CallsOff(Delivery, delivery, DeliveryClaims, delivery', DeliveryClaims', w, J, own)
      PROVE  DeliveryQueue!Next
  <2> DEFINE jobs == {c.job : c \in own}
  <2>1. /\ \A j \in J : Phase(delivery[j].state) = "open"
        /\ jobs \subseteq JobsOf(DeliveryClaims)[w]
        /\ \A j \in jobs : Leaseholder(delivery[j], j, DeliveryClaims) = w => j \in J
        /\ QueueMoves(Delivery, delivery, DeliveryClaims, delivery', DeliveryClaims', J, "cancelled", J, NoWorker,
                      w, JobsOf(DeliveryClaims)[w] \ jobs)
    BY <1>0, <1>6, CallsOffMoves
  <2>2. jobs \in SUBSET Delivery
    BY DEF DeliveryClaim
  <2> HIDE DEF jobs
  <2>3. /\ DeliveryQueue!Become(J, "cancelled") /\ DeliveryQueue!LeaseTo(J, NoWorker)
        /\ DeliveryQueue!Drop(w, jobs)
    BY <2>1, DeliveryQueueMoves DEF DeliveryQueue!Drop, DeliveryClaims
  <2>4. DeliveryQueue!Cancel(w, J, jobs)
    BY <2>1, <2>2, <2>3 DEF DeliveryQueue!Cancel, DeliveryClaims
  <2> QED
    BY <2>2, <2>4 DEF DeliveryQueue!Next
<1> QED
  BY <1>1, <1>2, <1>3, <1>4, <1>5, <1>6 DEF DeliveriesMove

LEMMA LeaseInvHolds == Spec => []LeaseInv
  BY LeaseInvInit, LeaseInvStep, PTL DEF Spec

\* Whatever the workers, their leases and the changes to issues and browsers do,
\* an event is leased to one worker at a time, only that worker retries or ends
\* it, and its end is final: the outbox implements LeasedQueue.
THEOREM EventsImplementLeasedQueue == Spec => EventsAreLeased
<1>1. Init => EventQueue!Init
  BY DEF Init, NoEvent, Phase, Leaseholder, HasLease, ClaimsOf, JobsOf, EventQueue!Init
<1>2. LeaseInv /\ [Next]_vars => [EventQueue!Next]_(EventQueue!vars)
  BY EventsMoveStep, EventQueueStep
<1> QED
  BY <1>1, <1>2, LeaseInvHolds, PTL DEF Spec, EventsAreLeased, EventQueue!Spec

\* So is a delivery, which can also be called off with its browser, even by a
\* worker that has lost the lease.
THEOREM DeliveriesImplementLeasedQueue == Spec => DeliveriesAreLeased
<1>1. Init => DeliveryQueue!Init
  BY DEF Init, NoDelivery, Phase, Leaseholder, HasLease, ClaimsOf, JobsOf, DeliveryQueue!Init
<1>2. LeaseInv /\ [Next]_vars => [DeliveryQueue!Next]_(DeliveryQueue!vars)
  BY DeliveriesMoveStep, DeliveryQueueStep
<1> QED
  BY <1>1, <1>2, LeaseInvHolds, PTL DEF Spec, DeliveriesAreLeased, DeliveryQueue!Spec

\* An event or delivery that has ended is not touched again.
EndsAreFinal ==
    [][/\ \A e \in Event : event[e].state \notin {"none", "pending"} => event'[e] = event[e]
       /\ \A d \in Delivery :
            delivery[d].state \notin {"none", "pending"} => delivery'[d] = delivery[d]]_vars

\* No late worker, retry or registration of a browser changes how an event or a
\* delivery ended.
THEOREM EndedStaysEnded == Spec => EndsAreFinal
<1> DEFINE Final == /\ \A e \in Event :
                         event[e].state \notin {"none", "pending"} => event'[e] = event[e]
                    /\ \A d \in Delivery :
                         delivery[d].state \notin {"none", "pending"} => delivery'[d] = delivery[d]
<1>1. LeaseInv /\ [Next]_vars => Final
  <2> SUFFICES ASSUME LeaseInv, [Next]_vars PROVE Final
    OBVIOUS
  <2>1. EventsMove /\ DeliveriesMove
    BY EventsMoveStep, DeliveriesMoveStep
  <2>2. ASSUME NEW e \in Event, event[e].state \notin {"none", "pending"}
        PROVE  event'[e] = event[e]
    BY <2>1, <2>2 DEF EventsMove, Same, Takes, Returns, Adds, DropsAll, Fenced
  <2>3. ASSUME NEW d \in Delivery, delivery[d].state \notin {"none", "pending"}
        PROVE  delivery'[d] = delivery[d]
    BY <2>1, <2>3 DEF DeliveriesMove, Same, Takes, Returns, Adds, DropsAll, CallsOff, Fenced
  <2> QED
    BY <2>2, <2>3
<1> QED
  BY <1>1, LeaseInvHolds, PTL DEF Spec, EndsAreFinal
==============================================================================
