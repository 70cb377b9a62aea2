------------------------------- MODULE Realtime -------------------------------
(* How changes reach the browsers (internal/realtime): the triggers' NOTIFY,   *)
(* the listener on its own connection, the hub, and for each WebSocket client  *)
(* a bounded queue of events and one slot for a control message.               *)
(*                                                                             *)
(* One topic.  Events are numbered as they are committed.                      *)
EXTENDS Integers, Sequences, FiniteSets, SequencesExt

CONSTANTS Watcher, Events, SendBuffer

ASSUME RealtimeAssumption == Events \in Nat /\ SendBuffer \in Nat \ {0}

VARIABLES
    sent,           \* events committed
    listener,       \* "down", "listening" or "up"
    notified,       \* notifications its connection has not delivered yet
    stage,          \* of each client: "open", "authorized", "subscribed", "closed"
    pump,           \* where its write pump is
    queue,          \* its events
    control,        \* whether its control slot is taken
    leaving,        \* whether it was told to disconnect
    missing,        \* history: events since it subscribed that it knows nothing of
    late,           \* history: events written to it after it was told to leave
    may,            \* whether its user may read the topic
    telling         \* access has changed, DisconnectAll is to come

feedVars == <<sent, listener, notified>>
watcherVars == <<stage, pump, queue, control, leaving, missing, late>>
realtimeVars == <<feedVars, watcherVars, may, telling>>

RealtimeInit ==
    /\ sent = 0 /\ listener = "down" /\ notified = <<>>
    /\ stage = [c \in Watcher |-> "open"] /\ pump = [c \in Watcher |-> "top"]
    /\ queue = [c \in Watcher |-> <<>>] /\ control = [c \in Watcher |-> FALSE]
    /\ leaving = [c \in Watcher |-> FALSE]
    /\ missing = [c \in Watcher |-> {}] /\ late = [c \in Watcher |-> 0]
    /\ may = [c \in Watcher |-> TRUE] /\ telling = FALSE

Subscribed == {c \in Watcher : stage[c] = "subscribed"}

-------------------------------------------------------------------------------
(* The feed *)

\* A change is committed; its trigger notifies whoever listens.
Commit ==
    /\ sent < Events
    /\ sent' = sent + 1
    /\ notified' = IF listener = "down" THEN <<>> ELSE Append(notified, sent + 1)
    /\ missing' = [c \in Watcher |->
         IF c \in Subscribed THEN missing[c] \cup {sent + 1} ELSE missing[c]]
    /\ UNCHANGED <<listener, stage, pump, queue, control, leaving, late, may, telling>>

\* runOnce connects and listens; then it has every client refetch.
Listen ==
    /\ listener = "down"
    /\ listener' = "listening"
    /\ UNCHANGED <<sent, notified, watcherVars, may, telling>>

\* Mutant: only a listener that has lost its connection asks for it, by then too early.
ResyncsNobody == {}

\* ResyncAll: a slot that is taken already says the same.
Resynced == Subscribed

ResyncAll ==
    /\ listener = "listening"
    /\ listener' = "up"
    /\ control' = [c \in Watcher |-> control[c] \/ c \in Resynced]
    /\ UNCHANGED <<sent, notified, stage, pump, queue, leaving, missing, late, may,
                   telling>>

LoseConnection ==
    /\ listener = "up"
    /\ listener' = "down" /\ notified' = <<>>
    /\ UNCHANGED <<sent, watcherVars, may, telling>>

\* Publish: a client whose queue is full gets a control message for the event.
Publish ==
    /\ listener = "up" /\ notified # <<>>
    /\ notified' = Tail(notified)
    /\ queue' = [c \in Watcher |->
         IF c \in Subscribed /\ Len(queue[c]) < SendBuffer
           THEN Append(queue[c], Head(notified)) ELSE queue[c]]
    /\ control' = [c \in Watcher |->
         control[c] \/ (c \in Subscribed /\ Len(queue[c]) >= SendBuffer)]
    /\ UNCHANGED <<sent, listener, stage, pump, leaving, missing, late, may, telling>>

-------------------------------------------------------------------------------
(* The pumps of a client *)

\* readPump asks authorizeTopic, then joins the topic.
Authorize(c) ==
    /\ stage[c] = "open" /\ may[c]
    /\ stage' = [stage EXCEPT ![c] = "authorized"]
    /\ UNCHANGED <<feedVars, pump, queue, control, leaving, missing, late, may,
                   telling>>

Subscribe(c) ==
    /\ stage[c] = "authorized"
    /\ stage' = [stage EXCEPT ![c] = "subscribed"]
    /\ missing' = [missing EXCEPT ![c] = {}]
    /\ UNCHANGED <<feedVars, pump, queue, control, leaving, late, may, telling>>

Unsubscribe(c) ==
    /\ stage[c] = "subscribed"
    /\ stage' = [stage EXCEPT ![c] = "open"]
    /\ missing' = [missing EXCEPT ![c] = {}]
    /\ UNCHANGED <<feedVars, pump, queue, control, leaving, late, may, telling>>

\* Mutant: one select over everything, with no first look at the urgent channels.
NothingUrgent(c) == FALSE

\* writePump looks at these two first.
Urgent(c) == leaving[c] \/ control[c]

\* Nothing urgent: it waits for whatever comes.
Wait(c) ==
    /\ stage[c] # "closed" /\ pump[c] = "top" /\ ~Urgent(c)
    /\ pump' = [pump EXCEPT ![c] = "wait"]
    /\ UNCHANGED <<feedVars, stage, queue, control, leaving, missing, late, may,
                   telling>>

TakeControl(c) ==
    /\ stage[c] # "closed" /\ pump[c] \in {"top", "wait"} /\ control[c]
    /\ control' = [control EXCEPT ![c] = FALSE]
    /\ pump' = [pump EXCEPT ![c] = "resync"]
    /\ UNCHANGED <<feedVars, stage, queue, leaving, missing, late, may, telling>>

\* The message arrives and the browser refetches the state there is now.
WriteControl(c) ==
    /\ stage[c] # "closed" /\ pump[c] = "resync"
    /\ pump' = [pump EXCEPT ![c] = "top"]
    /\ missing' = [missing EXCEPT ![c] = {}]
    /\ UNCHANGED <<feedVars, stage, queue, control, leaving, late, may, telling>>

WriteEvent(c) ==
    /\ stage[c] # "closed" /\ pump[c] = "wait" /\ queue[c] # <<>>
    /\ queue' = [queue EXCEPT ![c] = Tail(@)]
    /\ missing' = [missing EXCEPT ![c] = @ \ {Head(queue[c])}]
    /\ late' = [late EXCEPT ![c] = IF leaving[c] THEN @ + 1 ELSE @]
    /\ pump' = [pump EXCEPT ![c] = "top"]
    /\ UNCHANGED <<feedVars, stage, control, leaving, may, telling>>

\* It was told to leave, a write or ping failed, or the browser went away: run
\* removes it from the hub.
CloseClient(c) ==
    /\ stage[c] # "closed"
    /\ stage' = [stage EXCEPT ![c] = "closed"]
    /\ queue' = [queue EXCEPT ![c] = <<>>]
    /\ control' = [control EXCEPT ![c] = FALSE]
    /\ missing' = [missing EXCEPT ![c] = {}]
    /\ UNCHANGED <<feedVars, pump, leaving, late, may, telling>>

-------------------------------------------------------------------------------
(* Access is taken away; then the request that did so has everyone leave. *)

TakeAccess(c) ==
    /\ may[c] /\ ~telling
    /\ may' = [may EXCEPT ![c] = FALSE] /\ telling' = TRUE
    /\ UNCHANGED <<feedVars, watcherVars>>

DisconnectAll ==
    /\ telling
    /\ telling' = FALSE
    /\ leaving' = [c \in Watcher |-> leaving[c] \/ c \in Subscribed]
    /\ UNCHANGED <<feedVars, stage, pump, queue, control, missing, late, may>>

-------------------------------------------------------------------------------
RealtimeNext ==
    \/ Commit \/ Listen \/ ResyncAll \/ LoseConnection \/ Publish \/ DisconnectAll
    \/ \E c \in Watcher :
         \/ Authorize(c) \/ Subscribe(c) \/ Unsubscribe(c) \/ CloseClient(c)
         \/ Wait(c) \/ TakeControl(c) \/ WriteControl(c) \/ WriteEvent(c)
         \/ TakeAccess(c)

RealtimeSpec == RealtimeInit /\ [][RealtimeNext]_realtimeVars

RealtimeTypeOK ==
    /\ sent \in 0..Events /\ listener \in {"down", "listening", "up"}
    /\ stage \in [Watcher -> {"open", "authorized", "subscribed", "closed"}]
    /\ pump \in [Watcher -> {"top", "wait", "resync"}]
    /\ \A c \in Watcher : Len(queue[c]) <= SendBuffer
    /\ \A c \in Watcher : missing[c] \subseteq 1..sent

\* A client never diverges silently (hub.go:13-16): whatever was committed since
\* it subscribed it has, or it still comes to it, or it is going to be told to
\* refetch, after slow reading, a lost listener and coalesced signals.
NoSilentGap ==
    \A c \in Subscribed :
      \/ missing[c] \subseteq ToSet(queue[c]) \cup ToSet(notified)
      \/ control[c] \/ pump[c] = "resync" \/ listener # "up"

\* Once a client was told to leave, at most one event that was queued for it
\* still goes out (the first select of writePump).
OneLateEvent == \A c \in Watcher : late[c] <= 1
===============================================================================
