------------------------- MODULE MCPushNotifications -------------------------
(* Small instances of PushNotifications for TLC. *)
EXTENDS PushNotifications

\* Every event concerns everybody.
Everybody == [e \in Event |-> User]

==============================================================================
