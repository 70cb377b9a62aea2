------------------------------ MODULE DoorSteps ------------------------------
(* A door is one handler of one surface: what it does for its caller, and the  *)
(* steps it takes, in their order.                                             *)
(*                                                                             *)
(* A step that loads finds its row or answers that it is missing:              *)
(*   project         the live project                                          *)
(*   issue           the live issue                                            *)
(*   deletedIssue    the deleted issue                                         *)
(*   issueOrDeleted  the one of the two there is                               *)
(*   reopen          the live issue, unless a deleted one was loaded           *)
(* A step that asks reads the caller's rights, some remembering them:          *)
(*   access write creates manages deletes membersOnly     a right it must find *)
(*   read readOrReport                             the same, and remember them *)
(*   route issueAccess opens        a right to the issue as it was loaded, and *)
(*                                  remember the rights                        *)
(*   replies         writes, or follows the live issue that was loaded         *)
(*   perms           remember the rights                                       *)
(*   unlessFollows   leave out the next step for someone who follows the live  *)
(*                   issue that was loaded                                     *)
(*   servesReporter  answer them at once, with the view of a reporter          *)
(* A step that recalls uses the rights that were remembered:                   *)
(*   reads members follow comments batch                                       *)
(* A step about the caller alone: signedIn, firstParty, secretFirstParty (a    *)
(* secret among the settings is the account's own), admin.                     *)
(* A step in Chance succeeds or fails for reasons outside this model: the      *)
(* input is malformed, a row it names is missing, a budget is spent.           *)
(* The others act: do changes or reads what was asked for, show answers with a *)
(* view, disconnect drops realtime clients.                                    *)

Door(op, steps) == [does |-> op, steps |-> steps]

Chance == {"input", "thing", "user", "other", "link", "comment", "object",
           "credential", "triage", "limit", "password", "reauth", "author"}
Acts == {"do", "show", "disconnect"}
===============================================================================
