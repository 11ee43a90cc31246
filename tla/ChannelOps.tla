----------------------------- MODULE ChannelOps -----------------------------
(***************************************************************************)
(* How EPollPoller::updateChannel turns a Channel's new interest into an   *)
(* epoll_ctl call, and the index_ it leaves in the Channel.                *)
(***************************************************************************)

Indices == {"kNew", "kAdded", "kDeleted"}
Interests == SUBSET {"read", "write"}       \* values of Channel::events_

\* The epoll_ctl operation.
CtlOp(index, events) ==
  IF index # "kAdded" THEN "ADD" ELSE IF events = {} THEN "DEL" ELSE "MOD"

\* Forgetting set_index(kDeleted).
IndexAfterNoDelete(op) == "kAdded"

\* The index_ that goes with it.
IndexAfter(op) == IF op = "DEL" THEN "kDeleted" ELSE "kAdded"
=============================================================================
