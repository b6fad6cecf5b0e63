----------------------------- MODULE MCPortalLocks -----------------------------
(* The locks of the daemon for TLC: any two of its programs at a time, or  *)
(* three of those that lock the node, its keyring and its inbox; a task    *)
(* runs one program after the other, for ever.                             *)
EXTENDS LockTable, PortalLocks

CONSTANT third  \* the task that runs only among Nested programs

Programs == Handlers \cup Radio

Nested == {NodeReader, NodeStatus, InstallNode, RadioAlert,
           AuthBySession \o RotateSecrets, AuthBySession \o SetTrusted}

(* Bound: which programs run together.                                     *)
Mix ==
  \/ run[third] = Rest
  \/ \A t \in Task : run[t].prog \in Nested \cup {<<>>}

MCNext == Next /\ Mix'

MCSpec == Init /\ [][MCNext]_vars /\ \A t \in Task : WF_vars(Work(t))

===============================================================================
