----------------------------- MODULE RemoteCall -----------------------------
(* What a command to a node promises the caller that waits for its result. *)
(* A node runs a command at most once.  "acked" means it ran; "offline"    *)
(* and "send_error" mean it never will; "disconnected" and "timeout" leave *)
(* it open: the node may have run it, or run it yet.                       *)
CONSTANTS Calls, None

VARIABLES
  executed,   \* the commands the node ran
  outcome     \* per call: what its caller was told, or None

Outcomes == {"acked", "offline", "send_error", "disconnected", "timeout"}
NotSent == {"offline", "send_error"}

Init ==
  /\ executed = {}
  /\ outcome = [c \in Calls |-> None]

Run(c) ==
  /\ c \notin executed
  /\ outcome[c] \notin NotSent
  /\ executed' = executed \cup {c}
  /\ UNCHANGED outcome

Return(c, r) ==
  /\ outcome[c] = None
  /\ r = "acked" => c \in executed
  /\ r \in NotSent => c \notin executed
  /\ outcome' = [outcome EXCEPT ![c] = r]
  /\ UNCHANGED executed

Next == \E c \in Calls : Run(c) \/ \E r \in Outcomes : Return(c, r)

Spec == Init /\ [][Next]_<<executed, outcome>>
=============================================================================
