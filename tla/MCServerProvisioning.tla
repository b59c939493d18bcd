------------------------ MODULE MCServerProvisioning ------------------------
(* Two servers ever created, two requests at a time, on a node with two    *)
(* ports.  "quota": one user, requests for one or two units of memory,     *)
(* quotas of two or three, one port of the two (to claim the other fails   *)
(* like any call); "ports": two users, servers of one unit.               *)
EXTENDS ServerProvisioning, TLC

CONSTANTS ann, bob

MCSizes == {1, 2}
MCLimits == {2, 3}
MCPorts == {25565, 25566}
AllKinds == {"create", "delete", "resize", "ports", "admin"}

VARIABLE part

OfBob(p) == req[p].user = bob
Resizing(p) == req[p].pc = "limit" /\ req[p].server # None

QuotaPart ==
  /\ part = "quota" /\ Next
  /\ limit'[bob] = limit[bob] /\ bob \notin exempt'
  /\ port'[25566] = None
  /\ \A p \in Procs : ~OfBob(p)' /\ req'[p].pc \notin {"attached", "detach"}

PortsPart ==
  /\ part = "ports" /\ Next
  /\ limit'[ann] = 2 /\ limit'[bob] = 2 /\ exempt' = {}
  /\ \A p \in Procs : ~Resizing(p)' /\ req'[p].mem <= 1

PartsInit == part \in {"quota", "ports"} /\ Init /\ limit[ann] = 2

PartsNext == (QuotaPart \/ PortsPart) /\ UNCHANGED part

PartsSpec == PartsInit /\ [][PartsNext]_<<part, vars>>

Symmetry == Permutations(Servers) \cup Permutations(Procs)
=============================================================================
