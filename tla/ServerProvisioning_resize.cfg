SPECIFICATION Spec
CONSTANTS
  None = None
  Users = {ann}
  Servers = {s1, s2}
  Procs = {p1, p2}
  Ports = {25565, 25566}
  Sizes = {1, 2}
  Limits = {2, 3}
  Kinds = {"create", "resize"}
INVARIANT QuotaHoldsForResizes
