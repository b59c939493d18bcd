SPECIFICATION PartsSpec
CONSTANTS
  ann = ann
  bob = bob
  None = None
  Users = {ann, bob}
  Servers = {s1, s2}
  Procs = {p1, p2}
  Ports <- MCPorts
  Sizes <- MCSizes
  Limits <- MCLimits
  Kinds <- AllKinds
SYMMETRY Symmetry
CHECK_DEADLOCK FALSE
INVARIANTS QuotaHolds NoPortlessRow PrimaryPortHeld
