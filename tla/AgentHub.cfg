SPECIFICATION FairSpec
CONSTANTS
  Conns = {k1, k2}
  Calls = {c1}
  None = None
  MaxRotations = 1
  MaxCopies = 2
INVARIANTS TypeOK RegistryTracksNewest NoPendingLeak OldSecretStops
PROPERTIES ImplementsRemoteCall CallsReturn
CHECK_DEADLOCK FALSE
