CONSTANTS
  Variable = {v1, v2, v3}
  Reason <- MCReason
  MaxLevel = 3
SPECIFICATION Spec
INVARIANTS TypeOK TrailConsistent FloorPromise MirrorIsSnapshot
PROPERTY SyncMissesNothing
