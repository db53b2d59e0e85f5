SPECIFICATION Spec
INVARIANTS
  SnapshotIsUploaded
CHECK_DEADLOCK FALSE
