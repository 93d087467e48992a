SPECIFICATION Spec
INVARIANT
  FailedReleasesAll
CHECK_DEADLOCK FALSE
