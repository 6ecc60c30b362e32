SPECIFICATION Spec
CONSTANTS
  c1 = c1
  c2 = c2
  p1 = p1
  p2 = p2
  checked = checked
  unchecked = unchecked
  Callers = {c1, c2}
  Process <- MCShared
  Manifest <- MCOneArtifact
  Checked <- MCChecked
  Chunks = 2
  MaxFiles = 2
  MaxCalls = 1
INVARIANT PublishedWhole
CHECK_DEADLOCK FALSE
