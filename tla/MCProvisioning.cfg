SPECIFICATION Spec
CONSTANTS
  c1 = c1
  c2 = c2
  p1 = p1
  p2 = p2
  checked = checked
  unchecked = unchecked
  Callers = {c1, c2}
  Process <- MCSeparate
  Manifest <- MCManifest
  Checked <- MCChecked
  Chunks = 2
  MaxFiles = 2
  MaxCalls = 2
INVARIANTS
  PublishedWhole
  OkMeansReady
CHECK_DEADLOCK FALSE
