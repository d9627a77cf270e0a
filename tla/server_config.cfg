SPECIFICATION Spec
CONSTANTS
  h1 = h1
  at1 = at1
  ed1 = ed1
  ed2 = ed2
  v1 = v1
  a = a
  b = b
  m = m
  None = None
  Handlers = {h1}
  Verifiers = {v1}
  Lives = {v1}
  Attachers = {at1}
  Editors = {ed1, ed2}
  Reloaders = {ed2}
  Closers = {h1}
  Names = {a, b}
  Leaves = {m}
  Edit <- MCEdit
  InitResources <- MCResources
INVARIANTS ConfigAtomic RunnersRaceFree StuckOnlyInLiveSnapshot ResourcesClosed
CHECK_DEADLOCK FALSE
