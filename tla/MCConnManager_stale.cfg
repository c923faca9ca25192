\* A call that loads the row before a save and publishes after Invalidate.
SPECIFICATION Spec
CONSTANTS
  Device = {d1}
  Worker = {w1}
  Writer = {}
  Admin = {a1}
  Conn = {c1, c2, c3}
  MaxVersion = 1
  MaxOps = 2
  None = None
INVARIANTS ConnectionMatchesRow
