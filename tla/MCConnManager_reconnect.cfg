\* A broken connection under polling that never stops and no save.
SPECIFICATION PollingSpec
CONSTANTS
  Device = {d1}
  Worker = {w1}
  Writer = {}
  Admin = {}
  Conn = {c1, c2}
  MaxVersion = 0
  MaxOps = 1
  None = None
PROPERTIES BrokenIsReplaced
