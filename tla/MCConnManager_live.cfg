\* Liveness under the fairness of the Go scheduler and mutexes.
SPECIFICATION FairSpec
CONSTANTS
  Device = {d1}
  Worker = {w1}
  Writer = {r1}
  Admin = {a1}
  Conn = {c1, c2}
  MaxVersion = 1
  MaxOps = 1
  None = None
PROPERTIES CallReturns StrayIsSettled
