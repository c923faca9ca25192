\* One device, two workers, one write request, one administrator: every way
\* calls, saves and the shutdown can meet on one slot of the map.
SPECIFICATION Spec
CONSTANTS
  Device = {d1}
  Worker = {w1, w2}
  Writer = {r1}
  Admin = {a1}
  Conn = {c1, c2, c3}
  MaxVersion = 1
  MaxOps = 2
  None = None
SYMMETRY Symmetry
INVARIANTS TypeOK NoLeak SingleOwner StatusStamped NothingLeftOpen
PROPERTIES NoCloseDuringOp ImplementsSlots
