\* The deletion of a device with its points, as rule R004 has it.
SPECIFICATION Spec
CONSTANTS
  d1 = d1
  d2 = d2
  p1 = p1
  p2 = p2
  p3 = p3
  p4 = p4
  w1 = w1
  w2 = w2
  w3 = w3
  default = default
  g1 = g1
  g2 = g2
  n1 = n1
  n2 = n2
  n3 = n3
  S7 = S7
  MODBUS_TCP = MODBUS_TCP
  None = None
  Client = {a, b}
  Device <- MCDevice
  Coll <- MCColl
  Write <- MCWrite
  Group = {default, g1, g2}
  Default = default
  Name = {n1, n2, n3}
  Protocol = {S7, MODBUS_TCP}
  Days = {30, 60, 731}
  Initial <- MCInitial
  Request <- MCRequest
  MaxRequests = 3
  MaxCrashes = 0
  Limit = 2
INVARIANT CascadeComplete
CHECK_DEADLOCK FALSE
