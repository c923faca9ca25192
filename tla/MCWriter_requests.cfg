\* Two requests for any of three points, saves of the device and of the points.
SPECIFICATION FairSpec
CONSTANTS
  b1 = b1
  b2 = b2
  x = x
  Request = {r1, r2}
  Point = {b1, b2, x}
  PlcPoint = {x}
  MaxLink = 2
  None = None
  TypeOf <- MCTypeOf
  Targets <- MCTargets
INVARIANTS TypeOK HonestAnswer
PROPERTIES SuccessIsClose NoUndoneWrite Answered
