\* Three calls on a coil, input and holding registers, with answers that are late by
\* nothing, a part of the header, or a part of the body, around the request whose
\* number has the unit and the function of an echo in its two bytes.
SPECIFICATION Spec
CONSTANTS
  UnitId = 5
  Order = "CDAB"
  Address = {1, 30001, 40001}
  Input <- MCInput
  Content = {0, 1}
  Programmed = {40001}
  Arrived = {0, 1, 6}
  Earlier = 1284
  MaxRequests = 3
  None = None
  Refused = Refused
INVARIANTS TypeOK AnswerIsOwn DirtyFails StaysDirty
PROPERTY CallReturns
