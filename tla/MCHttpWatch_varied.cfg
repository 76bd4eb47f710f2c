SPECIFICATION Spec
CONSTANTS
  b1 = b1
  b2 = b2
  NoBody = NoBody
  Body <- TwoBodies
  SendsETag = {TRUE, FALSE}
  SendsDate = {TRUE, FALSE}
  MaxChanges = 3
  Capacity = 1
  Interval = 2
  MaxBackoff = 5
  ShiftCap = 3
  MaxErrors = 2
CHECK_DEADLOCK FALSE
INVARIANTS
  TypeOK
  EventsAlternate
PROPERTIES
  CatchesUp
  BlockedSendEnds
