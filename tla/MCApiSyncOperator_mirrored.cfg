SPECIFICATION Spec
CONSTANTS
  Body = {b1}
  Empty = Empty
  Drifted = Drifted
  Absent = Absent
  MaxEdits = 3
CHECK_DEADLOCK FALSE
INVARIANTS
  TypeOK
  StatusTruthful
  DriftIsNoticed
PROPERTIES
  EventuallyMirrored
