SPECIFICATION Spec
CONSTANTS
  p1 = p1
  p2 = p2
  t1 = t1
  t2 = t2
  Absent = Absent
  Untagged = Untagged
  Path <- TwoPaths
  Tag <- TwoTags
  BarePath <- OneBare
  MaxChanges = 2
  Capacity = 1
  Interval = 2
  MaxBackoff = 5
  ShiftCap = 3
  MaxErrors = 1
CHECK_DEADLOCK FALSE
INVARIANTS
  TypeOK
  EventsAlternate
PROPERTIES
  CatchesUp
  ImplementsQueue
