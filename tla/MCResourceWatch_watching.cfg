CONSTANTS
  Object = {a, b}
  Capacity = 1
  Signal = Signal
  MaxVersion = 3
  MaxErrors = 2
SPECIFICATION Spec
INVARIANT TypeOK
PROPERTY ImplementsWatchQueue
PROPERTY NeverGoesBack
PROPERTY KeepsUp
PROPERTY DeletionsReported
CHECK_DEADLOCK FALSE
