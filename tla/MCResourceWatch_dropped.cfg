CONSTANTS
  Object = {a, b}
  Capacity = 1
  Signal = Signal
  MaxVersion = 3
  MaxErrors = 2
SPECIFICATION Spec





CHECK_DEADLOCK FALSE
PROPERTY ShutsDown
