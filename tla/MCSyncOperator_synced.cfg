SPECIFICATION Spec
CONSTANTS
  o1 = o1
  o2 = o2
  w1 = w1
  w2 = w2
  w3 = w3
  n1 = n1
  n2 = n2
  Cr <- TwoCrs
  Want <- ThreeWants
  Target <- Apart
  Namespace <- TwoNamespaces
  WantsOf <- Wants
  Drifted = Drifted
  Absent = Absent
  MaxEdits <- Busy
CHECK_DEADLOCK FALSE
INVARIANTS
  TypeOK
  NoOrphan
PROPERTIES
  ChangeIsAnnounced
  EventuallySynced
  DeletionCompletes
