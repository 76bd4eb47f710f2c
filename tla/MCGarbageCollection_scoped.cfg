SPECIFICATION GcSpec
CONSTANTS
  Key <- TwoNamespaces
  Target <- InScope
  MaxRevision <- TwiceProdA
INVARIANT GcTypeOK
PROPERTIES
  DesiredUntouched
  OrphansCollected
