SPECIFICATION Spec
CONSTANTS
  Ids <- MCIds
  Wdgs <- MCWdgs
  Lkbs <- MCLkbs
INVARIANTS TypeOK MethodFound NoPhantomBattery PropertyTellsThreshold KeyTellsThreshold LightTellsLevel
