SPECIFICATION FairSpec
CONSTANTS
  QueueLimit = 3
  Twins = FALSE
  Nothing = Nothing
INVARIANTS TypeOK NoPressLost RadiosRestored
PROPERTIES TogglesAtomic ToggleEnds SocketDrains
