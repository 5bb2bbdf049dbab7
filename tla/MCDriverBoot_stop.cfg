SPECIFICATION BootSpec
CONSTANTS
  Handlers = {h1, h2}
  Services = {s1, s2}
  Nobody = Nobody
  EarlyKeys = TRUE
SYMMETRY Symmetry
CHECK_DEADLOCK FALSE
INVARIANTS BootTypeOK StartInOrder ConsumersAgree
PROPERTIES IterationIsolated
