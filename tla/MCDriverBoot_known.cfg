SPECIFICATION FairBootSpec
CONSTANTS
  Handlers = {t1}
  Services = {s1, s2}
  Nobody = Nobody
  EarlyKeys = FALSE
CHECK_DEADLOCK FALSE
PROPERTIES ConsumersKnown
