SPECIFICATION FairSpec
CONSTANTS
  Handlers = {h1}
  Services = {s1, s2}
  Nobody = Nobody
INVARIANTS TypeOK
PROPERTIES KeyToggles RoundsAtomic ConsumersHeard
