SPECIFICATION Spec
CONSTANTS
  t1 = t1
  t3 = t3
  t2 = t2
  Handlers = {t1, t2, t3}
  Count = 2
  Strokes <- SomeStrokes
SYMMETRY Symmetry
INVARIANTS
  TypeOK
  ArraysExact
PROPERTIES
  HostReadsBytes
  HostSeesStrokes
