SPECIFICATION Spec
CONSTANTS
  Handlers = {t1, t2}
  Codes = {48, 49, 97, 196}
  Slots = {s1, s2}
  NoKey = NoKey
  DarkStrokes = 1
  Unit = 1
  MaxPending = 0
  PostMayFail = TRUE
  EntryMayMiss = TRUE
  Nothing = Nothing
SYMMETRY Symmetry
INVARIANTS NoResidue
