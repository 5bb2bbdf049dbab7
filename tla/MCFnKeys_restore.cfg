SPECIFICATION Spec
CONSTANTS
  Handlers = {t1}
  Codes = {53}
  Slots = {s1}
  NoKey = NoKey
  DarkStrokes = 3
  Unit = 2
  MaxPending = 2
  PostMayFail = FALSE
  EntryMayMiss = FALSE
  Nothing = Nothing
INVARIANT RestoresAlways
