SPECIFICATION Spec
CONSTANTS
  Handlers = {t1}
  Codes = {16, 33, 49, 51, 53}
  Slots = {s1}
  NoKey = NoKey
  DarkStrokes = 3
  Unit = 2
  MaxPending = 1
  PostMayFail = FALSE
  EntryMayMiss = TRUE
  Nothing = Nothing
INVARIANTS TypeOK NoKeyStuck RestoresBrightness
PROPERTY StrokesWhole
