SPECIFICATION Spec
CONSTANTS
  QueueLimit = 1
  Twins = TRUE
  Nothing = Nothing
INVARIANT OnlyOwnEvents
