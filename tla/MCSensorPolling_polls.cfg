SPECIFICATION FairSpec
CONSTANTS
  Lux = {20}
  Rpm = {10000, 65600}
  WmiSpeed = {25}
  Failed = Failed
  LuxModulus = 64
  ChanModulus = 16
  RoomScale = 4
  DisabledLux = 9
  ForceWrites <- LuxForced
INVARIANTS TypeOK NeverDisarmed OffWithinTwoPolls ServedIsCurrent
PROPERTIES LightFollows FanFollows
