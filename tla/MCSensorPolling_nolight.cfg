SPECIFICATION FairSpec
CONSTANTS
  Lux = {}
  Rpm = {}
  WmiSpeed = {25}
  Failed = Failed
  LuxModulus = 64
  ChanModulus = 16
  RoomScale = 4
  DisabledLux = 9
  ForceWrites <- NoForceWrites
PROPERTIES FanFollowsAlways
