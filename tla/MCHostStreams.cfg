SPECIFICATION PumpSpec
CONSTANTS
  MaxLen = 2
  MaxMoved = 4
  MaxHops = 2
  MaxPulls = 2
CHECK_DEADLOCK FALSE
INVARIANTS ArmTracksRetention HostOpsTold PumpSound
PROPERTIES PumpEnds
