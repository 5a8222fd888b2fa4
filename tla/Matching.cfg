SPECIFICATION EngineSpec
CONSTANTS
  Cases <- MCCases
  Json <- MCJson
  Infinity = 100
  Unprintable <- MCUnprintable
  Text <- MCText
  Lower <- MCLower
  Hhmm <- MCHhmm
  Dates <- MCDates
  Zones <- MCZones
  Minute <- MCMinute
  Farther <- MCFarther
  Inherited <- MCInherited
  Returning = {"constructor", "toString"}
  DefaultUnit = 4
INVARIANTS
  MatchesMeanTheIntent
  LossesHaveACause
CHECK_DEADLOCK FALSE
