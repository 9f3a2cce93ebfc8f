\* Shutters, slots and focuser, exchanges may fail.
SPECIFICATION TelSpec
CONSTANTS
  Commands <- MCCommands
  Axes <- MCAxes
  Faults = TRUE
  WeatherLost = 0
INVARIANTS
  TelTypeOK
  ShuttersStayClosed
  OpenDiesInBan
  
  MovesAnswerRequests
