\* A ban that is on, a close that is noted as given, and an open roof.
SPECIFICATION Spec
CONSTANTS
  Threads <- MCThreads
  Commands <- MCCommands
  Faults = FALSE
  Main = "main"
  Handlers <- MCHandlers
  WeathPoll = 0
  WeatherLost = 1
INVARIANTS
  BanKeepsRoofClosed
