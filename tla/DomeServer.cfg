\* The interlock: flags, main loop and a client thread, exchanges may fail.
SPECIFICATION Spec
CONSTANTS
  Threads <- MCThreads
  Commands <- MCCommands
  Faults = TRUE
  Main = "main"
  Handlers <- MCHandlers
  WeathPoll = 0
  WeatherLost = 1
INVARIANTS
  TypeOK
  AtMostOneLate
  CloseIsTheLastWord
