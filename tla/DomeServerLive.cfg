\* The interlock: flags, main loop and a client thread, exchanges may fail.
SPECIFICATION FairSpec
CONSTANTS
  Threads <- MCThreads
  Commands <- MCFewCommands
  Faults = TRUE
  Main = "main"
  Handlers <- MCHandlers
  WeathPoll = 0
  WeatherLost = 1
PROPERTIES
  
  
  ClientsAnswered
