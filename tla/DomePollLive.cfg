\* dome_poll keeps its promise to its callers, and its calls and pauses end.
SPECIFICATION PollFairSpec
CONSTANTS
  north = north
  south = south
  t1 = t1
  t2 = t2
  Covers <- MCCover
  Relays <- MCRelays
  MotRelay = 1
  Threads <- MCThreads
  Commands <- MCFewCommands
  Faults = TRUE
  PowerStop = 2
  StatusIdle = 1
  StatusMove = 0
INVARIANTS
  
  RoofObeys
PROPERTIES
  KeepsPromise
  CallsReturn
  PowerIsTurnedOff
