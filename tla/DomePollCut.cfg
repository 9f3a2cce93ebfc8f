\* chkrelay takes the power from a cover that has just been told to move.
SPECIFICATION PollSpec
SYMMETRY Symmetry
CONSTANTS
  north = north
  south = south
  t1 = t1
  t2 = t2
  Covers <- MCCovers
  Relays <- MCRelays
  MotRelay = 1
  Threads <- MCThreads
  Commands <- MCCommands
  Faults = FALSE
  PowerStop = 2
  StatusIdle = 1
  StatusMove = 0
PROPERTIES
  CutOnlyAtRest
