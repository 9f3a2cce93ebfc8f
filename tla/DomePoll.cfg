\* The machine of the roof, two covers, exchanges may fail.
SPECIFICATION PollSpec
SYMMETRY Symmetry
CONSTANTS
  north = north
  south = south
  t1 = t1
  t2 = t2
  Covers <- MCCovers
  Relays <- MCRelays
  MotRelay = 1
  Threads <- MCThreads
  Commands <- MCCommands
  Faults = TRUE
  PowerStop = 2
  StatusIdle = 1
  StatusMove = 0
INVARIANTS
  PollTypeOK
  SuccessMeansObeyed
PROPERTIES
  CutOnlyAtRestOrPaused
