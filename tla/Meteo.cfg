\* The weather level, of a meteostation and a UPS, and the wind of three stations.
SPECIFICATION MCSpec
CONSTANTS
  meteo = meteo
  ups = ups
  other = other
  Stations <- MCStations
  Client = client
  Main = main
  None = None
  Fields <- MCFields
  Orders <- MCOrders
  Hit <- MCHit
  Window = 1
  Delay = 2
  MaxLag = 1
  DeathIsSeen = TRUE
  MaxEvents = 2
  Sensors <- MCSensors
  Sense <- MCSense
  Speeds = {1, 3}
  BadSpeed = 3
  Late = {0, 1}
  MAX_HISTORY = 4
  TOO_OLD_DATA = 2
  T_ONE_HOUR = 1
  ahtung_delay = 2
  TooLate = 1
  MaxTime = 3
  MaxSamples = 4
INVARIANTS
  LevelTypeOK
  DataTypeOK
  
  ImportantWins
PROPERTIES
  CalmBeforeBetter
  BadIsNotLost
  
  
\* A signal may stop the daemon for ever.
CHECK_DEADLOCK FALSE
