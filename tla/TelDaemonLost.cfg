\* Weather data that have grown old do not close the shutters.
SPECIFICATION TelFairSpec
CONSTANTS
  Commands <- MCFewCommands
  Axes <- MCNoAxes
  Faults = FALSE
  WeatherLost = 0
PROPERTIES
  OldWeatherBans
