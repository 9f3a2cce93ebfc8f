------------------------------ MODULE MCMeteo ------------------------------
(***************************************************************************)
(* weatherdaemon_multimeteo: a weather station and a UPS for the level,    *)
(* three stations for the wind.  The level and the collected data share no *)
(* variable: each part is explored while the other stands at its beginning *)
(***************************************************************************)
EXTENDS WeatherLevelProps, WeatherDataProps

CONSTANTS meteo, ups, other

MCStations == {meteo, ups}
\* The anemometer, good and terrible, and the "on battery" flag.
MCFields == [s \in MCStations |->
  IF s = meteo THEN << [cond |-> wind, samples |-> {3, 16}] >>
               ELSE << [cond |-> shtdnflag, samples |-> {0, 10}] >>]
MCOrders ==
  {[op |-> "weathlevel", par |-> GOOD], [op |-> "forceoff", par |-> TRUE],
   [op |-> "mute", par |-> meteo], [op |-> "unmute", par |-> meteo],
   [op |-> "setlevel", par |-> <<meteo, 1>>]}
\* The client may also forbid and allow, as the signals do.
\* The signal handlers run in the thread of the UPS, on top of it.
MCHit == {ups}

MCSensors == {meteo, ups, other}
MCSense == [s \in MCSensors |->
  CASE s = meteo -> VAL_FORCEDSHTDN [] s = ups -> VAL_OBLIGATORY [] OTHER -> VAL_RECOMMENDED]

VARIABLE part   \* the part that moves, chosen once

MCInit == Init /\ InitData /\ part \in {"level", "data"}

MCNext ==
  \/ part = "level" /\ Next /\ UNCHANGED <<dataVars, part>>
  \/ part = "data" /\ NextData /\ UNCHANGED <<vars, part>>

MCSpec == MCInit /\ [][MCNext]_<<vars, dataVars, part>>
=============================================================================
