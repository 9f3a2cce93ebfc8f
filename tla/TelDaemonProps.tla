--------------------------- MODULE TelDaemonProps ---------------------------
(* What the shutters and the slots of teldaemon_astrosib are relied upon for. *)
EXTENDS TelDaemon

\* While the main loop has the ban noted as closed, "close" is the last order the
\* shutters obeyed, whatever failed, unless a flag went down since that close began
\* or an answer that came too late was taken for another one.
ShuttersStayClosed == forbidden => order = "CMD_CLOSE" \/ lowered \/ misled

\* An open that was accepted before a ban does not wait for its end: once the ban is
\* noted and the slot cleared, neither the slot nor the main loop's copy holds one.
OpenDiesInBan ==
  forbidden /\ mainpc # "clear" /\ ~lowered => "CMD_OPEN" \notin {cmd, tcmd}

\* A command that was answered "OK" stays in the slot or in the main loop's copy
\* until it is obeyed or a ban drops it, unless it came while the main loop had a
\* copy, or a late answer was taken for its own; CMD_FOCSTOP is written only once.
AcceptedIsKept ==
  \/ accepted \in {None, cmd, tcmd}
  \/ raced \/ misled
  \/ accepted = "CMD_FOCSTOP" /\ faulted

\* Without failures the focuser moves at most once for each request: the main loop
\* sets out to move only for a request that no move has answered.
MovesAnswerRequests ==
  \A a \in {"Absmove", "Relmove"} : mainpc = MoveOf(a) => fresh[a] \/ faulted

\* If observations stay forbidden the main loop comes to have closed the shutters.
BanClosesShutters == <>[]Forbidden => <>[]forbidden

\* A close that waits is executed at last, under a ban too, unless another command
\* takes its place.
CloseIsServed == cmd = "CMD_CLOSE" ~> cmd # "CMD_CLOSE"

\* "If the weather data is older than 900 seconds (WEATHER_LOST) -> treated as lost
\* communication -> shutters are closed and blocked" (Readme.md).
OldWeatherBans == [](([](weatherAge > WeatherLost)) => <>BadWeather)
=============================================================================
