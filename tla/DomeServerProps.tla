--------------------------- MODULE DomeServerProps ---------------------------
(* What the interlock of domedaemon-astrosib is relied upon for. *)
EXTENDS DomeServer

\* A handler that holds a restricted command it has not yet sent: CHKALLOWED let
\* it pass, dome_poll has not reached runcmd.
Admitted(h) ==
  /\ Restricted(handler[h].do)
  /\ \/ handler[h].pc = "run"
     \/ handler[h].pc = "busy" /\ request[h].pc \in {"wait", "held"}

\* While a flag stays up a handler sends at most one open, stop or half, the one
\* it held when the flag went up: once it has sent it, it holds no other.
AtMostOneLate == \A f \in {"forbid", "weather"} : \A h \in late[f] : ~Admitted(h)

\* Once the main loop has noted its close as given, "close" is the last order the
\* device obeyed, unless a flag has gone down since that close or a handler sent
\* late what CHKALLOWED had let pass, or an exchange with the device has failed.
CloseIsTheLastWord ==
  cmdclosed => \/ order = "DOME_CLOSE"
               \/ lowered
               \/ late.forbid \cup late.weather # {}
               \/ faulted

\* "dome is closed and opening is blocked" (Readme.md:93): while the ban is on and
\* the main loop believes the roof closed, the roof obeyed no order after "close".
BanKeepsRoofClosed == Forbidden /\ cmdclosed => order = "DOME_CLOSE"

\* If observations stay forbidden the main loop comes to believe it closed the roof.
BanClosesRoof == <>[]Forbidden => <>[]cmdclosed

\* Weather data that stay lost or stay old end in a ban.
LostWeatherBans ==
  [](([](weatherAge > WeatherLost)) => <>BadWeather)

\* Every client gets its answer.
ClientsAnswered == \A h \in Handlers : handler[h].pc # "idle" ~> handler[h].pc = "idle"
=============================================================================
