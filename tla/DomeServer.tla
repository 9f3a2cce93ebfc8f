----------------------------- MODULE DomeServer -----------------------------
(***************************************************************************)
(* server.c of domedaemon-astrosib: the main loop that polls the weather   *)
(* and closes the roof when observations are forbidden, the thread that    *)
(* serves the clients, and the signal handler.                             *)
(*                                                                         *)
(* Both threads work through dome_poll, of which DomeCall says what they   *)
(* may rely on.  They share two atomic flags: ForbidObservations, written  *)
(* by the signal handler, and BadWeather, written by the main loop.        *)
(* CHKALLOWED reads one flag and then the other.                           *)
(*                                                                         *)
(* The weather is the shared memory of weather_proxy as                    *)
(* get_weather_data() shows it: there or not, bad or not, and how old.     *)
(***************************************************************************)
EXTENDS DomeCall, Integers

CONSTANTS Main,         \* the thread of server_run
          Handlers,     \* the threads of the socket that run the handlers
          WeathPoll,    \* WEATH_POLL
          WeatherLost   \* WEATHER_LOST

ASSUME ServerAssumption ==
  /\ Threads = {Main} \cup Handlers
  /\ Main \notin Handlers
  /\ NoThread \notin Threads
  /\ {Poll, Close} \subseteq Commands
  /\ \A k \in Commands : k.cmd \in Cmds /\ (k.cmd = "DOME_POLL" => k = Poll)
  /\ Faults \in BOOLEAN
  /\ WeathPoll \in Nat /\ WeatherLost \in Nat /\ WeathPoll < WeatherLost

VARIABLES ForbidObservations, BadWeather,  \* the two atomic flags
          tweather,    \* age of the main loop's last weather
          cmdclosed,   \* the main loop has given its "close"
          mainpc,      \* where the main loop is
          handler,     \* what each handler is doing
          weather,     \* the shared memory: is it there, is it bad
          weatherAge,  \* age of weather.last_update
          late,        \* history: see LateAfter
          lowered      \* history: a flag went down since the main loop's last close

flagVars == <<ForbidObservations, BadWeather>>
mainVars == <<tweather, cmdclosed, mainpc>>
skyVars  == <<weather, weatherAge>>
history  == <<late, lowered>>
vars == <<callVars, flagVars, mainVars, handler, skyVars, history>>

Requests == Commands \ {Poll}
NoRequest == [pc |-> "idle", do |-> Poll]

\* Handlers that start with CHKALLOWED(): open, stop, half.
Restricted(k) == k.cmd \in {"DOME_OPEN", "DOME_STOP", "DOME_OPEN_ONE", "DOME_CLOSE_ONE"}

Forbidden == ForbidObservations \/ BadWeather   \* get_forbidden()

\* late[f] are the handlers that sent a restricted command since flag f was last
\* raised: what it becomes when the flags are F and B and sender sends one.
LateAfter(F, B, sender) ==
  [forbid  |-> IF F THEN late.forbid  \cup sender ELSE {},
   weather |-> IF B THEN late.weather \cup sender ELSE {}]

TypeOK ==
  /\ CallTypeOK
  /\ ForbidObservations \in BOOLEAN /\ BadWeather \in BOOLEAN
  /\ tweather \in 0..(WeatherLost + 1)
  /\ cmdclosed \in BOOLEAN
  /\ mainpc \in {"weather", "poll", "polling", "check", "closing"}
  /\ handler \in [Handlers -> [pc : {"idle", "forbid?", "weather?", "run", "busy"},
                               do : Commands]]
  /\ weather \in [there : BOOLEAN, bad : BOOLEAN]
  /\ weatherAge \in 0..(WeatherLost + 1)
  /\ late \in [forbid : SUBSET Handlers, weather : SUBSET Handlers]
  /\ lowered \in BOOLEAN

Init ==
  /\ CallInit
  /\ ForbidObservations = FALSE /\ BadWeather = FALSE
  /\ tweather = WeatherLost + 1
  /\ cmdclosed = FALSE
  /\ mainpc = "weather"
  /\ handler = [h \in Handlers |-> NoRequest]
  /\ weather \in [there : BOOLEAN, bad : {FALSE}]
  /\ weatherAge = WeatherLost + 1
  /\ late = [forbid |-> {}, weather |-> {}]
  /\ lowered = FALSE

-----------------------------------------------------------------------------
(* The main loop of server_run(). *)

\* Mutant: the age of the data has the wrong sign, as it has in the two
\* sibling daemons, and lost weather is not noticed.
VerdictSignError == IF weather.there THEN weather.bad ELSE BadWeather

\* What a weather poll makes of BadWeather: the verdict on the data, or, with no
\* data, bad when the last data are too old.
Verdict ==
  IF weather.there THEN weatherAge > WeatherLost \/ weather.bad
                   ELSE BadWeather \/ tweather > WeatherLost

MainWeather ==
  /\ mainpc = "weather"
  /\ mainpc' = "poll"
  /\ \/ /\ tweather > WeathPoll
        /\ BadWeather' = Verdict
        /\ tweather' = IF weather.there THEN 0 ELSE tweather
        /\ late' = LateAfter(ForbidObservations, BadWeather', {})
        /\ lowered' = (lowered \/ (BadWeather /\ ~BadWeather'))
     \/ /\ tweather <= WeathPoll
        /\ UNCHANGED <<BadWeather, tweather, history>>
  /\ UNCHANGED <<callVars, ForbidObservations, cmdclosed, handler, skyVars>>

\* dome_poll(DOME_POLL, 0), whose result is not used.
MainPoll ==
  /\ mainpc = "poll"
  /\ mainpc' = "polling"
  /\ Enter(Main, Poll)
  /\ UNCHANGED <<flagVars, tweather, cmdclosed, handler, skyVars, history>>

MainPolled ==
  /\ mainpc = "polling"
  /\ mainpc' = "check"
  /\ Take(Main)
  /\ UNCHANGED <<flagVars, tweather, cmdclosed, handler, skyVars, history>>

\* Mutant: the close is noted as given before it is given.
MainCheckNotesFirst ==
  /\ mainpc = "check"
  /\ \/ /\ Forbidden /\ ~cmdclosed
        /\ mainpc' = "closing"
        /\ Enter(Main, Close)
        /\ cmdclosed' = TRUE
     \/ /\ Forbidden => cmdclosed
        /\ mainpc' = "weather"
        /\ cmdclosed' = Forbidden
        /\ UNCHANGED callVars
  /\ UNCHANGED <<flagVars, tweather, handler, skyVars, history>>

\* The main loop alone writes BadWeather, so its reads of both flags are one.
MainCheck ==
  /\ mainpc = "check"
  /\ \/ /\ Forbidden /\ ~cmdclosed
        /\ mainpc' = "closing"
        /\ Enter(Main, Close)
        /\ UNCHANGED cmdclosed
     \/ /\ Forbidden => cmdclosed
        /\ mainpc' = "weather"
        /\ cmdclosed' = Forbidden
        /\ UNCHANGED callVars
  /\ UNCHANGED <<flagVars, tweather, handler, skyVars, history>>

\* Mutant: the close is never noted as given.
MainClosedForgets ==
  /\ mainpc = "closing"
  /\ mainpc' = "weather"
  /\ Take(Main)
  /\ UNCHANGED <<flagVars, tweather, cmdclosed, handler, skyVars, history>>

MainClosed ==
  /\ mainpc = "closing"
  /\ mainpc' = "weather"
  /\ cmdclosed' = request[Main].ok
  /\ Take(Main)
  /\ UNCHANGED <<flagVars, tweather, handler, skyVars, history>>

MainStep == MainWeather \/ MainPoll \/ MainPolled \/ MainCheck \/ MainClosed

-----------------------------------------------------------------------------
(* The handlers: opendome, closedome, stopdome, halfmove, relay. *)

Receive(h, k) ==
  /\ handler[h].pc = "idle"
  /\ handler' = [handler EXCEPT ![h] =
                   [pc |-> IF Restricted(k) THEN "forbid?" ELSE "run", do |-> k]]
  /\ UNCHANGED <<callVars, flagVars, mainVars, skyVars, history>>

\* Mutant: CHKALLOWED() does not look at the manual ban.
CheckForbidSkipped(h) ==
  /\ handler[h].pc = "forbid?"
  /\ handler' = [handler EXCEPT ![h].pc = "weather?"]
  /\ UNCHANGED <<callVars, flagVars, mainVars, skyVars, history>>

\* CHKALLOWED(): the first operand of its || and then the second; RESULT_FAIL or on.
CheckForbid(h) ==
  /\ handler[h].pc = "forbid?"
  /\ handler' = [handler EXCEPT ![h] =
                   IF ForbidObservations THEN NoRequest ELSE [@ EXCEPT !.pc = "weather?"]]
  /\ UNCHANGED <<callVars, flagVars, mainVars, skyVars, history>>

\* Mutant: a refused client is left in a state of its own.
CheckWeatherStuck(h) ==
  /\ handler[h].pc = "weather?"
  /\ handler' = [handler EXCEPT ![h].pc = IF BadWeather THEN "refused" ELSE "run"]
  /\ UNCHANGED <<callVars, flagVars, mainVars, skyVars, history>>

CheckWeather(h) ==
  /\ handler[h].pc = "weather?"
  /\ handler' = [handler EXCEPT ![h] =
                   IF BadWeather THEN NoRequest ELSE [@ EXCEPT !.pc = "run"]]
  /\ UNCHANGED <<callVars, flagVars, mainVars, skyVars, history>>

CallPoll(h) ==
  /\ handler[h].pc = "run"
  /\ Enter(h, handler[h].do)
  /\ handler' = [handler EXCEPT ![h].pc = "busy"]
  /\ UNCHANGED <<flagVars, mainVars, skyVars, history>>

Reply(h) ==
  /\ handler[h].pc = "busy"
  /\ Take(h)
  /\ handler' = [handler EXCEPT ![h] = NoRequest]
  /\ UNCHANGED <<flagVars, mainVars, skyVars, history>>

HandlerStep(h) == CheckForbid(h) \/ CheckWeather(h) \/ CallPoll(h) \/ Reply(h)

-----------------------------------------------------------------------------
(* The calls in progress, with the history of who sent what when. *)

LockStep(t) ==
  /\ Lock(t)
  /\ UNCHANGED <<flagVars, mainVars, handler, skyVars, history>>

SendStep(t) ==
  /\ Send(t)
  /\ late' = LateAfter(ForbidObservations, BadWeather,
                       IF Restricted(request[t].do) THEN {t} \cap Handlers ELSE {})
  /\ lowered' = IF t = Main THEN ~Forbidden ELSE lowered
  /\ UNCHANGED <<flagVars, mainVars, handler, skyVars>>

AnswerStep(t) ==
  /\ Answer(t)
  /\ UNCHANGED <<flagVars, mainVars, handler, skyVars, history>>

StumbleStep ==
  /\ Stumble
  /\ UNCHANGED <<flagVars, mainVars, handler, skyVars, history>>

-----------------------------------------------------------------------------
(* The environment. *)

\* SIGUSR1 and SIGUSR2: forbid_observations(1) and (0).
Signal(F) ==
  /\ ForbidObservations' = F
  /\ late' = LateAfter(F, BadWeather, {})
  /\ lowered' = (lowered \/ (ForbidObservations /\ ~F))
  /\ UNCHANGED <<callVars, BadWeather, mainVars, handler, skyVars>>

\* weather_proxy writes a measurement into the shared memory, creates it empty
\* ("good", but as old as can be), or removes it.
SkyChanges ==
  /\ \/ /\ weather' \in [there : {TRUE}, bad : BOOLEAN]
        /\ weatherAge' = 0
     \/ /\ weather' \in [there : BOOLEAN, bad : {FALSE}]
        /\ weatherAge' = WeatherLost + 1
  /\ UNCHANGED <<callVars, flagVars, mainVars, handler, history>>

Older(age) == IF age <= WeatherLost THEN age + 1 ELSE age

Tick ==
  /\ tweather' = Older(tweather)
  /\ weatherAge' = Older(weatherAge)
  /\ UNCHANGED <<callVars, flagVars, cmdclosed, mainpc, handler, weather, history>>

\* The process ends and its parent starts it again: the flags, the manual ban
\* among them, and cmdclosed start anew.
Restart ==
  /\ Reset
  /\ ForbidObservations' = FALSE /\ BadWeather' = FALSE
  /\ tweather' = WeatherLost + 1
  /\ cmdclosed' = FALSE
  /\ mainpc' = "weather"
  /\ handler' = [h \in Handlers |-> NoRequest]
  /\ late' = [forbid |-> {}, weather |-> {}]
  /\ lowered' = FALSE
  /\ UNCHANGED skyVars

Next ==
  \/ MainStep
  \/ \E h \in Handlers : HandlerStep(h) \/ \E k \in Requests : Receive(h, k)
  \/ \E t \in Threads : LockStep(t) \/ SendStep(t) \/ AnswerStep(t)
  \/ StumbleStep
  \/ \E F \in BOOLEAN : Signal(F)
  \/ SkyChanges
  \/ Tick
  \/ Restart

Spec == Init /\ [][Next]_vars

\* Each thread goes on and time passes; the lock starves no thread that waits
\* for it; the status after a close that is repeated for ever arrives at last.
Fairness ==
  /\ WF_vars(MainStep)
  /\ \A h \in Handlers : WF_vars(HandlerStep(h))
  /\ \A t \in Threads : SF_vars(LockStep(t)) /\ WF_vars(SendStep(t) \/ AnswerStep(t))
  /\ SF_vars(request[Main].do = Close /\ AnswerStep(Main) /\ request'[Main].ok)
  /\ WF_vars(Tick)
FairSpec == Spec /\ Fairness
=============================================================================
