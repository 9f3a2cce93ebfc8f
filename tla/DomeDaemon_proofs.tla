-------------------------- MODULE DomeDaemon_proofs --------------------------
(***************************************************************************)
(* domedaemon-astrosib as a whole: server.c works with the dome_poll of    *)
(* dome.c.  Both modules speak of the same calls, DomeServer of what they  *)
(* promise and DomePoll of how they are made, so the daemon is a behaviour *)
(* of both; a step of a call is a step of both modules at once.            *)
(*                                                                         *)
(* What was proved about each alone gives what neither can say: where the  *)
(* covers of the roof are when the main loop believes that it closed them. *)
(***************************************************************************)
EXTENDS DomePoll_proofs

CONSTANTS Main, Handlers, WeathPoll, WeatherLost

VARIABLES ForbidObservations, BadWeather, tweather, cmdclosed, mainpc, handler,
          weather, weatherAge, late, lowered

Server == INSTANCE DomeServer_proofs WITH
  holder <- serialmutex, request <- [t \in Threads |-> Abstract(call[t])]

DaemonSpec == PollSpec /\ Server!Spec

\* The close of a ban was spoiled by what CloseIsTheLastWord and RoofObeys name: a flag
\* that went down, a handler that was late, a failed exchange or a restart, a motion
\* ordered in the pause of the one before.
Spoiled == lowered \/ late.forbid \cup late.weather # {} \/ faulted \/ paused

\* While the main loop has its close noted, every cover is closed, or on its way and
\* its motor powered (server_run and chkrelay).
RoofIsClosed ==
  cmdclosed /\ ~Spoiled /\ ~MotRelayByHand => \A c \in Covers : Follows(c, "closing")

-----------------------------------------------------------------------------
\* DomeCall is the same for both: Promise and Server see the same calls.
LEMMA SameCalls ==
  /\ Promise!CallInit => Server!CallInit
  /\ [Promise!CallNext]_(Promise!callVars) => [Server!CallNext]_(Server!callVars)
BY DEF Promise!CallInit, Promise!CallNext, Promise!callVars, Promise!CallStep, Promise!Enter,
       Promise!Lock, Promise!Send, Promise!Stumble, Promise!Answer, Promise!Take, Promise!Reset,
       Promise!Blame, Promise!Idle, Promise!Poll, Promise!NoThread, Promise!Orders,
       Promise!MoveCmds,
       Server!CallInit, Server!CallNext, Server!callVars, Server!CallStep, Server!Enter,
       Server!Lock, Server!Send, Server!Stumble, Server!Answer, Server!Take, Server!Reset,
       Server!Blame, Server!Idle, Server!Poll, Server!NoThread, Server!Orders,
       Server!MoveCmds

\* Both sides keep to DomeCall: server.c calls dome_poll as it allows, and the dome_poll
\* of dome.c does what it promises to them.
THEOREM BothKeepTheInterface ==
  ASSUME Server!ServerAssumption
  PROVE  /\ Server!Spec => Server!CallSpec
         /\ PollSpec => Server!CallSpec
<1>1. Server!Spec => Server!CallSpec
  BY Server!CallsAreDomeCalls
<1>2. PollSpec => Server!CallSpec
  <2>1. PollSpec => Promise!CallSpec
    BY PromiseKept DEF KeepsPromise
  <2> QED BY <2>1, SameCalls, PTL DEF Promise!CallSpec, Server!CallSpec
<1> QED BY <1>1, <1>2

\* The close of a ban is not only noted and obeyed: the roof closes.
THEOREM BanMovesTheRoof ==
  ASSUME Server!ServerAssumption PROVE DaemonSpec => []RoofIsClosed
<1>1. Server!Spec => []Server!CloseIsTheLastWord
  BY Server!LastWord
<1>2. PollSpec => []RoofObeys
  BY RoofDoesAsTold
<1>3. Server!CloseIsTheLastWord /\ RoofObeys => RoofIsClosed
  BY DEF Server!CloseIsTheLastWord, RoofObeys, RoofIsClosed, Spoiled
<1> QED BY <1>1, <1>2, <1>3, PTL DEF DaemonSpec
=============================================================================
