---------------------------- MODULE MCDomeServer ----------------------------
(* domedaemon-astrosib: the main loop and the client threads. *)
EXTENDS DomeServerProps

MCHandlers == {"client"}
MCThreads == {"main"} \cup MCHandlers
MCCommands ==
  {Poll, Close, [cmd |-> "DOME_OPEN", par |-> 0], [cmd |-> "DOME_RELAY_OFF", par |-> 1]}
MCFewCommands == {Poll, Close}
=============================================================================
