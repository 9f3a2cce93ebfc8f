---------------------------- MODULE DomeCommands ----------------------------
(* The commands of dome_poll (dome.h) and what a call of it is given. *)

MoveCmds  == {"DOME_OPEN", "DOME_CLOSE", "DOME_OPEN_ONE", "DOME_CLOSE_ONE"}
RelayCmds == {"DOME_RELAY_ON", "DOME_RELAY_OFF"}
Cmds == MoveCmds \cup RelayCmds \cup {"DOME_STOP", "DOME_POLL"}

\* The commands that change what the roof is doing.
Orders == MoveCmds \cup {"DOME_STOP"}

Poll  == [cmd |-> "DOME_POLL",  par |-> 0]
Close == [cmd |-> "DOME_CLOSE", par |-> 0]

NoThread == "no thread"
=============================================================================
