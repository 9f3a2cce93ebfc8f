----------------------------- MODULE MCTelDaemon -----------------------------
(* teldaemon_astrosib with few commands and one focuser slot. *)
EXTENDS TelDaemonProps

MCCommands == {"CMD_OPEN", "CMD_CLOSE", "CMD_FOCSTOP"}
MCAxes == {"Relmove"}
MCNoAxes == {}
MCFewCommands == {"CMD_OPEN", "CMD_CLOSE"}
MCOnlyClose == {"CMD_CLOSE"}
=============================================================================
