----------------------------- MODULE DomeDevice -----------------------------
(***************************************************************************)
(* The Astrosib roof as domedaemon-astrosib sees it through the serial     *)
(* line: covers that travel between two end positions, relays, one of      *)
(* which feeds the motors, and a controller that obeys text commands.      *)
(* This is hardware: it is modelled from what dome.c sends to it and reads *)
(* back from it, and nothing here is the daemon's own state.               *)
(***************************************************************************)
EXTENDS Integers

CONSTANTS Covers,     \* the covers of the roof: north and south
          Relays,     \* the relays, NRELAY_MIN..NRELAY_MAX
          MotRelay    \* MOTRELAY_NO, the relay that powers the motors

ASSUME DeviceAssumption == MotRelay \in Relays /\ Covers # {}

VARIABLES cover,    \* where each cover is
          drive,    \* what the controller is doing with each cover
          relay,    \* which relays are on
          lagging   \* covers that were told to move and have not left their end yet

devVars == <<cover, drive, relay, lagging>>

Positions == {"intermediate", "opened", "closed"}
Drives    == {"none", "opening", "closing"}

DevTypeOK ==
  /\ cover \in [Covers -> Positions]
  /\ drive \in [Covers -> Drives]
  /\ relay \in [Relays -> BOOLEAN]
  /\ lagging \subseteq Covers

\* A roof at rest, motors off; the daemon may find it anywhere.
DevInit ==
  /\ cover \in [Covers -> Positions]
  /\ drive = [c \in Covers |-> "none"]
  /\ relay = [r \in Relays |-> FALSE]
  /\ lagging = {}

Target(d) == IF d = "opening" THEN "opened" ELSE "closed"

\* The drive of a cover that is ordered to go in direction d.
Towards(c, d) == IF cover[c] = Target(d) THEN "none" ELSE d

\* What a command makes of the drives. "due to bug in documentation, 0 - OPEN".
DriveAfter(cmd, par) ==
  [c \in Covers |->
     CASE cmd = "DOME_OPEN"  -> Towards(c, "opening")
       [] cmd = "DOME_CLOSE" -> Towards(c, "closing")
       [] cmd = "DOME_OPEN_ONE"  /\ c = par -> Towards(c, "opening")
       [] cmd = "DOME_CLOSE_ONE" /\ c = par -> Towards(c, "closing")
       [] cmd = "DOME_STOP" -> "none"
       [] OTHER -> drive[c]]

\* The controller accepts a motion command.
Obey(cmd, par) ==
  /\ drive' = DriveAfter(cmd, par)
  /\ lagging' = lagging \ {c \in Covers : drive'[c] # drive[c]}
  /\ UNCHANGED <<cover, relay>>

\* A relay is switched; covers whose motors lose power stop where they are.
Switch(r, on) ==
  /\ relay' = [relay EXCEPT ![r] = on]
  /\ IF r = MotRelay /\ ~on
       THEN drive' = [c \in Covers |-> "none"] /\ lagging' = {}
       ELSE UNCHANGED <<drive, lagging>>
  /\ UNCHANGED cover

\* A powered cover covers half of its way.
Travel(c) ==
  /\ relay[MotRelay]
  /\ drive[c] # "none"
  /\ cover' = [cover EXCEPT ![c] = IF @ = "intermediate" THEN Target(drive[c])
                                                        ELSE "intermediate"]
  /\ drive' = [drive EXCEPT ![c] = IF cover'[c] = Target(@) THEN "none" ELSE @]
  /\ lagging' = lagging \ {c}
  /\ UNCHANGED relay

\* A powered cover that was told to move leaves its end position within a unit
\* of time; without this the end switches say nothing about a started motion.
Starting(c) == relay[MotRelay] /\ drive[c] # "none" /\ cover[c] # "intermediate"
DevTick ==
  /\ \A c \in lagging : ~Starting(c)
  /\ lagging' = {c \in Covers : Starting(c)}
  /\ UNCHANGED <<cover, drive, relay>>

AtRest == \A c \in Covers : drive[c] = "none"
=============================================================================
