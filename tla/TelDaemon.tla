------------------------------ MODULE TelDaemon ------------------------------
(***************************************************************************)
(* socket.c of teldaemon_astrosib: shutters, mirror cooler and heater, and *)
(* focuser of the telescope, behind one serial line.                       *)
(*                                                                         *)
(* Clients do not talk to the device.  The thread of the socket leaves     *)
(* their command in telescope.cmd, which has room for one, and the main    *)
(* loop copies it, executes the copy and writes the copy back: CMD_NONE if *)
(* it was executed, else the command, which is then tried again.  Focuser  *)
(* moves have slots of their own, valid for some seconds.  The serial line *)
(* is used by the main loop alone.                                         *)
(*                                                                         *)
(* term_cmdwans() writes a command and reads what has arrived a little     *)
(* later.  Nothing is flushed before, so an answer that comes too late is  *)
(* taken by the next exchange; all answers begin with "OK".                *)
(*                                                                         *)
(* Times are ages that stop at the bound; the age of a focuser request and *)
(* T_INTERVAL are left open: a request may be too old, and a poll due, at  *)
(* any time.                                                               *)
(***************************************************************************)
EXTENDS Integers

CONSTANTS Commands,     \* what the clients ask: members of TelCommands
          Axes,         \* the focuser slots they use: "Absmove", "Relmove"
          Faults,       \* whether exchanges may fail and the process may end
          WeatherLost   \* WEATHER_LOST

TelCommands == {"CMD_OPEN", "CMD_CLOSE", "CMD_FOCSTOP", "CMD_COOLERON",
                "CMD_COOLEROFF", "CMD_HEATERON", "CMD_HEATEROFF"}
None == "CMD_NONE"

ASSUME TelAssumption ==
  /\ Commands \subseteq TelCommands
  /\ Axes \subseteq {"Absmove", "Relmove"}
  /\ Faults \in BOOLEAN
  /\ WeatherLost \in Nat

VARIABLES cmd,          \* telescope.cmd; errcmd, its copy for "status", is left out
          focus,        \* Absmove and Relmove: is there a request, is it in range
          ForbidObservations, BadWeather,
          client,       \* where the socket's thread is in openh
          mainpc,       \* where the main loop is
          forbidden,    \* the main loop has closed the shutters for this ban
          tcmd,         \* the main loop's copy of cmd
          tweather,     \* age of the main loop's last weather
          weather, weatherAge,  \* the shared memory of weather_proxy
          belated,      \* a late answer waits in the serial line
          order,        \* history: the last order the shutters obeyed
          accepted,     \* history: the last accepted command, until it is obeyed
          raced,        \* history: it was accepted while the main loop had a copy
          fresh,        \* history: requests for a move that no move has answered
          lowered,      \* history: a flag went down since the ban's close began
          misled,       \* history: an answer has come too late
          faulted       \* history: an exchange has failed, or the daemon restarted

flagVars == <<ForbidObservations, BadWeather>>
skyVars  == <<tweather, weather, weatherAge>>
lineVars == <<belated, misled, faulted>>
telVars  == <<cmd, focus, flagVars, client, mainpc, forbidden, tcmd, skyVars,
              lineVars, order, accepted, raced, fresh, lowered>>

Requests == {"none", "in range", "out of range"}
Working == {"work", "send", "store"}   \* the main loop has a copy of cmd
MainPCs == {"top", "closing", "clear", "weather", "poll", "take", "Absmove", "move Absmove",
            "Relmove", "move Relmove"} \cup Working

TelTypeOK ==
  /\ cmd \in TelCommands \cup {None} /\ tcmd \in TelCommands \cup {None}
  /\ focus \in [{"Absmove", "Relmove"} -> Requests]
  /\ ForbidObservations \in BOOLEAN /\ BadWeather \in BOOLEAN
  /\ client \in {"idle", "forbid?", "weather?"}
  /\ mainpc \in MainPCs
  /\ forbidden \in BOOLEAN
  /\ tweather \in 0..(WeatherLost + 1) /\ weatherAge \in 0..(WeatherLost + 1)
  /\ weather \in [there : BOOLEAN, bad : BOOLEAN]
  /\ belated \in BOOLEAN
  /\ order \in {"none", "CMD_OPEN", "CMD_CLOSE"}
  /\ accepted \in TelCommands \cup {None}
  /\ raced \in BOOLEAN
  /\ fresh \in [{"Absmove", "Relmove"} -> BOOLEAN]
  /\ lowered \in BOOLEAN
  /\ misled \in BOOLEAN /\ faulted \in BOOLEAN
  /\ (misled => faulted) /\ (belated => misled) /\ (faulted => Faults)

TelInit ==
  /\ cmd = None /\ tcmd = None
  /\ focus = [a \in {"Absmove", "Relmove"} |-> "none"]
  /\ ForbidObservations = FALSE /\ BadWeather = FALSE
  /\ client = "idle"
  /\ mainpc = "top"
  /\ forbidden = FALSE
  /\ tweather = WeatherLost + 1 /\ weatherAge = WeatherLost + 1
  /\ weather \in [there : BOOLEAN, bad : {FALSE}]
  /\ belated = FALSE
  /\ order = "none" /\ accepted = None /\ raced = FALSE /\ lowered = FALSE
  /\ fresh = [a \in {"Absmove", "Relmove"} |-> FALSE]
  /\ misled = FALSE /\ faulted = FALSE

Forbidden == ForbidObservations \/ BadWeather
Unlocked == client = "idle"   \* openh holds telescope.mutex while it looks at the flags

-----------------------------------------------------------------------------
(* The handlers. *)

\* A handler leaves its command, over what was there.
Leave(c) ==
  /\ cmd' = c
  /\ accepted' = c
  /\ raced' = (mainpc \in Working)

\* closeh, fstoph, coolerh, heaterh: no CHKALLOWED.
Accept(c) ==
  /\ Unlocked
  /\ c # "CMD_OPEN"
  /\ Leave(c)
  /\ UNCHANGED <<focus, flagVars, client, mainpc, forbidden, tcmd, skyVars,
                 lineVars, order, fresh, lowered>>

clientOnly == <<cmd, focus, flagVars, mainpc, forbidden, tcmd, skyVars,
                lineVars, order, accepted, raced, fresh, lowered>>

\* openh: lock, CHKALLOWED with its two reads, leave the command, unlock.
OpenLock ==
  /\ Unlocked
  /\ "CMD_OPEN" \in Commands
  /\ client' = "forbid?"
  /\ UNCHANGED clientOnly

\* Mutant: a refused client returns with the mutex held.
OpenForbidKeepsLock ==
  /\ client = "forbid?"
  /\ client' = IF ForbidObservations THEN "refused" ELSE "weather?"
  /\ UNCHANGED clientOnly

OpenForbid ==
  /\ client = "forbid?"
  /\ client' = IF ForbidObservations THEN "idle" ELSE "weather?"
  /\ UNCHANGED clientOnly

OpenWeather ==
  /\ client = "weather?"
  /\ client' = "idle"
  /\ IF BadWeather THEN UNCHANGED <<cmd, accepted, raced>> ELSE Leave("CMD_OPEN")
  /\ UNCHANGED <<focus, flagVars, mainpc, forbidden, tcmd, skyVars,
                 lineVars, order, fresh, lowered>>

\* sl_sock_inthandler writes a number and its timestamp, without telescope.mutex.
Request(a, r) ==
  /\ Unlocked
  /\ r # "none"
  /\ focus' = [focus EXCEPT ![a] = r]
  /\ fresh' = [fresh EXCEPT ![a] = TRUE]
  /\ UNCHANGED <<cmd, flagVars, client, mainpc, forbidden, tcmd, skyVars,
                 lineVars, order, accepted, raced, lowered>>

-----------------------------------------------------------------------------
(* The serial line, used by the main loop. *)

\* term_cmdwans() of a command that reaches the device (and is obeyed) or not, and
\* finds an "OK" or not: its own, or one that waited there.  What it leaves unread
\* is an answer that is still to come, or, if the write fails, what waited.
Exchange(reached, ok) ==
  /\ ok => reached \/ belated
  /\ \/ /\ belated => ok
        /\ belated' \in IF reached /\ (belated \/ ~ok) THEN BOOLEAN ELSE {FALSE}
     \/ ~reached /\ ~ok /\ belated' = belated
  /\ misled' = (misled \/ belated')
  /\ faulted' = (faulted \/ ~reached \/ ~ok \/ belated')
  /\ faulted' => Faults

\* What the telescope makes of a command that reaches it.
Obeyed(c, reached) ==
  /\ order' = IF reached /\ c \in {"CMD_OPEN", "CMD_CLOSE"} THEN c ELSE order
  /\ accepted' = IF reached /\ c = accepted THEN None ELSE accepted

-----------------------------------------------------------------------------
(* The main loop of runserver(). *)

\* The ban: a close is due if the flags are up and none was done for this ban.
MainTop ==
  /\ mainpc = "top"
  /\ \/ /\ Forbidden /\ ~forbidden
        /\ mainpc' = "closing"
        /\ lowered' = FALSE
        /\ UNCHANGED forbidden
     \/ /\ Forbidden => forbidden
        /\ mainpc' = "weather"
        /\ forbidden' = Forbidden
        /\ UNCHANGED lowered
  /\ UNCHANGED <<cmd, focus, flagVars, client, tcmd, skyVars, lineVars,
                 order, accepted, raced, fresh>>

\* Mutant: the ban counts as closed whatever the device answered.
MainCloseAnyAnswer ==
  /\ mainpc = "closing"
  /\ mainpc' = "clear"
  /\ \E reached, ok \in BOOLEAN : Exchange(reached, ok) /\ Obeyed("CMD_CLOSE", reached)
  /\ forbidden' = TRUE
  /\ UNCHANGED <<cmd, focus, flagVars, client, tcmd, skyVars, raced, fresh, lowered>>

\* Mutant: the close is never noted.
MainCloseForgets ==
  /\ mainpc = "closing"
  /\ mainpc' = "clear"
  /\ \E reached, ok \in BOOLEAN : Exchange(reached, ok) /\ Obeyed("CMD_CLOSE", reached)
  /\ UNCHANGED <<cmd, focus, flagVars, client, forbidden, tcmd, skyVars, raced, fresh,
                 lowered>>

MainClose ==
  /\ mainpc = "closing"
  /\ mainpc' = "clear"
  /\ \E reached, ok \in BOOLEAN :
       Exchange(reached, ok) /\ Obeyed("CMD_CLOSE", reached) /\ forbidden' = ok
  /\ UNCHANGED <<cmd, focus, flagVars, client, tcmd, skyVars, raced, fresh, lowered>>

\* Mutant: a waiting command is kept through the ban.
MainClearKeeps ==
  /\ mainpc = "clear"
  /\ Unlocked
  /\ mainpc' = "weather"
  /\ UNCHANGED <<cmd, focus, flagVars, client, forbidden, tcmd, skyVars, lineVars,
                 order, accepted, raced, fresh, lowered>>

\* Whatever waited for the main loop is dropped by the ban.
MainClear ==
  /\ mainpc = "clear"
  /\ Unlocked
  /\ mainpc' = "weather"
  /\ cmd' = None
  /\ accepted' = None
  /\ UNCHANGED <<focus, flagVars, client, forbidden, tcmd, skyVars, lineVars,
                 order, raced, fresh, lowered>>

\* What a weather poll makes of BadWeather.  Both ages are subtracted the other way
\* round in the code, last_update - tnow and tweather - tnow.
Verdict ==
  IF weather.there THEN -weatherAge > WeatherLost \/ weather.bad
                   ELSE BadWeather \/ -tweather > WeatherLost

MainWeather ==
  /\ mainpc = "weather"
  /\ \/ /\ mainpc' = "poll"                     \* T_INTERVAL is over
        /\ BadWeather' = Verdict
        /\ tweather' = IF weather.there THEN 0 ELSE tweather
        /\ lowered' = (lowered \/ (BadWeather /\ ~BadWeather'))
     \/ /\ mainpc' = "take"
        /\ UNCHANGED <<BadWeather, tweather, lowered>>
  /\ UNCHANGED <<cmd, focus, ForbidObservations, client, forbidden, tcmd, weather,
                 weatherAge, lineVars, order, accepted, raced, fresh>>

\* poll_device(): five exchanges that look for longer answers than "OK".
MainPoll ==
  /\ mainpc = "poll"
  /\ mainpc' = "take"
  /\ \/ ~belated /\ UNCHANGED lineVars
     \/ /\ Faults /\ faulted' = TRUE
        /\ belated' \in BOOLEAN
        /\ misled' = (misled \/ belated')
  /\ UNCHANGED <<cmd, focus, flagVars, client, forbidden, tcmd, skyVars,
                 order, accepted, raced, fresh, lowered>>

MainTake ==
  /\ mainpc = "take"
  /\ Unlocked
  /\ mainpc' = "work"
  /\ tcmd' = cmd
  /\ UNCHANGED <<cmd, focus, flagVars, client, forbidden, skyVars, lineVars,
                 order, accepted, raced, fresh, lowered>>

\* Mutant: under a ban no command of the shutters is executed.
MainWorkNoShutters ==
  /\ mainpc = "work"
  /\ mainpc' = IF tcmd = None \/ (tcmd \in {"CMD_OPEN", "CMD_CLOSE"} /\ Forbidden)
                 THEN "store" ELSE "send"
  /\ UNCHANGED <<cmd, focus, flagVars, client, forbidden, tcmd, skyVars, lineVars,
                 order, accepted, raced, fresh, lowered>>

\* Under a ban an open stays in tcmd, and goes back to where it came from.
MainWork ==
  /\ mainpc = "work"
  /\ mainpc' = IF tcmd = None \/ (tcmd = "CMD_OPEN" /\ Forbidden) THEN "store" ELSE "send"
  /\ UNCHANGED <<cmd, focus, flagVars, client, forbidden, tcmd, skyVars, lineVars,
                 order, accepted, raced, fresh, lowered>>

\* "no answer for this command": CMD_FOCSTOP is written once, and what waits in
\* the line is read and thrown away, unless the write fails.
MainSend ==
  /\ mainpc = "send"
  /\ mainpc' = "store"
  /\ \E reached, ok \in BOOLEAN :
       /\ Obeyed(tcmd, reached)
       /\ \/ /\ tcmd # "CMD_FOCSTOP"
             /\ Exchange(reached, ok)
             /\ tcmd' = IF ok THEN None ELSE tcmd
          \/ /\ tcmd = "CMD_FOCSTOP"
             /\ belated' \in IF reached THEN {FALSE} ELSE {FALSE, belated}
             /\ reached \/ Faults
             /\ faulted' = (faulted \/ ~reached)
             /\ tcmd' = None
             /\ UNCHANGED misled
  /\ UNCHANGED <<cmd, focus, flagVars, client, forbidden, skyVars, raced, fresh, lowered>>

\* Mutant: a command that failed is not tried again.
MainStoreDrops ==
  /\ mainpc = "store"
  /\ Unlocked
  /\ mainpc' = "Absmove"
  /\ cmd' = None /\ tcmd' = None
  /\ UNCHANGED <<focus, flagVars, client, forbidden, skyVars, lineVars,
                 order, accepted, raced, fresh, lowered>>

\* telescope.cmd = telescope.errcmd = tcmd, which ends its life here.
MainStore ==
  /\ mainpc = "store"
  /\ Unlocked
  /\ mainpc' = "Absmove"
  /\ cmd' = tcmd /\ tcmd' = None
  /\ UNCHANGED <<focus, flagVars, client, forbidden, skyVars, lineVars,
                 order, accepted, raced, fresh, lowered>>

After(a) == IF a = "Absmove" THEN "Relmove" ELSE "top"
MoveOf(a) == IF a = "Absmove" THEN "move Absmove" ELSE "move Relmove"

\* Is there a request, young enough and in range?  Its number is read here.
MainFocus(a) ==
  /\ mainpc = a
  /\ focus' = [focus EXCEPT ![a] = IF @ = "out of range" THEN "none" ELSE @]
  /\ mainpc' = IF focus[a] = "in range" THEN MoveOf(a) ELSE After(a)
  /\ UNCHANGED <<cmd, flagVars, client, forbidden, tcmd, skyVars, lineVars,
                 order, accepted, raced, fresh, lowered>>

\* Mutant: a move that was answered is not taken from its slot.
MainMoveKeeps(a) ==
  /\ mainpc = MoveOf(a)
  /\ mainpc' = After(a)
  /\ \E reached, ok \in BOOLEAN :
       /\ Exchange(reached, ok)
       /\ fresh' = [fresh EXCEPT ![a] = @ /\ ~reached]
  /\ UNCHANGED <<cmd, focus, flagVars, client, forbidden, tcmd, skyVars,
                 order, accepted, raced, lowered>>

\* The move; an answer empties the slot, whatever was written to it meanwhile.
MainMove(a) ==
  /\ mainpc = MoveOf(a)
  /\ mainpc' = After(a)
  /\ \E reached, ok \in BOOLEAN :
       /\ Exchange(reached, ok)
       /\ fresh' = [fresh EXCEPT ![a] = @ /\ ~reached]
       /\ focus' = [focus EXCEPT ![a] = IF ok THEN "none" ELSE @]
  /\ UNCHANGED <<cmd, flagVars, client, forbidden, tcmd, skyVars,
                 order, accepted, raced, lowered>>

-----------------------------------------------------------------------------
(* Around the two threads. *)

\* SIGUSR1 and SIGUSR2.
Signal(F) ==
  /\ ForbidObservations' = F
  /\ lowered' = (lowered \/ (ForbidObservations /\ ~F))
  /\ UNCHANGED <<cmd, focus, BadWeather, client, mainpc, forbidden, tcmd, skyVars,
                 lineVars, order, accepted, raced, fresh>>

\* weather_proxy writes a measurement, creates the memory empty, or removes it.
SkyChanges ==
  /\ \/ weather' \in [there : {TRUE}, bad : BOOLEAN] /\ weatherAge' = 0
     \/ weather' \in [there : BOOLEAN, bad : {FALSE}] /\ weatherAge' = WeatherLost + 1
  /\ UNCHANGED <<cmd, focus, flagVars, client, mainpc, forbidden, tcmd, tweather,
                 lineVars, order, accepted, raced, fresh, lowered>>

Older(age) == IF age <= WeatherLost THEN age + 1 ELSE age

\* Time passes, and requests for a move get too old.
Tick ==
  /\ tweather' = Older(tweather) /\ weatherAge' = Older(weatherAge)
  /\ focus' \in {[a \in {"Absmove", "Relmove"} |-> IF a \in old THEN "none" ELSE focus[a]] :
                  old \in SUBSET Axes}
  /\ UNCHANGED <<cmd, flagVars, client, mainpc, forbidden, tcmd, weather,
                 lineVars, order, accepted, raced, fresh, lowered>>

\* The child dies and the guard of main() forks another one.
Restart ==
  /\ Faults /\ faulted' = TRUE
  /\ cmd' = None /\ tcmd' = None
  /\ focus' = [a \in {"Absmove", "Relmove"} |-> "none"]
  /\ ForbidObservations' = FALSE /\ BadWeather' = FALSE
  /\ client' = "idle"
  /\ mainpc' = "top"
  /\ forbidden' = FALSE
  /\ tweather' = WeatherLost + 1
  /\ accepted' = None /\ raced' = FALSE /\ lowered' = FALSE
  /\ fresh' = [a \in {"Absmove", "Relmove"} |-> FALSE]
  /\ UNCHANGED <<weather, weatherAge, belated, misled, order>>

ClientStep == OpenForbid \/ OpenWeather
MainStep ==
  \/ MainTop \/ MainClose \/ MainClear \/ MainWeather \/ MainPoll \/ MainTake
  \/ MainWork \/ MainSend \/ MainStore
  \/ \E a \in {"Absmove", "Relmove"} : MainFocus(a) \/ MainMove(a)

TelNext ==
  \/ \E c \in Commands : Accept(c)
  \/ OpenLock \/ ClientStep
  \/ \E a \in Axes, r \in Requests : Request(a, r)
  \/ MainStep
  \/ \E F \in BOOLEAN : Signal(F)
  \/ SkyChanges \/ Tick \/ Restart

TelSpec == TelInit /\ [][TelNext]_telVars

\* Both threads go on, the mutex starves neither, time passes, and an exchange that
\* is repeated for ever succeeds at last.
TelFairness ==
  /\ WF_telVars(ClientStep) /\ WF_telVars(Tick)
  /\ SF_telVars(MainStep)
  /\ SF_telVars(MainClose /\ forbidden') /\ SF_telVars(MainSend /\ tcmd' = None)
TelFairSpec == TelSpec /\ TelFairness
=============================================================================
