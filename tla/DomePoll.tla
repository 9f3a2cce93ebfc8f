------------------------------ MODULE DomePoll ------------------------------
(***************************************************************************)
(* dome.c of domedaemon-astrosib: the finite state machine of the roof.    *)
(*                                                                         *)
(* dome_poll() is called by the main loop and by the thread that serves    *)
(* the clients.  A call takes serialmutex and then talks to the device in  *)
(* several exchanges; between two exchanges the roof moves, time passes    *)
(* and the other thread runs.  A call is a record of where it is:          *)
(*   out -> wait -> motors -> cmd -> status -> poweroff -> ret -> done     *)
(* and "done" is a call that has returned and whose value was not used yet.*)
(*                                                                         *)
(* An exchange fails in one of three ways when Faults is TRUE: the device  *)
(* does not get the command, or refuses it, or obeys and its answer is     *)
(* lost.                                                                   *)
(*                                                                         *)
(* Times are ages that stop counting at the largest bound the code         *)
(* compares them with.                                                     *)
(***************************************************************************)
EXTENDS DomeDevice, DomeCommands

CONSTANTS Threads,     \* the threads that call dome_poll
          Commands,    \* the calls they make: records [cmd, par]
          Faults,      \* whether exchanges with the device may fail
          PowerStop,   \* POWER_STOP_TIMEOUT
          StatusIdle,  \* STATUSREQ_IDLE
          StatusMove   \* STATUSREQ_MOVE

\* The parameter is a cover for the ONE commands, a relay for the relay
\* commands, and 0 otherwise: the handlers check the range before the call.
WellFormed(k) ==
  /\ k.cmd \in {"DOME_OPEN_ONE", "DOME_CLOSE_ONE"} => k.par \in Covers
  /\ k.cmd \in RelayCmds => k.par \in Relays
  /\ k.cmd = "DOME_POLL" => k = Poll

ASSUME PollAssumption ==
  /\ \A k \in Commands : k.cmd \in Cmds /\ WellFormed(k)
  /\ Poll \in Commands
  /\ NoThread \notin Threads
  /\ Faults \in BOOLEAN
  /\ StatusMove \in Nat /\ StatusIdle \in Nat /\ PowerStop \in Nat
  /\ StatusMove < PowerStop
  /\ 1 < PowerStop   \* longer than a cover needs to leave its end, see DevTick

VARIABLES state,        \* the state of the machine, IDLE or MOVING
          oldstate,     \* chkrelay's static: IDLE while the power-off pause runs
          t0,           \* chkrelay's static: age of the pause
          statusAge,    \* age of last_status_time
          interval,     \* status_req_interval
          serialmutex,  \* who holds the lock, or NoThread
          call,         \* what each thread is doing in dome_poll
          order,        \* history: the last order the device obeyed
          paused,       \* history: a motion command was sent in the pause
          faulted       \* history: an exchange has failed, or the daemon restarted

fsmVars  == <<state, oldstate, t0, statusAge, interval>>
callVars == <<serialmutex, call>>
history  == <<order, paused, faulted>>
pollVars == <<devVars, fsmVars, callVars, history>>

NoCall == [pc |-> "out", do |-> Poll, ret |-> "DOME_S_ERROR", obeyed |-> FALSE]
PCs == {"out", "wait", "motors", "cmd", "status", "poweroff", "ret", "done"}
Inside == {"motors", "cmd", "status", "poweroff", "ret"}  \* serialmutex is held
States == {"DOME_S_IDLE", "DOME_S_MOVING"}
Results == States \cup {"DOME_S_ERROR"}

PollTypeOK ==
  /\ DevTypeOK
  /\ state \in States
  /\ oldstate \in States
  /\ t0 \in 0..PowerStop
  /\ statusAge \in 0..StatusIdle
  /\ interval \in {StatusIdle, StatusMove}
  /\ order \in Orders \cup {"none"}
  /\ paused \in BOOLEAN
  /\ faulted \in BOOLEAN /\ (faulted => Faults)
  /\ serialmutex \in Threads \cup {NoThread}
  /\ call \in [Threads -> [pc : PCs, do : Commands, ret : Results, obeyed : BOOLEAN]]

\* The statics of dome.c as the process starts.
PollInit ==
  /\ DevInit
  /\ state = "DOME_S_IDLE"
  /\ oldstate = "DOME_S_MOVING"
  /\ t0 = PowerStop
  /\ statusAge = StatusIdle
  /\ interval = StatusMove
  /\ serialmutex = NoThread
  /\ call = [t \in Threads |-> NoCall]
  /\ order = "none"
  /\ paused = FALSE
  /\ faulted = FALSE

Goto(t, pc) == call' = [call EXCEPT ![t].pc = pc]

-----------------------------------------------------------------------------
(* The steps of a call. *)

\* "simple polling and there's a lot of time until next serial device poll"
TooEarly(k) == k.cmd = "DOME_POLL" /\ statusAge < interval

Enter(t, k) ==
  /\ call[t].pc = "out"
  /\ call' = [call EXCEPT ![t] =
       IF TooEarly(k) THEN [NoCall EXCEPT !.pc = "done", !.ret = state]
                      ELSE [NoCall EXCEPT !.pc = "wait", !.do = k]]
  /\ UNCHANGED <<devVars, fsmVars, serialmutex, history>>

\* Mutant: dome_poll does not lock.
LockMissing(t) ==
  /\ call[t].pc = "wait"
  /\ serialmutex' = t
  /\ Goto(t, IF call[t].do.cmd \in MoveCmds THEN "motors"
             ELSE IF call[t].do.cmd = "DOME_POLL" THEN "status" ELSE "cmd")
  /\ UNCHANGED <<devVars, fsmVars, history>>

\* Mutant: the second switch has no case for DOME_STOP.
LockStopNotSent(t) ==
  /\ call[t].pc = "wait"
  /\ serialmutex = NoThread
  /\ serialmutex' = t
  /\ Goto(t, IF call[t].do.cmd \in MoveCmds THEN "motors"
             ELSE IF call[t].do.cmd \in {"DOME_POLL", "DOME_STOP"} THEN "status" ELSE "cmd")
  /\ UNCHANGED <<devVars, fsmVars, history>>

\* The lock, and the switch that picks the commands that need motor power.
Lock(t) ==
  /\ call[t].pc = "wait"
  /\ serialmutex = NoThread
  /\ serialmutex' = t
  /\ Goto(t, IF call[t].do.cmd \in MoveCmds THEN "motors"
             ELSE IF call[t].do.cmd = "DOME_POLL" THEN "status" ELSE "cmd")
  /\ UNCHANGED <<devVars, fsmVars, history>>

\* An exchange about the motor relay that fails: the relay switched and the
\* answer or the status after it was lost, or it did not switch, and then a
\* status may still have been read that says so.
RelayExchangeFails(on) ==
  /\ Faults
  /\ faulted' = TRUE
  /\ \/ Switch(MotRelay, on) /\ UNCHANGED statusAge
     \/ UNCHANGED devVars /\ statusAge' \in {statusAge} \cup
                               (IF relay[MotRelay] = on THEN {} ELSE {0})
  /\ UNCHANGED <<state, oldstate>>

\* Mutant: motors_on() does not change the state.
MotorsOnKeepsState(t) ==
  /\ call[t].pc = "motors"
  /\ Switch(MotRelay, TRUE)
  /\ statusAge' = 0
  /\ Goto(t, "cmd")
  /\ UNCHANGED <<state, oldstate, faulted, t0, interval, order, paused, serialmutex>>

\* Mutant: motors_on() puts the machine into the error state when it fails.
MotorsOnErrorState(t) ==
  /\ call[t].pc = "motors"
  /\ Faults /\ faulted' = TRUE
  /\ state' = "DOME_S_ERROR"
  /\ Goto(t, "status")
  /\ UNCHANGED <<devVars, oldstate, statusAge, t0, interval, order, paused, serialmutex>>

\* motors_on(): relay on, read the status, look whether the relay is on.
MotorsOn(t) ==
  /\ call[t].pc = "motors"
  /\ \/ /\ Switch(MotRelay, TRUE)
        /\ state' = "DOME_S_MOVING"
        /\ statusAge' = 0
        /\ Goto(t, "cmd")
        /\ UNCHANGED <<oldstate, faulted>>
     \/ RelayExchangeFails(TRUE) /\ Goto(t, "status")
  /\ UNCHANGED <<t0, interval, order, paused, serialmutex>>

\* What the device does with a command that reaches it.
Effect(k) ==
  IF k.cmd \in RelayCmds
    THEN Switch(k.par, k.cmd = "DOME_RELAY_ON") /\ UNCHANGED order
    ELSE Obey(k.cmd, k.par) /\ order' = k.cmd

\* The second switch: runcmd().  Whether it fails or not, the status request
\* is next.
RunCmd(t) ==
  /\ call[t].pc = "cmd"
  /\ \/ /\ Effect(call[t].do)
        /\ paused' = (paused \/ (oldstate = "DOME_S_IDLE" /\ call[t].do.cmd \in MoveCmds))
        /\ \/ call' = [call EXCEPT ![t].pc = "status", ![t].obeyed = TRUE]
              /\ UNCHANGED faulted
           \/ Faults /\ faulted' = TRUE /\ Goto(t, "status")
     \/ /\ Faults /\ faulted' = TRUE
        /\ Goto(t, "status")
        /\ UNCHANGED <<devVars, order, paused>>
  /\ UNCHANGED <<fsmVars, serialmutex>>

\* Mutant: the covers are still moving only while both are between their ends.
StillMovingBoth == \A c \in Covers : cover[c] = "intermediate"

\* chkrelay's test for covers that are still moving.
StillMoving == \E c \in Covers : cover[c] = "intermediate"

\* Mutant: the pause is restarted by every status.
ChkRelayRestartsPause(t) ==
  /\ call' = [call EXCEPT ![t].pc = "ret", ![t].ret = state]
  /\ IF state = "DOME_S_MOVING" THEN t0' = 0 ELSE UNCHANGED t0
  /\ UNCHANGED <<oldstate, paused>>

\* Mutant: the power goes as soon as no cover is seen between its ends.
ChkRelayWithoutPause(t) ==
  /\ call' = [call EXCEPT ![t].ret = state,
       ![t].pc = IF state = "DOME_S_MOVING" /\ ~StillMoving THEN "poweroff" ELSE "ret"]
  /\ UNCHANGED <<oldstate, t0, paused>>

\* chkrelay() on the status just read: restart the pause while a cover is
\* between its ends, begin it when all stand, and switch off when it is over.
ChkRelay(t) ==
  LET goto(pc) == call' = [call EXCEPT ![t].pc = pc, ![t].ret = state] IN
  \/ /\ state # "DOME_S_MOVING"
     /\ goto("ret")
     /\ UNCHANGED <<oldstate, t0, paused>>
  \/ /\ state = "DOME_S_MOVING" /\ StillMoving
     /\ oldstate' = "DOME_S_MOVING"
     /\ paused' = FALSE
     /\ goto("ret")
     /\ UNCHANGED t0
  \/ /\ state = "DOME_S_MOVING" /\ ~StillMoving
     /\ oldstate = "DOME_S_MOVING"
     /\ oldstate' = "DOME_S_IDLE"
     /\ t0' = 0
     /\ paused' = FALSE
     /\ goto("ret")
  \/ /\ state = "DOME_S_MOVING" /\ ~StillMoving
     /\ oldstate = "DOME_S_IDLE"
     /\ goto(IF t0 < PowerStop THEN "ret" ELSE "poweroff")
     /\ UNCHANGED <<oldstate, t0, paused>>

\* check_status() at the end of dome_poll; without an answer chkrelay() is not
\* called and the result stays DOME_S_ERROR.
Status(t) ==
  /\ call[t].pc = "status"
  /\ \/ /\ ChkRelay(t)
        /\ statusAge' = 0
        /\ UNCHANGED faulted
     \/ /\ Faults /\ faulted' = TRUE
        /\ Goto(t, "ret")
        /\ UNCHANGED <<oldstate, t0, paused, statusAge>>
  /\ UNCHANGED <<devVars, state, interval, order, serialmutex>>

\* The rest of chkrelay(): relay off, read the status, look whether it is off.
PowerOff(t) ==
  /\ call[t].pc = "poweroff"
  /\ \/ /\ Switch(MotRelay, FALSE)
        /\ state' = "DOME_S_IDLE"
        /\ oldstate' = "DOME_S_MOVING"
        /\ statusAge' = 0
        /\ UNCHANGED faulted
     \/ RelayExchangeFails(FALSE)
  /\ call' = [call EXCEPT ![t].pc = "ret", ![t].ret = state']
  /\ UNCHANGED <<t0, interval, order, paused, serialmutex>>

\* Mutant: dome_poll returns without the unlock.
ReturnKeepsLock(t) ==
  /\ call[t].pc = "ret"
  /\ interval' = IF state = "DOME_S_IDLE" THEN StatusIdle ELSE StatusMove
  /\ Goto(t, "done")
  /\ UNCHANGED <<devVars, state, oldstate, t0, statusAge, history, serialmutex>>

\* The next status interval, the unlock, the return.  write_header(), called
\* after the unlock, only reads.
Return(t) ==
  /\ call[t].pc = "ret"
  /\ interval' = IF state = "DOME_S_IDLE" THEN StatusIdle ELSE StatusMove
  /\ serialmutex' = NoThread
  /\ Goto(t, "done")
  /\ UNCHANGED <<devVars, state, oldstate, t0, statusAge, history>>

\* The caller takes the result.
Take(t) ==
  /\ call[t].pc = "done"
  /\ call' = [call EXCEPT ![t] = NoCall]
  /\ UNCHANGED <<devVars, fsmVars, serialmutex, history>>

InsideStep(t) == MotorsOn(t) \/ RunCmd(t) \/ Status(t) \/ PowerOff(t) \/ Return(t)

-----------------------------------------------------------------------------
(* What happens around the calls. *)

Older(age, bound) == IF age < bound THEN age + 1 ELSE age

PollTick ==
  /\ DevTick
  /\ t0' = Older(t0, PowerStop)
  /\ statusAge' = Older(statusAge, StatusIdle)
  /\ UNCHANGED <<state, oldstate, interval, callVars, history>>

RoofMoves ==
  /\ \E c \in Covers : Travel(c)
  /\ UNCHANGED <<fsmVars, callVars, history>>

\* "serial device disconnected!": ERRX ends the process, the guard in main()
\* forks another one.  The roof goes on with what it was doing.
PollRestart ==
  /\ Faults
  /\ state' = "DOME_S_IDLE"
  /\ oldstate' = "DOME_S_MOVING"
  /\ t0' = PowerStop
  /\ statusAge' = StatusIdle
  /\ interval' = StatusMove
  /\ serialmutex' = NoThread
  /\ call' = [t \in Threads |-> NoCall]
  /\ paused' = FALSE
  /\ faulted' = TRUE
  /\ UNCHANGED <<devVars, order>>

\* dome_poll with callers that call it at any time with any of Commands.
PollNext ==
  \/ \E t \in Threads : \E k \in Commands : Enter(t, k)
  \/ \E t \in Threads : Lock(t) \/ InsideStep(t) \/ Take(t)
  \/ PollTick
  \/ RoofMoves
  \/ PollRestart

PollSpec == PollInit /\ [][PollNext]_pollVars

\* A call goes on and its result is taken, the lock starves nobody, the main
\* loop polls again and again, time passes, a powered cover moves, and exchanges
\* that are repeated for ever succeed again and again.
PollFairness ==
  /\ \A t \in Threads : SF_pollVars(Lock(t)) /\ WF_pollVars(InsideStep(t)) /\ WF_pollVars(Take(t))
  /\ SF_pollVars(\E t \in Threads : Enter(t, Poll))
  /\ SF_pollVars(\E t \in Threads : Status(t) /\ call'[t].ret # "DOME_S_ERROR")
  /\ SF_pollVars(\E t \in Threads : PowerOff(t) /\ state' = "DOME_S_IDLE")
  /\ WF_pollVars(PollTick)
  /\ WF_pollVars(RoofMoves)
PollFairSpec == PollSpec /\ PollFairness
=============================================================================
