------------------------------ MODULE SidServo ------------------------------
(***************************************************************************)
(* LibSidServo: the library that moves a mount of two axes over one serial *)
(* line.  A thread of its own asks the controller for its status again and *)
(* again and judges from the motor positions whether an axis has stopped;  *)
(* the threads of the program call Mount.moveTo, stop, quit and so on.     *)
(* The line belongs to whoever holds mntmutex; the sections of datamutex   *)
(* are short and touch nothing else, each is one step here.                *)
(***************************************************************************)
EXTENDS Integers, FiniteSets

CONSTANTS Axes,        \* "X" and "Y", or one of them
          Callers,     \* threads that call the library
          Far,         \* motor positions are 0..Far
          Ops,         \* the calls they make
          Mount,       \* the mount thread
          None,        \* no thread, no position
          MOTOR_STOPPED_CNT,
          MAX_ERR_CTR,
          MaxCalls,    \* calls in a behaviour
          MaxFaults    \* exchanges that fail in a behaviour

Positions == 0..Far

ASSUME SidAssumption ==
  /\ Axes \subseteq {"X", "Y"} /\ Axes # {}
  /\ Far \in Nat /\ MOTOR_STOPPED_CNT \in Nat /\ MAX_ERR_CTR \in Nat \ {0}
  /\ MaxCalls \in Nat /\ MaxFaults \in Nat
  /\ Mount \notin Callers /\ None \notin Callers \cup Positions \cup {Mount}
  /\ Ops \subseteq {"move", "correct", "short", "stop", "ask", "quit", "init"}

\* axis_status_t; POINTING and GUIDING, which differ for the PID only, are SLEWING.
States == {"STOPPED", "GONNASTOP", "SLEWING"}

VARIABLES
  mot, goal,       \* the controller: where each motor is and where it goes
  mntfd,           \* the serial device is open
  mntmutex,        \* the thread that holds it
  GlobExit,
  state, target,   \* mountdata
  prev, nstopped,  \* the static variables of ChkStopped
  mpc,             \* where the mount thread is, "off" if there is none
  sample,          \* the motor positions it was told, until it has judged them
  errctr,
  cancelled,       \* pthread_cancel was called for it
  call,            \* what each caller is doing
  calls, faults,   \* calls begun and exchanges failed so far
  hurried,         \* history: the last move met an axis whose stop was not noticed,
                   \* or a status that was not judged
  overlap          \* history: moves or stops of two callers have been under way at once

device == <<mot, goal>>
data == <<state, target, prev, nstopped>>
thread == <<mpc, sample, errctr, cancelled>>
line == <<mntfd, mntmutex, GlobExit>>
history == <<hurried, overlap>>
vars == <<device, data, thread, line, call, calls, faults, history>>

Idle == [pc |-> "idle", op |-> "none", tag |-> [a \in Axes |-> 0], todo |-> {},
         failed |-> FALSE, seen |-> [a \in Axes |-> "STOPPED"]]

Init ==
  /\ mot = [a \in Axes |-> 0] /\ goal = mot
  /\ mntfd = FALSE /\ mntmutex = None /\ GlobExit = FALSE
  /\ state = [a \in Axes |-> "STOPPED"] /\ target = [a \in Axes |-> 0]
  /\ prev = [a \in Axes |-> None] /\ nstopped = [a \in Axes |-> 0]
  /\ mpc = "off" /\ sample = mot /\ errctr = 0 /\ cancelled = FALSE
  /\ call = [c \in Callers |-> Idle]
  /\ calls = 0 /\ faults = 0
  /\ hurried = [a \in Axes |-> FALSE] /\ overlap = FALSE

Becomes(c, r) == call' = [call EXCEPT ![c] = r]
Goes(c, next) == Becomes(c, [call[c] EXCEPT !.pc = next])
Returns(c) == Becomes(c, Idle)

-----------------------------------------------------------------------------
(* The serial line.  An exchange is written to the controller or not, and  *)
(* wr() reports failure or not: only what a caller does not wait for an    *)
(* answer to, or does not look at, may be reported done and yet be lost.   *)

Free == mntmutex = None

Exchange(reached, ok) ==
  /\ reached => mntfd
  /\ ok => mntfd
  /\ faults' = IF mntfd /\ ~(reached /\ ok) THEN faults + 1 ELSE faults
  /\ faults' <= MaxFaults

\* setStat for both axes.
SetStat(s) == state' = s

-----------------------------------------------------------------------------
(* The controller.                                                         *)

Moves(a) ==
  /\ mot[a] # goal[a]
  /\ mot' = [mot EXCEPT ![a] = IF @ < goal[a] THEN @ + 1 ELSE @ - 1]
  /\ UNCHANGED <<goal, data, thread, line, call, calls, faults, history>>

-----------------------------------------------------------------------------
(* mountthread.                                                            *)

ThreadGoes(next) == mpc' = next /\ UNCHANGED <<sample, errctr, cancelled>>

\* bzero(&mountdata); the statics of ChkStopped stay.
ThreadStarts ==
  /\ mpc = "start"
  /\ ThreadGoes("head")
  /\ SetStat([a \in Axes |-> "STOPPED"])
  /\ target' = [a \in Axes |-> 0]
  /\ UNCHANGED <<device, prev, nstopped, line, call, calls, faults, history>>

\* After its sleep, or at once if an exchange failed: the condition of the loop.
\* A thread that ends closes the device.
ThreadLoops ==
  /\ mpc = "head" \/ (mpc = "sleep" /\ ~cancelled)
  /\ IF mntfd /\ errctr < MAX_ERR_CTR /\ ~GlobExit
       THEN ThreadGoes("lock") /\ UNCHANGED mntfd
       ELSE ThreadGoes("off") /\ mntfd' = FALSE
  /\ UNCHANGED <<device, data, mntmutex, GlobExit, call, calls, faults, history>>

ThreadLocks ==
  /\ mpc = "lock" /\ Free
  /\ ThreadGoes("in")
  /\ mntmutex' = Mount
  /\ UNCHANGED <<device, data, mntfd, GlobExit, call, calls, faults, history>>

\* The status comes, or too little of it, or with a bad checksum.
ThreadAnswered ==
  /\ mpc = "in" /\ ~cancelled
  /\ mntmutex' = None
  /\ \E ok \in BOOLEAN :
       /\ Exchange(ok, ok)
       /\ mpc' = IF ok THEN "data" ELSE "head"
       /\ sample' = IF ok THEN mot ELSE sample
       /\ errctr' = IF ok THEN 0 ELSE errctr + 1
  /\ UNCHANGED <<device, data, mntfd, GlobExit, cancelled, call, calls, history>>

\* nstopped + 1; more than MOTOR_STOPPED_CNT + 1 makes no difference.
Counted(n) == IF n > MOTOR_STOPPED_CNT THEN n ELSE n + 1

\* Mutant: only a motor on its target is counted.
CountingOnTarget(a) == state[a] # "STOPPED" /\ sample[a] = target[a]

\* Got the command to stop, or on target.
Counting(a) ==
  \/ state[a] = "GONNASTOP"
  \/ state[a] # "STOPPED" /\ sample[a] = target[a]

\* chkstopstat: the counter, and the state.
NStopped(a) ==
  CASE prev[a] = None -> nstopped[a]
    [] prev[a] # None /\ prev[a] # sample[a] -> 0
    [] OTHER -> IF Counting(a) THEN Counted(nstopped[a]) ELSE nstopped[a]

\* Mutant: the counter alone decides.
StateByCount(a) ==
  IF prev[a] = None \/ NStopped(a) > MOTOR_STOPPED_CNT THEN "STOPPED" ELSE state[a]

ChkStopStat(a) ==
  IF prev[a] = None \/ (Counting(a) /\ NStopped(a) > MOTOR_STOPPED_CNT)
    THEN "STOPPED" ELSE state[a]

\* SSconvstat and ChkStopped.
ThreadJudges ==
  /\ mpc = "data"
  /\ mpc' = "sleep" /\ sample' = [a \in Axes |-> 0]
  /\ UNCHANGED <<errctr, cancelled>>
  /\ nstopped' = [a \in Axes |-> NStopped(a)]
  /\ SetStat([a \in Axes |-> ChkStopStat(a)])
  /\ prev' = sample
  /\ UNCHANGED <<device, target, line, call, calls, faults, history>>

\* A cancelled thread ends where it sleeps, or waits for the line: there it
\* takes mntmutex with it.
ThreadDies ==
  /\ mpc \in {"sleep", "in"} /\ cancelled
  /\ ThreadGoes("off")
  /\ UNCHANGED <<device, data, line, call, calls, faults, history>>

-----------------------------------------------------------------------------
(* move2, move2s, correct2 and shortcmd (or longcmd).                      *)

\* correct2 looks at the states and makes those of axes that rest SLEWING,
\* if the data are young enough.
CorrectReads(c) ==
  /\ call[c].pc = "correct"
  /\ Becomes(c, [call[c] EXCEPT !.pc = "corrected", !.seen = state])
  /\ UNCHANGED <<device, data, thread, line, calls, faults, history>>

Woken(s) == IF s \in {"STOPPED", "GONNASTOP"} THEN {s, "SLEWING"} ELSE {s}

CorrectSets(c) ==
  /\ call[c].pc = "corrected"
  /\ Becomes(c, [call[c] EXCEPT !.pc = "update", !.seen = Idle.seen])
  /\ \E s \in [Axes -> States] :
       /\ \A a \in Axes : s[a] \in Woken(call[c].seen[a])
       /\ IF s = call[c].seen THEN UNCHANGED state ELSE SetStat(s)
  /\ UNCHANGED <<device, target, prev, nstopped, thread, line, calls, faults, history>>

\* updateMotorPos: if both axes have stopped, those whose encoder disagrees
\* with the motor are to be set.  Without encoder data it fails at last.
Synced(op) == IF op = "init" THEN "ready" ELSE "send"
Fails(c) == IF call[c].op = "init" THEN Goes(c, "ready") ELSE Returns(c)
Resting == \A a \in Axes : state[a] = "STOPPED"

Update(c) ==
  /\ call[c].pc = "update"
  /\ \/ /\ Resting
        /\ \E differ \in SUBSET Axes \ {{}} :
             Becomes(c, [call[c] EXCEPT !.pc = "sync", !.todo = differ, !.failed = FALSE])
     \/ Goes(c, Synced(call[c].op))
     \/ Fails(c)
  /\ UNCHANGED <<device, data, thread, line, calls, faults, history>>

First(axes) == CHOOSE a \in axes : "X" \in axes => a = "X"

\* "XF": the motor is set to the encoder and stops.
Sync(c) ==
  /\ call[c].pc = "sync" /\ Free /\ call[c].todo # {}
  /\ LET a == First(call[c].todo)
     IN \E reached, ok \in BOOLEAN, v \in Positions :
          /\ Exchange(reached, ok) /\ (reached => ok)
          /\ mot' = IF reached THEN [mot EXCEPT ![a] = v] ELSE mot
          /\ goal' = IF reached THEN [goal EXCEPT ![a] = v] ELSE goal
          /\ Becomes(c, [call[c] EXCEPT !.todo = @ \ {a}, !.failed = @ \/ ~ok])
  /\ UNCHANGED <<data, thread, line, calls, history>>

\* If one could not be written everything is tried again, for two seconds;
\* without the device every try is like the first.
SyncEnds(c) ==
  /\ call[c].pc = "sync" /\ call[c].todo = {}
  /\ \/ call[c].failed /\ mntfd /\ Goes(c, "update")
     \/ call[c].failed /\ Fails(c)
     \/ ~call[c].failed /\ Goes(c, Synced(call[c].op))
  /\ UNCHANGED <<device, data, thread, line, calls, faults, history>>

\* Mutant: a command that failed leaves the line locked.
HoldLine(c, ok) == mntmutex' = c

\* bincmd keeps the line until it has noted the target; one that failed leaves it.
HoldIfDone(c, ok) == mntmutex' = IF ok THEN c ELSE None

\* bincmd: the move is written, and an answer is awaited whose absence is no failure.
Send(c) ==
  /\ call[c].pc = "send" /\ Free
  /\ \E reached, ok \in BOOLEAN :
       /\ Exchange(reached, ok)
       /\ HoldIfDone(c, ok)
       /\ IF ok THEN Goes(c, "target") ELSE Returns(c)
       /\ IF reached
            THEN /\ goal' = call[c].tag
                 /\ hurried' = [a \in Axes |-> state[a] = "GONNASTOP" \/ mpc = "data"]
            ELSE UNCHANGED <<goal, hurried>>
  /\ UNCHANGED <<mot, data, thread, mntfd, GlobExit, calls, overlap>>

\* The target is written under mntmutex, not datamutex.
Target(c) ==
  /\ call[c].pc = "target"
  /\ target' = call[c].tag
  /\ mntmutex' = None
  /\ Goes(c, "slew?")
  /\ UNCHANGED <<device, state, prev, nstopped, thread, mntfd, GlobExit, calls, faults, history>>

\* setslewingstate: getMD, then setStat of what it saw.
SlewReads(c) ==
  /\ call[c].pc = "slew?"
  /\ Becomes(c, [call[c] EXCEPT !.pc = "slew", !.seen = state])
  /\ UNCHANGED <<device, data, thread, line, calls, faults, history>>

\* Mutant: only an axis that was told to stop is made SLEWING.
SlewingFromStop(s) == IF s = "GONNASTOP" THEN "SLEWING" ELSE s

Slewing(s) == IF s = "STOPPED" THEN "SLEWING" ELSE s

SlewSets(c) ==
  /\ call[c].pc = "slew"
  /\ LET s == [a \in Axes |-> Slewing(call[c].seen[a])]
     IN IF s = call[c].seen THEN UNCHANGED state ELSE SetStat(s)
  /\ Returns(c)
  /\ UNCHANGED <<device, target, prev, nstopped, thread, line, calls, faults, history>>

-----------------------------------------------------------------------------
(* stop and emstop (SSstop), quit (closeSerial), and what only asks.       *)

SetStop(c) ==
  /\ call[c].pc = "setstop"
  /\ SetStat([a \in Axes |-> "GONNASTOP"])
  /\ Becomes(c, [call[c] EXCEPT !.pc = "stop", !.todo = Axes])
  /\ UNCHANGED <<device, target, prev, nstopped, thread, line, calls, faults, history>>

\* One axis after the other, both again if one fails, up to ten times.
Stop(c) ==
  /\ call[c].pc = "stop" /\ Free /\ call[c].todo # {}
  /\ LET a == First(call[c].todo)
     IN \E reached, ok \in BOOLEAN :
          /\ Exchange(reached, ok) /\ (reached => ok)
          /\ goal' = IF reached THEN [goal EXCEPT ![a] = mot[a]] ELSE goal
          /\ Becomes(c, [call[c] EXCEPT !.todo = IF ok THEN @ \ {a} ELSE Axes, !.failed = ~ok])
  /\ UNCHANGED <<mot, data, thread, line, calls, history>>

\* All is written, or it was tried too often; quit tries SSstop ten times.
StopEnds(c) ==
  /\ call[c].pc = "stop" /\ (call[c].todo = {} \/ call[c].failed)
  /\ \/ call[c].op = "stop" /\ Returns(c)
     \/ call[c].op = "quit" /\ Goes(c, "close")
     \/ call[c].op = "quit" /\ call[c].failed /\ mntfd
          /\ Becomes(c, [call[c] EXCEPT !.pc = "setstop", !.failed = FALSE])
  /\ UNCHANGED <<device, data, thread, line, calls, faults, history>>

Close(c) ==
  /\ call[c].pc = "close"
  /\ GlobExit' = TRUE
  /\ Goes(c, "cancel")
  /\ UNCHANGED <<device, data, thread, mntfd, mntmutex, calls, faults, history>>

\* A tenth of a second later: the thread has closed the device, or is cancelled.
Cancel(c) ==
  /\ call[c].pc = "cancel"
  /\ IF mntfd THEN cancelled' = TRUE /\ Goes(c, "join") /\ UNCHANGED GlobExit
              ELSE GlobExit' = FALSE /\ Returns(c) /\ UNCHANGED cancelled
  /\ UNCHANGED <<device, data, mpc, sample, errctr, mntfd, mntmutex, calls, faults, history>>

Join(c) ==
  /\ call[c].pc = "join" /\ mpc = "off"
  /\ mntfd' = FALSE /\ GlobExit' = FALSE /\ cancelled' = FALSE
  /\ Returns(c)
  /\ UNCHANGED <<device, data, mpc, sample, errctr, mntmutex, calls, faults, history>>

\* setSpeed, getHWconfig; init asks for the hardware configuration up to
\* MAX_ERR_CTR times and then has the motors set.
Ask(c) ==
  /\ call[c].pc = "ask" /\ Free
  /\ \E reached, ok \in BOOLEAN :
       /\ Exchange(reached, ok) /\ (ok => reached)
       /\ \/ call[c].op = "init" /\ ok /\ Goes(c, "update")
          \/ call[c].op = "init" /\ ~ok /\ UNCHANGED call
          \/ (call[c].op = "init" => ~ok) /\ Returns(c)
  /\ UNCHANGED <<device, data, thread, line, calls, history>>

\* init waits for the time of five status requests, enough for one to be judged;
\* an init that failed returns its error and leaves the mount thread running.
Ready(c) ==
  /\ call[c].pc = "ready"
  /\ mpc \in {"off", "sleep"}
  /\ Returns(c)
  /\ UNCHANGED <<device, data, thread, line, calls, faults, history>>

-----------------------------------------------------------------------------
(* The calls of the program: init comes first and after a quit, both when  *)
(* nobody else uses the library.                                           *)

FirstStep(op) ==
  CASE op = "move" -> "update" [] op = "correct" -> "correct" [] op = "short" -> "send"
    [] op \in {"stop", "quit"} -> "setstop" [] op \in {"ask", "init"} -> "ask"

Moving == {"move", "correct", "short"}
Driving == Moving \cup {"stop", "quit"}

Begin(c, op) ==
  /\ call[c] = Idle /\ calls < MaxCalls
  /\ calls = 0 => op = "init"
  /\ \A d \in Callers : call[d].op \notin {"quit", "init"}
  /\ calls' = calls + 1
  /\ overlap' = (overlap \/ (op \in Driving /\ \E d \in Callers : call[d].op \in Driving))
  /\ \E tag \in [Axes -> IF op \in Moving THEN {0, Far} ELSE {0}] :
       Becomes(c, [Idle EXCEPT !.pc = FirstStep(op), !.tag = tag,
                               !.op = IF op \in Moving THEN "move" ELSE op])

Calls(c) ==
  /\ \E op \in Ops \ {"quit", "init"} : Begin(c, op)
  /\ UNCHANGED <<device, data, thread, line, faults, hurried>>

Quits(c) ==
  /\ "quit" \in Ops /\ \A d \in Callers : call[d] = Idle
  /\ Begin(c, "quit")
  /\ UNCHANGED <<device, data, thread, line, faults, hurried>>

\* openMount: the device is opened and the thread started.
Inits(c) ==
  /\ "init" \in Ops /\ \A d \in Callers : call[d] = Idle
  /\ ~mntfd /\ mpc = "off"
  /\ Begin(c, "init")
  /\ mntfd' = TRUE
  /\ mpc' = "start" /\ errctr' = 0 /\ cancelled' = FALSE
  /\ UNCHANGED <<device, data, sample, mntmutex, GlobExit, faults, hurried>>

-----------------------------------------------------------------------------
MountThread ==
  ThreadStarts \/ ThreadLoops \/ ThreadLocks \/ ThreadAnswered \/ ThreadJudges
    \/ ThreadDies

CallStep(c) ==
  \/ CorrectReads(c) \/ CorrectSets(c) \/ Update(c) \/ Sync(c) \/ SyncEnds(c)
  \/ Send(c) \/ Target(c) \/ SlewReads(c) \/ SlewSets(c)
  \/ SetStop(c) \/ Stop(c) \/ StopEnds(c) \/ Close(c) \/ Cancel(c) \/ Join(c) \/ Ask(c)
  \/ Ready(c)

Next ==
  \/ MountThread
  \/ \E a \in Axes : Moves(a)
  \/ \E c \in Callers : CallStep(c) \/ Calls(c) \/ Quits(c) \/ Inits(c)

Spec == Init /\ [][Next]_vars

\* The motors, the mount thread and the calls go on, and the mount thread does
\* not keep the line for itself.
Fairness ==
  /\ \A a \in Axes : WF_vars(Moves(a))
  /\ WF_vars(MountThread)
  /\ SF_vars(\E c \in Callers : CallStep(c))

FairSpec == Spec /\ Fairness
=============================================================================
