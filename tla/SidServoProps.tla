--------------------------- MODULE SidServoProps ---------------------------
(* What the states of the axes and the calls of LibSidServo are relied upon for. *)
EXTENDS SidServo

Pcs == {"idle", "correct", "corrected", "update", "sync", "send", "target", "slew?", "slew",
        "setstop", "stop", "close", "cancel", "join", "ask", "ready"}

\* Every variable keeps to its values; the mount thread holds the line in its
\* exchange, and a caller that holds it is about to note the target of a
\* command it has sent.
SidTypeOK ==
  /\ mot \in [Axes -> Positions] /\ goal \in [Axes -> Positions]
  /\ mntfd \in BOOLEAN /\ mntmutex \in Callers \cup {Mount, None} /\ GlobExit \in BOOLEAN
  /\ state \in [Axes -> States] /\ target \in [Axes -> Positions]
  /\ prev \in [Axes -> Positions \cup {None}]
  /\ nstopped \in [Axes -> 0..MOTOR_STOPPED_CNT + 1]
  /\ mpc \in {"start", "head", "lock", "in", "data", "sleep", "off"}
  /\ sample \in [Axes -> Positions] /\ errctr \in 0..MAX_ERR_CTR /\ cancelled \in BOOLEAN
  /\ call \in [Callers -> [pc : Pcs, op : Ops \cup {"none", "move"}, tag : [Axes -> Positions],
                           todo : SUBSET Axes, failed : BOOLEAN, seen : [Axes -> States]]]
  /\ mpc = "in" => mntmutex = Mount
  /\ mntmutex \in Callers => call[mntmutex].pc = "target"
  /\ calls \in 0..MaxCalls /\ faults \in 0..MaxFaults
  /\ hurried \in [Axes -> BOOLEAN] /\ overlap \in BOOLEAN

\* No exchange has failed, and the program has not moved or stopped the mount
\* from two threads at once: setslewingstate writes back states it has read
\* before, and updateMotorPos acts upon states it has read before.
Orderly == faults = 0 /\ ~overlap

\* An axis that getMountData gives as STOPPED is at rest, unless its last move
\* was hurried: setslewingstate leaves an axis alone whose stop has not been
\* noticed, and a status from before the move is judged by the new target.
\* While a move is being sent its states are not there yet.
StoppedMeansRest ==
  Orderly /\ (\A c \in Callers : call[c].op \notin Driving) =>
    \A a \in Axes : state[a] = "STOPPED" => mot[a] = goal[a] \/ hurried[a]

\* updateMotorPos sets, and so stops, the motor of an axis only when it is at
\* rest, unless its last move was hurried.
SyncMeetsRest ==
  Orderly => \A c \in Callers : call[c].pc = "sync" =>
    \A a \in call[c].todo : mot[a] = goal[a] \/ hurried[a]

\* A cancelled thread has taken mntmutex with it.
Orphaned == mntmutex = Mount /\ mpc # "in"

\* The end of a stop, or of a move to the target that was noted, is noticed,
\* as long as there is a mount thread.
Ending(a) == state[a] = "GONNASTOP" \/ (state[a] = "SLEWING" /\ target[a] = goal[a])
RestIsNoticed == \A a \in Axes : Ending(a) ~> ~Ending(a) \/ mpc = "off" \/ Orphaned

\* Again and again no call is under way: every call returns, unless a quit has
\* cancelled the mount thread in the middle of an exchange; then the next call
\* for the mount waits for ever.
CallsReturn == []<>(Orphaned \/ \A c \in Callers : call[c] = Idle)
=============================================================================
