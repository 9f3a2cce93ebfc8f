--------------------------- MODULE SidServo_proofs ---------------------------
(* The safety of LibSidServo, for any callers, axes, distances and counters. *)
EXTENDS SidServoProps, TLAPS

(* The types in parts. *)

CallRecords == [pc : Pcs, op : Ops \cup {"none", "move"}, tag : [Axes -> Positions],
                todo : SUBSET Axes, failed : BOOLEAN, seen : [Axes -> States]]

DeviceTypes == mot \in [Axes -> Positions] /\ goal \in [Axes -> Positions]
DataTypes ==
  /\ state \in [Axes -> States] /\ target \in [Axes -> Positions]
  /\ prev \in [Axes -> Positions \cup {None}]
  /\ nstopped \in [Axes -> 0..MOTOR_STOPPED_CNT + 1]
ThreadTypes ==
  /\ mpc \in {"start", "head", "lock", "in", "data", "sleep", "off"}
  /\ sample \in [Axes -> Positions] /\ errctr \in 0..MAX_ERR_CTR /\ cancelled \in BOOLEAN
LineTypes ==
  /\ mntfd \in BOOLEAN /\ mntmutex \in Callers \cup {Mount, None} /\ GlobExit \in BOOLEAN
CallTypes == call \in [Callers -> CallRecords]
CountTypes ==
  /\ calls \in 0..MaxCalls /\ faults \in 0..MaxFaults
  /\ hurried \in [Axes -> BOOLEAN] /\ overlap \in BOOLEAN
Types == DeviceTypes /\ DataTypes /\ ThreadTypes /\ LineTypes /\ CallTypes /\ CountTypes

\* The line belongs to the mount thread in its exchange, and to a caller from
\* its command until it has noted the target.
LineOK ==
  /\ mpc = "in" => mntmutex = Mount
  /\ \A c \in Callers : mntmutex = c => call[c].pc = "target"
  /\ \A c \in Callers : call[c].pc = "target" => mntmutex = c

\* The counter of errors of the mount thread.
ErrOK ==
  /\ mpc # "off" => mntfd
  /\ mpc \in {"lock", "in"} => errctr < MAX_ERR_CTR
  /\ errctr > 0 => faults > 0

TypeInv == Types /\ LineOK /\ ErrOK

LEMMA Constants ==
  /\ Far \in Nat /\ MOTOR_STOPPED_CNT \in Nat /\ MAX_ERR_CTR \in Nat \ {0}
  /\ MaxCalls \in Nat /\ MaxFaults \in Nat /\ Positions = 0..Far
  /\ Axes \subseteq {"X", "Y"} /\ Axes # {}
  /\ Mount \notin Callers /\ None \notin Callers /\ None # Mount /\ None \notin Positions
BY SidAssumption DEF Positions

\* A caller that does nothing.
LEMMA IdleTyped == Idle \in CallRecords
BY Constants DEF Idle, CallRecords, Pcs, States


(* What the steps of a caller make of its record. *)

\* The other callers stay where they are.
Others(c) == \A d \in Callers : d # c => call'[d] = call[d]

\* The call is the one it was, with its targets; only its place has changed.
SameCall(c) == call'[c].op = call[c].op /\ call'[c].tag = call[c].tag
Moved(c) ==
  /\ SameCall(c) /\ call'[c].todo = call[c].todo /\ call'[c].failed = call[c].failed
  /\ call'[c].seen = call[c].seen

\* A record is stored for one caller.
LEMMA Stored ==
  ASSUME CallTypes, NEW c \in Callers, NEW r \in CallRecords, Becomes(c, r)
  PROVE  CallTypes' /\ Others(c) /\ call'[c] = r
BY DEF CallTypes, Becomes, Others

\* A record is left for another place.
LEMMA Went ==
  ASSUME CallTypes, NEW c \in Callers, NEW p \in Pcs, Goes(c, p)
  PROVE  CallTypes' /\ Others(c) /\ Moved(c) /\ call'[c].pc = p
<1> DEFINE r == [call[c] EXCEPT !.pc = p]
<1>1. call[c] \in CallRecords
  BY DEF CallTypes
<1>2. /\ r \in CallRecords /\ r.pc = p /\ r.op = call[c].op /\ r.tag = call[c].tag
      /\ r.todo = call[c].todo /\ r.failed = call[c].failed /\ r.seen = call[c].seen
  BY <1>1 DEF CallRecords
<1>3. Becomes(c, r)
  BY DEF Goes
<1> HIDE DEF r
<1> QED BY <1>2, <1>3, Stored DEF Moved, SameCall

\* A call that ends leaves nothing.
LEMMA Returned ==
  ASSUME CallTypes, NEW c \in Callers, Returns(c)
  PROVE  CallTypes' /\ Others(c) /\ call'[c] = Idle
BY Stored, IdleTyped DEF Returns

\* A call that fails is over, but init goes on to wait.
LEMMA Failed ==
  ASSUME CallTypes, NEW c \in Callers, Fails(c)
  PROVE  /\ CallTypes' /\ Others(c)
         /\ IF call[c].op = "init" THEN Moved(c) /\ call'[c].pc = "ready" ELSE call'[c] = Idle
BY Went, Returned, "ready" \in Pcs DEF Fails, Pcs

LEMMA CorrectReadsForm ==
  ASSUME CallTypes, DataTypes, NEW c \in Callers, CorrectReads(c)
  PROVE  /\ CallTypes' /\ Others(c) /\ SameCall(c)
         /\ call'[c].pc = "corrected" /\ call'[c].seen = state
<1> DEFINE r == [call[c] EXCEPT !.pc = "corrected", !.seen = state]
<1>1. call[c] \in CallRecords /\ state \in [Axes -> States]
  BY DEF CallTypes, DataTypes
<1>2. /\ r \in CallRecords /\ r.pc = "corrected" /\ r.op = call[c].op /\ r.tag = call[c].tag
      /\ r.seen = state
  BY <1>1 DEF CallRecords, Pcs
<1>3. Becomes(c, r)
  BY DEF CorrectReads
<1> HIDE DEF r
<1> QED BY <1>2, <1>3, Stored DEF SameCall

LEMMA CorrectSetsForm ==
  ASSUME CallTypes, NEW c \in Callers, CorrectSets(c)
  PROVE  CallTypes' /\ Others(c) /\ SameCall(c) /\ call'[c].pc = "update"
<1> DEFINE r == [call[c] EXCEPT !.pc = "update", !.seen = Idle.seen]
<1>1. call[c] \in CallRecords /\ Idle.seen \in [Axes -> States]
  BY IdleTyped DEF CallTypes, CallRecords
<1>2. r \in CallRecords /\ r.pc = "update" /\ r.op = call[c].op /\ r.tag = call[c].tag
  BY <1>1 DEF CallRecords, Pcs
<1>3. Becomes(c, r)
  BY DEF CorrectSets
<1> HIDE DEF r
<1> QED BY <1>2, <1>3, Stored DEF SameCall

LEMMA UpdateForm ==
  ASSUME CallTypes, NEW c \in Callers, Update(c)
  PROVE  /\ CallTypes' /\ Others(c)
         /\ \/ SameCall(c) /\ call'[c].pc = "sync" /\ Resting
            \/ SameCall(c) /\ call'[c].pc = "ready" /\ call[c].op = "init"
            \/ SameCall(c) /\ call'[c].pc = "send" /\ call[c].op # "init"
            \/ call'[c] = Idle /\ call[c].op # "init"
<1>1. CASE Resting /\ \E differ \in SUBSET Axes \ {{}} :
             Becomes(c, [call[c] EXCEPT !.pc = "sync", !.todo = differ, !.failed = FALSE])
  <2>1. PICK differ \in SUBSET Axes :
          Becomes(c, [call[c] EXCEPT !.pc = "sync", !.todo = differ, !.failed = FALSE])
    BY <1>1
  <2> DEFINE r == [call[c] EXCEPT !.pc = "sync", !.todo = differ, !.failed = FALSE]
  <2>2. call[c] \in CallRecords
    BY DEF CallTypes
  <2>3. r \in CallRecords /\ r.pc = "sync" /\ r.op = call[c].op /\ r.tag = call[c].tag
    BY <2>2 DEF CallRecords, Pcs
  <2>4. Becomes(c, r)
    BY <2>1
  <2> HIDE DEF r
  <2> QED BY <1>1, <2>3, <2>4, Stored DEF SameCall
<1>2. CASE Goes(c, Synced(call[c].op))
  <2>1. Synced(call[c].op) \in Pcs
    BY DEF Synced, Pcs
  <2> QED BY <1>2, <2>1, Went DEF Synced, Moved
<1>3. CASE Fails(c)
  BY <1>3, Failed DEF Moved
<1> QED BY <1>1, <1>2, <1>3 DEF Update

LEMMA SyncForm ==
  ASSUME CallTypes, NEW c \in Callers, Sync(c)
  PROVE  /\ CallTypes' /\ Others(c) /\ SameCall(c)
         /\ call'[c].pc = "sync" /\ call'[c].todo \subseteq call[c].todo
<1>1. PICK ok \in BOOLEAN :
        Becomes(c, [call[c] EXCEPT !.todo = @ \ {First(call[c].todo)}, !.failed = @ \/ ~ok])
  BY DEF Sync
<1> DEFINE r == [call[c] EXCEPT !.todo = @ \ {First(call[c].todo)}, !.failed = @ \/ ~ok]
<1>2. call[c] \in CallRecords /\ call[c].pc = "sync"
  BY DEF CallTypes, Sync
<1>3. /\ r \in CallRecords /\ r.pc = "sync" /\ r.op = call[c].op /\ r.tag = call[c].tag
      /\ r.todo \subseteq call[c].todo
  BY <1>2 DEF CallRecords
<1>4. Becomes(c, r)
  BY <1>1
<1> HIDE DEF r
<1> QED BY <1>3, <1>4, Stored DEF SameCall

LEMMA SyncEndsForm ==
  ASSUME CallTypes, NEW c \in Callers, SyncEnds(c)
  PROVE  /\ CallTypes' /\ Others(c)
         /\ \/ SameCall(c) /\ call'[c].pc = "update"
            \/ SameCall(c) /\ call'[c].pc = "ready" /\ call[c].op = "init"
            \/ SameCall(c) /\ call'[c].pc = "send" /\ call[c].op # "init"
            \/ call'[c] = Idle /\ call[c].op # "init"
<1>1. Synced(call[c].op) \in Pcs /\ "update" \in Pcs
  BY DEF Synced, Pcs
<1>2. Goes(c, "update") \/ Fails(c) \/ Goes(c, Synced(call[c].op))
  BY DEF SyncEnds
<1> QED BY <1>1, <1>2, Went, Failed DEF Synced, Moved

LEMMA SendForm ==
  ASSUME CallTypes, NEW c \in Callers, Send(c)
  PROVE  /\ CallTypes' /\ Others(c)
         /\ \/ SameCall(c) /\ call'[c].pc = "target" /\ mntmutex' = c
            \/ call'[c] = Idle /\ mntmutex' = None
<1>1. "target" \in Pcs
  BY DEF Pcs
<1>2. (Goes(c, "target") /\ mntmutex' = c) \/ (Returns(c) /\ mntmutex' = None)
  BY DEF Send, HoldIfDone
<1> QED BY <1>1, <1>2, Went, Returned DEF Moved

LEMMA SlewReadsForm ==
  ASSUME CallTypes, DataTypes, NEW c \in Callers, SlewReads(c)
  PROVE  /\ CallTypes' /\ Others(c) /\ SameCall(c)
         /\ call'[c].pc = "slew" /\ call'[c].seen = state
<1> DEFINE r == [call[c] EXCEPT !.pc = "slew", !.seen = state]
<1>1. call[c] \in CallRecords /\ state \in [Axes -> States]
  BY DEF CallTypes, DataTypes
<1>2. /\ r \in CallRecords /\ r.pc = "slew" /\ r.op = call[c].op /\ r.tag = call[c].tag
      /\ r.seen = state
  BY <1>1 DEF CallRecords, Pcs
<1>3. Becomes(c, r)
  BY DEF SlewReads
<1> HIDE DEF r
<1> QED BY <1>2, <1>3, Stored DEF SameCall

LEMMA SetStopForm ==
  ASSUME CallTypes, NEW c \in Callers, SetStop(c)
  PROVE  /\ CallTypes' /\ Others(c) /\ SameCall(c)
         /\ call'[c].pc = "stop" /\ call'[c].todo = Axes /\ call'[c].failed = call[c].failed
<1> DEFINE r == [call[c] EXCEPT !.pc = "stop", !.todo = Axes]
<1>1. call[c] \in CallRecords
  BY DEF CallTypes
<1>2. /\ r \in CallRecords /\ r.pc = "stop" /\ r.op = call[c].op /\ r.tag = call[c].tag
      /\ r.todo = Axes /\ r.failed = call[c].failed
  BY <1>1 DEF CallRecords, Pcs
<1>3. Becomes(c, r)
  BY DEF SetStop
<1> HIDE DEF r
<1> QED BY <1>2, <1>3, Stored DEF SameCall

\* An axis is ticked off when it was stopped; with a failure all are to be stopped.
LEMMA StopForm ==
  ASSUME CallTypes, NEW c \in Callers, Stop(c)
  PROVE  /\ CallTypes' /\ Others(c) /\ SameCall(c) /\ call'[c].pc = "stop"
         /\ \E reached, ok \in BOOLEAN :
              /\ Exchange(reached, ok) /\ (reached => ok)
              /\ goal' = IF reached THEN [goal EXCEPT ![First(call[c].todo)] =
                                            mot[First(call[c].todo)]] ELSE goal
              /\ call'[c].todo = IF ok THEN call[c].todo \ {First(call[c].todo)} ELSE Axes
              /\ call'[c].failed = ~ok
<1>1. PICK reached \in BOOLEAN, ok \in BOOLEAN :
        /\ Exchange(reached, ok) /\ (reached => ok)
        /\ goal' = IF reached THEN [goal EXCEPT ![First(call[c].todo)] =
                                      mot[First(call[c].todo)]] ELSE goal
        /\ Becomes(c, [call[c] EXCEPT !.todo = IF ok THEN @ \ {First(call[c].todo)} ELSE Axes,
                                      !.failed = ~ok])
  BY DEF Stop
<1> DEFINE r == [call[c] EXCEPT !.todo = IF ok THEN @ \ {First(call[c].todo)} ELSE Axes,
                                !.failed = ~ok]
<1>2. call[c] \in CallRecords /\ call[c].pc = "stop"
  BY DEF CallTypes, Stop
<1>3. /\ r \in CallRecords /\ r.pc = "stop" /\ r.op = call[c].op /\ r.tag = call[c].tag
      /\ r.todo = IF ok THEN call[c].todo \ {First(call[c].todo)} ELSE Axes
      /\ r.failed = ~ok
  BY <1>2 DEF CallRecords
<1>4. Becomes(c, r)
  BY <1>1
<1> HIDE DEF r
<1>5. CallTypes' /\ Others(c) /\ call'[c] = r
  BY <1>3, <1>4, Stored
<1> QED BY <1>1, <1>3, <1>5 DEF SameCall

LEMMA StopEndsForm ==
  ASSUME CallTypes, NEW c \in Callers, StopEnds(c)
  PROVE  /\ CallTypes' /\ Others(c)
         /\ \/ call'[c] = Idle /\ call[c].op = "stop"
            \/ SameCall(c) /\ call'[c].pc = "close" /\ call[c].op = "quit"
            \/ SameCall(c) /\ call'[c].pc = "setstop" /\ call[c].op = "quit" /\ ~call'[c].failed
<1>1. CASE call[c].op = "stop" /\ Returns(c)
  BY <1>1, Returned
<1>2. CASE call[c].op = "quit" /\ Goes(c, "close")
  BY <1>2, Went, "close" \in Pcs DEF Pcs, Moved
<1>3. CASE /\ call[c].op = "quit"
           /\ Becomes(c, [call[c] EXCEPT !.pc = "setstop", !.failed = FALSE])
  <2> DEFINE r == [call[c] EXCEPT !.pc = "setstop", !.failed = FALSE]
  <2>1. call[c] \in CallRecords
    BY DEF CallTypes
  <2>2. r \in CallRecords /\ r.pc = "setstop" /\ r.op = call[c].op /\ r.tag = call[c].tag /\ ~r.failed
    BY <2>1 DEF CallRecords, Pcs
  <2>3. Becomes(c, r)
    BY <1>3
  <2> HIDE DEF r
  <2> QED BY <1>3, <2>2, <2>3, Stored DEF SameCall
<1> QED BY <1>1, <1>2, <1>3 DEF StopEnds

LEMMA CancelForm ==
  ASSUME CallTypes, NEW c \in Callers, Cancel(c)
  PROVE  /\ CallTypes' /\ Others(c)
         /\ IF mntfd THEN SameCall(c) /\ call'[c].pc = "join" ELSE call'[c] = Idle
BY Went, Returned, "join" \in Pcs DEF Cancel, Pcs, Moved

LEMMA AskForm ==
  ASSUME CallTypes, NEW c \in Callers, Ask(c)
  PROVE  /\ CallTypes'
         /\ \/ call' = call
            \/ Others(c) /\ SameCall(c) /\ call'[c].pc = "update" /\ call[c].op = "init"
            \/ Others(c) /\ call'[c] = Idle
<1>1. \/ call[c].op = "init" /\ Goes(c, "update")
      \/ call' = call
      \/ Returns(c)
  BY DEF Ask
<1> QED BY <1>1, Went, Returned, "update" \in Pcs DEF Pcs, Moved, CallTypes

\* A call begins.
LEMMA BeginForm ==
  ASSUME CallTypes, NEW c \in Callers, NEW op \in Ops, Begin(c, op)
  PROVE  /\ CallTypes' /\ Others(c) /\ call[c] = Idle
         /\ call'[c].pc = FirstStep(op) /\ FirstStep(op) \in Pcs \ {"idle"}
         /\ call'[c].op = IF op \in Moving THEN "move" ELSE op
         /\ ~call'[c].failed
<1>1. PICK tag \in [Axes -> IF op \in Moving THEN {0, Far} ELSE {0}] :
        Becomes(c, [Idle EXCEPT !.pc = FirstStep(op), !.tag = tag,
                                !.op = IF op \in Moving THEN "move" ELSE op])
  BY DEF Begin
<1> DEFINE r == [Idle EXCEPT !.pc = FirstStep(op), !.tag = tag,
                             !.op = IF op \in Moving THEN "move" ELSE op]
<1>2. tag \in [Axes -> Positions]
  BY Constants
<1>3. FirstStep(op) \in {"update", "correct", "send", "setstop", "ask"}
  BY SidAssumption DEF FirstStep
<1>4. Idle \in CallRecords /\ Idle.failed = FALSE
  BY IdleTyped DEF Idle
<1>5. /\ r \in CallRecords /\ r.pc = FirstStep(op) /\ ~r.failed
      /\ r.op = IF op \in Moving THEN "move" ELSE op
  BY <1>2, <1>3, <1>4 DEF CallRecords, Pcs
<1>6. Becomes(c, r)
  BY <1>1
<1> HIDE DEF r
<1>7. CallTypes' /\ Others(c) /\ call'[c] = r
  BY <1>5, <1>6, Stored
<1> QED BY <1>3, <1>5, <1>7 DEF Pcs, Begin


-----------------------------------------------------------------------------
(* The types, kept by every step. *)

\* The axis a call turns to next.
LEMMA FirstIn ==
  ASSUME NEW S \in SUBSET Axes, S # {}
  PROVE  First(S) \in S
<1>1. \E a \in S : "X" \in S => a = "X"
  OBVIOUS
<1> QED BY <1>1 DEF First

\* Positions.
LEMMA DeviceNext == ASSUME DeviceTypes, CallTypes, Next PROVE DeviceTypes'
<1>1. ASSUME ThreadStarts PROVE DeviceTypes'
  BY <1>1, Constants
     DEF ThreadStarts, DeviceTypes, CallTypes, CallRecords, device, line, history
<1>2. ASSUME ThreadLoops PROVE DeviceTypes'
  BY <1>2, Constants DEF ThreadLoops, DeviceTypes, CallTypes, CallRecords, device, data, history
<1>3. ASSUME ThreadLocks PROVE DeviceTypes'
  BY <1>3, Constants DEF ThreadLocks, DeviceTypes, CallTypes, CallRecords, device, data, history
<1>4. ASSUME ThreadAnswered PROVE DeviceTypes'
  BY <1>4, Constants
     DEF ThreadAnswered, DeviceTypes, CallTypes, CallRecords, device, data, history
<1>5. ASSUME ThreadJudges PROVE DeviceTypes'
  BY <1>5, Constants
     DEF ThreadJudges, DeviceTypes, CallTypes, CallRecords, device, data, line, history
<1>6. ASSUME ThreadDies PROVE DeviceTypes'
  BY <1>6, Constants
     DEF ThreadDies, DeviceTypes, CallTypes, CallRecords, device, data, line, history
<1>7. ASSUME NEW a \in Axes, Moves(a) PROVE DeviceTypes'
  BY <1>7, Constants DEF Moves, DeviceTypes, CallTypes, CallRecords, data, thread, line, history
<1>8. ASSUME NEW c \in Callers, CorrectReads(c) PROVE DeviceTypes'
  BY <1>8, Constants
     DEF CorrectReads, DeviceTypes, CallTypes, CallRecords, device, data, thread, line, history
<1>9. ASSUME NEW c \in Callers, CorrectSets(c) PROVE DeviceTypes'
  BY <1>9, Constants
     DEF CorrectSets, DeviceTypes, CallTypes, CallRecords, device, thread, line, history
<1>10. ASSUME NEW c \in Callers, Update(c) PROVE DeviceTypes'
  BY <1>10, Constants
     DEF Update, DeviceTypes, CallTypes, CallRecords, device, data, thread, line, history
<1>11. ASSUME NEW c \in Callers, Sync(c) PROVE DeviceTypes'
  <2>1. call[c].todo \in SUBSET Axes /\ call[c].todo # {}
    BY <1>11 DEF Sync, CallTypes, CallRecords
  <2>2. First(call[c].todo) \in Axes
    BY <2>1, FirstIn
  <2>3. PICK v \in Positions :
          /\ mot' = mot \/ mot' = [mot EXCEPT ![First(call[c].todo)] = v]
          /\ goal' = goal \/ goal' = [goal EXCEPT ![First(call[c].todo)] = v]
    BY <1>11 DEF Sync
  <2> QED BY <2>2, <2>3 DEF DeviceTypes
<1>12. ASSUME NEW c \in Callers, SyncEnds(c) PROVE DeviceTypes'
  BY <1>12, Constants
     DEF SyncEnds, DeviceTypes, CallTypes, CallRecords, device, data, thread, line, history
<1>13. ASSUME NEW c \in Callers, Send(c) PROVE DeviceTypes'
  BY <1>13, Constants DEF Send, DeviceTypes, CallTypes, CallRecords, data, thread
<1>14. ASSUME NEW c \in Callers, Target(c) PROVE DeviceTypes'
  BY <1>14, Constants DEF Target, DeviceTypes, CallTypes, CallRecords, device, thread, history
<1>15. ASSUME NEW c \in Callers, SlewReads(c) PROVE DeviceTypes'
  BY <1>15, Constants
     DEF SlewReads, DeviceTypes, CallTypes, CallRecords, device, data, thread, line, history
<1>16. ASSUME NEW c \in Callers, SlewSets(c) PROVE DeviceTypes'
  BY <1>16, Constants
     DEF SlewSets, DeviceTypes, CallTypes, CallRecords, device, thread, line, history
<1>17. ASSUME NEW c \in Callers, SetStop(c) PROVE DeviceTypes'
  BY <1>17, Constants
     DEF SetStop, DeviceTypes, CallTypes, CallRecords, device, thread, line, history
<1>18. ASSUME NEW c \in Callers, Stop(c) PROVE DeviceTypes'
  <2>1. call[c].todo \in SUBSET Axes /\ call[c].todo # {}
    BY <1>18 DEF Stop, CallTypes, CallRecords
  <2>2. First(call[c].todo) \in Axes
    BY <2>1, FirstIn
  <2>3. /\ mot' = mot
        /\ goal' = goal \/ goal' = [goal EXCEPT ![First(call[c].todo)] = mot[First(call[c].todo)]]
    BY <1>18 DEF Stop
  <2> QED BY <2>2, <2>3 DEF DeviceTypes
<1>19. ASSUME NEW c \in Callers, StopEnds(c) PROVE DeviceTypes'
  BY <1>19, Constants
     DEF StopEnds, DeviceTypes, CallTypes, CallRecords, device, data, thread, line, history
<1>20. ASSUME NEW c \in Callers, Close(c) PROVE DeviceTypes'
  BY <1>20, Constants
     DEF Close, DeviceTypes, CallTypes, CallRecords, device, data, thread, history
<1>21. ASSUME NEW c \in Callers, Cancel(c) PROVE DeviceTypes'
  BY <1>21, Constants DEF Cancel, DeviceTypes, CallTypes, CallRecords, device, data, history
<1>22. ASSUME NEW c \in Callers, Join(c) PROVE DeviceTypes'
  BY <1>22, Constants DEF Join, DeviceTypes, CallTypes, CallRecords, device, data, history
<1>23. ASSUME NEW c \in Callers, Ask(c) PROVE DeviceTypes'
  BY <1>23, Constants
     DEF Ask, DeviceTypes, CallTypes, CallRecords, device, data, thread, line, history
<1>24. ASSUME NEW c \in Callers, Ready(c) PROVE DeviceTypes'
  BY <1>24, Constants
     DEF Ready, DeviceTypes, CallTypes, CallRecords, device, data, thread, line, history
<1>25. ASSUME NEW c \in Callers, Calls(c) PROVE DeviceTypes'
  BY <1>25, Constants DEF Calls, DeviceTypes, CallTypes, CallRecords, device, data, thread, line
<1>26. ASSUME NEW c \in Callers, Quits(c) PROVE DeviceTypes'
  BY <1>26, Constants DEF Quits, DeviceTypes, CallTypes, CallRecords, device, data, thread, line
<1>27. ASSUME NEW c \in Callers, Inits(c) PROVE DeviceTypes'
  BY <1>27, Constants DEF Inits, DeviceTypes, CallTypes, CallRecords, device, data
<1> QED BY <1>1, <1>2, <1>3, <1>4, <1>5, <1>6, <1>7, <1>8, <1>9, <1>10, <1>11, <1>12, <1>13,
        <1>14, <1>15, <1>16, <1>17, <1>18, <1>19, <1>20, <1>21, <1>22, <1>23, <1>24, <1>25,
        <1>26, <1>27 DEF Next, MountThread, CallStep

\* The mount thread.
LEMMA ThreadNext == ASSUME DeviceTypes, ThreadTypes, ErrOK, Next PROVE ThreadTypes'
<1>1. ASSUME ThreadStarts PROVE ThreadTypes'
  BY <1>1, Constants
     DEF ThreadStarts, ThreadGoes, DeviceTypes, ThreadTypes, ErrOK, device, line, history
<1>2. ASSUME ThreadLoops PROVE ThreadTypes'
  BY <1>2, Constants
     DEF ThreadLoops, ThreadGoes, DeviceTypes, ThreadTypes, ErrOK, device, data, history
<1>3. ASSUME ThreadLocks PROVE ThreadTypes'
  BY <1>3, Constants
     DEF ThreadLocks, ThreadGoes, DeviceTypes, ThreadTypes, ErrOK, device, data, history
<1>4. ASSUME ThreadAnswered PROVE ThreadTypes'
  BY <1>4, Constants
     DEF ThreadAnswered, Exchange, DeviceTypes, ThreadTypes, ErrOK, device, data, history
<1>5. ASSUME ThreadJudges PROVE ThreadTypes'
  BY <1>5, Constants DEF ThreadJudges, ThreadTypes
<1>6. ASSUME ThreadDies PROVE ThreadTypes'
  BY <1>6, Constants
     DEF ThreadDies, ThreadGoes, DeviceTypes, ThreadTypes, ErrOK, device, data, line, history
<1>7. ASSUME NEW a \in Axes, Moves(a) PROVE ThreadTypes'
  BY <1>7, Constants DEF Moves, DeviceTypes, ThreadTypes, ErrOK, data, thread, line, history
<1>8. ASSUME NEW c \in Callers, CorrectReads(c) PROVE ThreadTypes'
  BY <1>8, Constants
     DEF CorrectReads, DeviceTypes, ThreadTypes, ErrOK, device, data, thread, line, history
<1>9. ASSUME NEW c \in Callers, CorrectSets(c) PROVE ThreadTypes'
  BY <1>9, Constants
     DEF CorrectSets, DeviceTypes, ThreadTypes, ErrOK, device, thread, line, history
<1>10. ASSUME NEW c \in Callers, Update(c) PROVE ThreadTypes'
  BY <1>10, Constants
     DEF Update, DeviceTypes, ThreadTypes, ErrOK, device, data, thread, line, history
<1>11. ASSUME NEW c \in Callers, Sync(c) PROVE ThreadTypes'
  BY <1>11, Constants
     DEF Sync, Exchange, DeviceTypes, ThreadTypes, ErrOK, data, thread, line, history
<1>12. ASSUME NEW c \in Callers, SyncEnds(c) PROVE ThreadTypes'
  BY <1>12, Constants
     DEF SyncEnds, DeviceTypes, ThreadTypes, ErrOK, device, data, thread, line, history
<1>13. ASSUME NEW c \in Callers, Send(c) PROVE ThreadTypes'
  BY <1>13, Constants DEF Send, Exchange, DeviceTypes, ThreadTypes, ErrOK, data, thread
<1>14. ASSUME NEW c \in Callers, Target(c) PROVE ThreadTypes'
  BY <1>14, Constants DEF Target, DeviceTypes, ThreadTypes, ErrOK, device, thread, history
<1>15. ASSUME NEW c \in Callers, SlewReads(c) PROVE ThreadTypes'
  BY <1>15, Constants
     DEF SlewReads, DeviceTypes, ThreadTypes, ErrOK, device, data, thread, line, history
<1>16. ASSUME NEW c \in Callers, SlewSets(c) PROVE ThreadTypes'
  BY <1>16, Constants
     DEF SlewSets, DeviceTypes, ThreadTypes, ErrOK, device, thread, line, history
<1>17. ASSUME NEW c \in Callers, SetStop(c) PROVE ThreadTypes'
  BY <1>17, Constants
     DEF SetStop, DeviceTypes, ThreadTypes, ErrOK, device, thread, line, history
<1>18. ASSUME NEW c \in Callers, Stop(c) PROVE ThreadTypes'
  BY <1>18, Constants
     DEF Stop, Exchange, DeviceTypes, ThreadTypes, ErrOK, data, thread, line, history
<1>19. ASSUME NEW c \in Callers, StopEnds(c) PROVE ThreadTypes'
  BY <1>19, Constants
     DEF StopEnds, DeviceTypes, ThreadTypes, ErrOK, device, data, thread, line, history
<1>20. ASSUME NEW c \in Callers, Close(c) PROVE ThreadTypes'
  BY <1>20, Constants DEF Close, DeviceTypes, ThreadTypes, ErrOK, device, data, thread, history
<1>21. ASSUME NEW c \in Callers, Cancel(c) PROVE ThreadTypes'
  BY <1>21, Constants DEF Cancel, DeviceTypes, ThreadTypes, ErrOK, device, data, history
<1>22. ASSUME NEW c \in Callers, Join(c) PROVE ThreadTypes'
  BY <1>22, Constants DEF Join, DeviceTypes, ThreadTypes, ErrOK, device, data, history
<1>23. ASSUME NEW c \in Callers, Ask(c) PROVE ThreadTypes'
  BY <1>23, Constants
     DEF Ask, Exchange, DeviceTypes, ThreadTypes, ErrOK, device, data, thread, line, history
<1>24. ASSUME NEW c \in Callers, Ready(c) PROVE ThreadTypes'
  BY <1>24, Constants
     DEF Ready, DeviceTypes, ThreadTypes, ErrOK, device, data, thread, line, history
<1>25. ASSUME NEW c \in Callers, Calls(c) PROVE ThreadTypes'
  BY <1>25, Constants DEF Calls, DeviceTypes, ThreadTypes, ErrOK, device, data, thread, line
<1>26. ASSUME NEW c \in Callers, Quits(c) PROVE ThreadTypes'
  BY <1>26, Constants DEF Quits, DeviceTypes, ThreadTypes, ErrOK, device, data, thread, line
<1>27. ASSUME NEW c \in Callers, Inits(c) PROVE ThreadTypes'
  <2>1. mpc' = "start" /\ errctr' = 0 /\ sample' = sample
    BY <1>27 DEF Inits
  <2>2. cancelled' \in BOOLEAN
    BY <1>27, Zenon DEF Inits
  <2> QED BY <2>1, <2>2, Constants DEF ThreadTypes
<1> QED BY <1>1, <1>2, <1>3, <1>4, <1>5, <1>6, <1>7, <1>8, <1>9, <1>10, <1>11, <1>12, <1>13,
        <1>14, <1>15, <1>16, <1>17, <1>18, <1>19, <1>20, <1>21, <1>22, <1>23, <1>24, <1>25,
        <1>26, <1>27 DEF Next, MountThread, CallStep

\* The line.
LEMMA LineTypesNext == ASSUME LineTypes, Next PROVE LineTypes'
<1>1. ASSUME ThreadStarts PROVE LineTypes'
  BY <1>1, Constants DEF ThreadStarts, LineTypes, device, line, history
<1>2. ASSUME ThreadLoops PROVE LineTypes'
  BY <1>2, Constants DEF ThreadLoops, LineTypes, device, data, history
<1>3. ASSUME ThreadLocks PROVE LineTypes'
  BY <1>3, Constants DEF ThreadLocks, LineTypes, device, data, history
<1>4. ASSUME ThreadAnswered PROVE LineTypes'
  BY <1>4, Constants DEF ThreadAnswered, Exchange, LineTypes, device, data, history
<1>5. ASSUME ThreadJudges PROVE LineTypes'
  BY <1>5, Constants DEF ThreadJudges, LineTypes, device, data, line, history
<1>6. ASSUME ThreadDies PROVE LineTypes'
  BY <1>6, Constants DEF ThreadDies, LineTypes, device, data, line, history
<1>7. ASSUME NEW a \in Axes, Moves(a) PROVE LineTypes'
  BY <1>7, Constants DEF Moves, LineTypes, data, thread, line, history
<1>8. ASSUME NEW c \in Callers, CorrectReads(c) PROVE LineTypes'
  BY <1>8, Constants DEF CorrectReads, LineTypes, device, data, thread, line, history
<1>9. ASSUME NEW c \in Callers, CorrectSets(c) PROVE LineTypes'
  BY <1>9, Constants DEF CorrectSets, LineTypes, device, thread, line, history
<1>10. ASSUME NEW c \in Callers, Update(c) PROVE LineTypes'
  BY <1>10, Constants DEF Update, LineTypes, device, data, thread, line, history
<1>11. ASSUME NEW c \in Callers, Sync(c) PROVE LineTypes'
  BY <1>11, Constants DEF Sync, Exchange, LineTypes, data, thread, line, history
<1>12. ASSUME NEW c \in Callers, SyncEnds(c) PROVE LineTypes'
  BY <1>12, Constants DEF SyncEnds, LineTypes, device, data, thread, line, history
<1>13. ASSUME NEW c \in Callers, Send(c) PROVE LineTypes'
  BY <1>13, Constants DEF Send, Exchange, HoldIfDone, LineTypes, data, thread
<1>14. ASSUME NEW c \in Callers, Target(c) PROVE LineTypes'
  BY <1>14, Constants DEF Target, LineTypes, device, thread, history
<1>15. ASSUME NEW c \in Callers, SlewReads(c) PROVE LineTypes'
  BY <1>15, Constants DEF SlewReads, LineTypes, device, data, thread, line, history
<1>16. ASSUME NEW c \in Callers, SlewSets(c) PROVE LineTypes'
  BY <1>16, Constants DEF SlewSets, LineTypes, device, thread, line, history
<1>17. ASSUME NEW c \in Callers, SetStop(c) PROVE LineTypes'
  BY <1>17, Constants DEF SetStop, LineTypes, device, thread, line, history
<1>18. ASSUME NEW c \in Callers, Stop(c) PROVE LineTypes'
  BY <1>18, Constants DEF Stop, Exchange, LineTypes, data, thread, line, history
<1>19. ASSUME NEW c \in Callers, StopEnds(c) PROVE LineTypes'
  BY <1>19, Constants DEF StopEnds, LineTypes, device, data, thread, line, history
<1>20. ASSUME NEW c \in Callers, Close(c) PROVE LineTypes'
  BY <1>20, Constants DEF Close, LineTypes, device, data, thread, history
<1>21. ASSUME NEW c \in Callers, Cancel(c) PROVE LineTypes'
  BY <1>21, Constants DEF Cancel, LineTypes, device, data, history
<1>22. ASSUME NEW c \in Callers, Join(c) PROVE LineTypes'
  BY <1>22, Constants DEF Join, LineTypes, device, data, history
<1>23. ASSUME NEW c \in Callers, Ask(c) PROVE LineTypes'
  BY <1>23, Constants DEF Ask, Exchange, LineTypes, device, data, thread, line, history
<1>24. ASSUME NEW c \in Callers, Ready(c) PROVE LineTypes'
  BY <1>24, Constants DEF Ready, LineTypes, device, data, thread, line, history
<1>25. ASSUME NEW c \in Callers, Calls(c) PROVE LineTypes'
  BY <1>25, Constants DEF Calls, LineTypes, device, data, thread, line
<1>26. ASSUME NEW c \in Callers, Quits(c) PROVE LineTypes'
  BY <1>26, Constants DEF Quits, LineTypes, device, data, thread, line
<1>27. ASSUME NEW c \in Callers, Inits(c) PROVE LineTypes'
  BY <1>27, Constants DEF Inits, LineTypes, device, data
<1> QED BY <1>1, <1>2, <1>3, <1>4, <1>5, <1>6, <1>7, <1>8, <1>9, <1>10, <1>11, <1>12, <1>13,
        <1>14, <1>15, <1>16, <1>17, <1>18, <1>19, <1>20, <1>21, <1>22, <1>23, <1>24, <1>25,
        <1>26, <1>27 DEF Next, MountThread, CallStep

\* The data.
LEMMA DataNext == ASSUME DataTypes, ThreadTypes, CallTypes, Next PROVE DataTypes'
<1>1. ASSUME ThreadStarts PROVE DataTypes'
  BY <1>1, Constants
     DEF ThreadStarts, SetStat, DataTypes, ThreadTypes, CallTypes, CallRecords, States, device,
         line, history
<1>2. ASSUME ThreadLoops PROVE DataTypes'
  BY <1>2, Constants
     DEF ThreadLoops, DataTypes, ThreadTypes, CallTypes, CallRecords, States, device, data,
         history
<1>3. ASSUME ThreadLocks PROVE DataTypes'
  BY <1>3, Constants
     DEF ThreadLocks, DataTypes, ThreadTypes, CallTypes, CallRecords, States, device, data,
         history
<1>4. ASSUME ThreadAnswered PROVE DataTypes'
  BY <1>4, Constants
     DEF ThreadAnswered, DataTypes, ThreadTypes, CallTypes, CallRecords, States, device, data,
         history
<1>5. ASSUME ThreadJudges PROVE DataTypes'
  <2>1. \A a \in Axes : NStopped(a) \in 0..MOTOR_STOPPED_CNT + 1
    BY Constants DEF NStopped, Counted, DataTypes
  <2>2. \A a \in Axes : ChkStopStat(a) \in States
    BY DEF ChkStopStat, DataTypes, States
  <2> QED BY <1>5, <2>1, <2>2 DEF ThreadJudges, SetStat, DataTypes, ThreadTypes
<1>6. ASSUME ThreadDies PROVE DataTypes'
  BY <1>6, Constants
     DEF ThreadDies, DataTypes, ThreadTypes, CallTypes, CallRecords, States, device, data,
         line, history
<1>7. ASSUME NEW a \in Axes, Moves(a) PROVE DataTypes'
  BY <1>7, Constants
     DEF Moves, DataTypes, ThreadTypes, CallTypes, CallRecords, States, data, thread, line,
         history
<1>8. ASSUME NEW c \in Callers, CorrectReads(c) PROVE DataTypes'
  BY <1>8, Constants
     DEF CorrectReads, DataTypes, ThreadTypes, CallTypes, CallRecords, States, device, data,
         thread, line, history
<1>9. ASSUME NEW c \in Callers, CorrectSets(c) PROVE DataTypes'
  BY <1>9 DEF CorrectSets, SetStat, DataTypes
<1>10. ASSUME NEW c \in Callers, Update(c) PROVE DataTypes'
  BY <1>10, Constants
     DEF Update, DataTypes, ThreadTypes, CallTypes, CallRecords, States, device, data, thread,
         line, history
<1>11. ASSUME NEW c \in Callers, Sync(c) PROVE DataTypes'
  BY <1>11, Constants
     DEF Sync, DataTypes, ThreadTypes, CallTypes, CallRecords, States, data, thread, line,
         history
<1>12. ASSUME NEW c \in Callers, SyncEnds(c) PROVE DataTypes'
  BY <1>12, Constants
     DEF SyncEnds, DataTypes, ThreadTypes, CallTypes, CallRecords, States, device, data,
         thread, line, history
<1>13. ASSUME NEW c \in Callers, Send(c) PROVE DataTypes'
  BY <1>13, Constants
     DEF Send, DataTypes, ThreadTypes, CallTypes, CallRecords, States, data, thread
<1>14. ASSUME NEW c \in Callers, Target(c) PROVE DataTypes'
  BY <1>14, Constants
     DEF Target, DataTypes, ThreadTypes, CallTypes, CallRecords, States, device, thread, history
<1>15. ASSUME NEW c \in Callers, SlewReads(c) PROVE DataTypes'
  BY <1>15, Constants
     DEF SlewReads, DataTypes, ThreadTypes, CallTypes, CallRecords, States, device, data,
         thread, line, history
<1>16. ASSUME NEW c \in Callers, SlewSets(c) PROVE DataTypes'
  <2>1. \A a \in Axes : Slewing(call[c].seen[a]) \in States
    BY DEF Slewing, CallTypes, CallRecords, States
  <2> QED BY <1>16, <2>1 DEF SlewSets, SetStat, DataTypes
<1>17. ASSUME NEW c \in Callers, SetStop(c) PROVE DataTypes'
  BY <1>17, Constants
     DEF SetStop, SetStat, DataTypes, ThreadTypes, CallTypes, CallRecords, States, device,
         thread, line, history
<1>18. ASSUME NEW c \in Callers, Stop(c) PROVE DataTypes'
  BY <1>18, Constants
     DEF Stop, DataTypes, ThreadTypes, CallTypes, CallRecords, States, data, thread, line,
         history
<1>19. ASSUME NEW c \in Callers, StopEnds(c) PROVE DataTypes'
  BY <1>19, Constants
     DEF StopEnds, DataTypes, ThreadTypes, CallTypes, CallRecords, States, device, data,
         thread, line, history
<1>20. ASSUME NEW c \in Callers, Close(c) PROVE DataTypes'
  BY <1>20, Constants
     DEF Close, DataTypes, ThreadTypes, CallTypes, CallRecords, States, device, data, thread,
         history
<1>21. ASSUME NEW c \in Callers, Cancel(c) PROVE DataTypes'
  BY <1>21, Constants
     DEF Cancel, DataTypes, ThreadTypes, CallTypes, CallRecords, States, device, data, history
<1>22. ASSUME NEW c \in Callers, Join(c) PROVE DataTypes'
  BY <1>22, Constants
     DEF Join, DataTypes, ThreadTypes, CallTypes, CallRecords, States, device, data, history
<1>23. ASSUME NEW c \in Callers, Ask(c) PROVE DataTypes'
  BY <1>23, Constants
     DEF Ask, DataTypes, ThreadTypes, CallTypes, CallRecords, States, device, data, thread,
         line, history
<1>24. ASSUME NEW c \in Callers, Ready(c) PROVE DataTypes'
  BY <1>24, Constants
     DEF Ready, DataTypes, ThreadTypes, CallTypes, CallRecords, States, device, data, thread,
         line, history
<1>25. ASSUME NEW c \in Callers, Calls(c) PROVE DataTypes'
  BY <1>25 DEF Calls, DataTypes, data
<1>26. ASSUME NEW c \in Callers, Quits(c) PROVE DataTypes'
  BY <1>26, Constants
     DEF Quits, DataTypes, ThreadTypes, CallTypes, CallRecords, States, device, data, thread,
         line
<1>27. ASSUME NEW c \in Callers, Inits(c) PROVE DataTypes'
  BY <1>27, Constants
     DEF Inits, DataTypes, ThreadTypes, CallTypes, CallRecords, States, device, data
<1> QED BY <1>1, <1>2, <1>3, <1>4, <1>5, <1>6, <1>7, <1>8, <1>9, <1>10, <1>11, <1>12, <1>13,
        <1>14, <1>15, <1>16, <1>17, <1>18, <1>19, <1>20, <1>21, <1>22, <1>23, <1>24, <1>25,
        <1>26, <1>27 DEF Next, MountThread, CallStep

\* A call that begins is counted.
LEMMA BegunCounts ==
  ASSUME CountTypes, NEW c, NEW op, Begin(c, op)
  PROVE  calls' \in 0..MaxCalls /\ overlap' \in BOOLEAN
<1>1. calls' \in 0..MaxCalls
  BY Constants DEF Begin, CountTypes
<1>2. overlap' \in BOOLEAN
  BY DEF Begin
<1> QED BY <1>1, <1>2

\* The counters.
LEMMA CountNext == ASSUME CountTypes, Next PROVE CountTypes'
<1>1. ASSUME ThreadStarts PROVE CountTypes'
  BY <1>1, Constants DEF ThreadStarts, CountTypes, device, line, history
<1>2. ASSUME ThreadLoops PROVE CountTypes'
  BY <1>2, Constants DEF ThreadLoops, CountTypes, device, data, history
<1>3. ASSUME ThreadLocks PROVE CountTypes'
  BY <1>3, Constants DEF ThreadLocks, CountTypes, device, data, history
<1>4. ASSUME ThreadAnswered PROVE CountTypes'
  BY <1>4, Constants DEF ThreadAnswered, Exchange, CountTypes, device, data, history
<1>5. ASSUME ThreadJudges PROVE CountTypes'
  BY <1>5, Constants DEF ThreadJudges, CountTypes, device, data, line, history
<1>6. ASSUME ThreadDies PROVE CountTypes'
  BY <1>6, Constants DEF ThreadDies, CountTypes, device, data, line, history
<1>7. ASSUME NEW a \in Axes, Moves(a) PROVE CountTypes'
  BY <1>7, Constants DEF Moves, CountTypes, data, thread, line, history
<1>8. ASSUME NEW c \in Callers, CorrectReads(c) PROVE CountTypes'
  BY <1>8, Constants DEF CorrectReads, CountTypes, device, data, thread, line, history
<1>9. ASSUME NEW c \in Callers, CorrectSets(c) PROVE CountTypes'
  BY <1>9, Constants DEF CorrectSets, CountTypes, device, thread, line, history
<1>10. ASSUME NEW c \in Callers, Update(c) PROVE CountTypes'
  BY <1>10, Constants DEF Update, CountTypes, device, data, thread, line, history
<1>11. ASSUME NEW c \in Callers, Sync(c) PROVE CountTypes'
  BY <1>11, Constants DEF Sync, Exchange, CountTypes, data, thread, line, history
<1>12. ASSUME NEW c \in Callers, SyncEnds(c) PROVE CountTypes'
  BY <1>12, Constants DEF SyncEnds, CountTypes, device, data, thread, line, history
<1>13. ASSUME NEW c \in Callers, Send(c) PROVE CountTypes'
  <2>1. calls' = calls /\ overlap' = overlap /\ faults' \in 0..MaxFaults
    BY <1>13, Constants DEF Send, Exchange, CountTypes
  <2>2. \/ hurried' = [a \in Axes |-> state[a] = "GONNASTOP" \/ mpc = "data"]
        \/ hurried' = hurried
    BY <1>13 DEF Send
  <2>3. hurried' \in [Axes -> BOOLEAN]
    BY <2>2, Zenon DEF CountTypes
  <2> QED BY <2>1, <2>3 DEF CountTypes
<1>14. ASSUME NEW c \in Callers, Target(c) PROVE CountTypes'
  BY <1>14, Constants DEF Target, CountTypes, device, thread, history
<1>15. ASSUME NEW c \in Callers, SlewReads(c) PROVE CountTypes'
  BY <1>15, Constants DEF SlewReads, CountTypes, device, data, thread, line, history
<1>16. ASSUME NEW c \in Callers, SlewSets(c) PROVE CountTypes'
  BY <1>16, Constants DEF SlewSets, CountTypes, device, thread, line, history
<1>17. ASSUME NEW c \in Callers, SetStop(c) PROVE CountTypes'
  BY <1>17, Constants DEF SetStop, CountTypes, device, thread, line, history
<1>18. ASSUME NEW c \in Callers, Stop(c) PROVE CountTypes'
  BY <1>18, Constants DEF Stop, Exchange, CountTypes, data, thread, line, history
<1>19. ASSUME NEW c \in Callers, StopEnds(c) PROVE CountTypes'
  BY <1>19, Constants DEF StopEnds, CountTypes, device, data, thread, line, history
<1>20. ASSUME NEW c \in Callers, Close(c) PROVE CountTypes'
  BY <1>20, Constants DEF Close, CountTypes, device, data, thread, history
<1>21. ASSUME NEW c \in Callers, Cancel(c) PROVE CountTypes'
  BY <1>21, Constants DEF Cancel, CountTypes, device, data, history
<1>22. ASSUME NEW c \in Callers, Join(c) PROVE CountTypes'
  BY <1>22, Constants DEF Join, CountTypes, device, data, history
<1>23. ASSUME NEW c \in Callers, Ask(c) PROVE CountTypes'
  BY <1>23, Constants DEF Ask, Exchange, CountTypes, device, data, thread, line, history
<1>24. ASSUME NEW c \in Callers, Ready(c) PROVE CountTypes'
  BY <1>24, Constants DEF Ready, CountTypes, device, data, thread, line, history
<1>25. ASSUME NEW c \in Callers, Calls(c) PROVE CountTypes'
  BY <1>25, BegunCounts DEF Calls, CountTypes
<1>26. ASSUME NEW c \in Callers, Quits(c) PROVE CountTypes'
  BY <1>26, BegunCounts DEF Quits, CountTypes
<1>27. ASSUME NEW c \in Callers, Inits(c) PROVE CountTypes'
  BY <1>27, BegunCounts DEF Inits, CountTypes
<1> QED BY <1>1, <1>2, <1>3, <1>4, <1>5, <1>6, <1>7, <1>8, <1>9, <1>10, <1>11, <1>12, <1>13,
        <1>14, <1>15, <1>16, <1>17, <1>18, <1>19, <1>20, <1>21, <1>22, <1>23, <1>24, <1>25,
        <1>26, <1>27 DEF Next, MountThread, CallStep

\* The calls.
LEMMA CallNext == ASSUME CallTypes, DataTypes, Next PROVE CallTypes'
<1>1. ASSUME ThreadStarts PROVE CallTypes'
  BY <1>1 DEF ThreadStarts, CallTypes
<1>2. ASSUME ThreadLoops PROVE CallTypes'
  BY <1>2 DEF ThreadLoops, CallTypes
<1>3. ASSUME ThreadLocks PROVE CallTypes'
  BY <1>3 DEF ThreadLocks, CallTypes
<1>4. ASSUME ThreadAnswered PROVE CallTypes'
  BY <1>4 DEF ThreadAnswered, CallTypes
<1>5. ASSUME ThreadJudges PROVE CallTypes'
  BY <1>5 DEF ThreadJudges, CallTypes
<1>6. ASSUME ThreadDies PROVE CallTypes'
  BY <1>6 DEF ThreadDies, CallTypes
<1>7. ASSUME NEW a \in Axes, Moves(a) PROVE CallTypes'
  BY <1>7 DEF Moves, CallTypes
<1>8. ASSUME NEW c \in Callers, CorrectReads(c) PROVE CallTypes'
  BY <1>8, CorrectReadsForm
<1>9. ASSUME NEW c \in Callers, CorrectSets(c) PROVE CallTypes'
  BY <1>9, CorrectSetsForm
<1>10. ASSUME NEW c \in Callers, Update(c) PROVE CallTypes'
  BY <1>10, UpdateForm
<1>11. ASSUME NEW c \in Callers, Sync(c) PROVE CallTypes'
  BY <1>11, SyncForm
<1>12. ASSUME NEW c \in Callers, SyncEnds(c) PROVE CallTypes'
  BY <1>12, SyncEndsForm
<1>13. ASSUME NEW c \in Callers, Send(c) PROVE CallTypes'
  BY <1>13, SendForm
<1>14. ASSUME NEW c \in Callers, Target(c) PROVE CallTypes'
  BY <1>14, Went, "slew?" \in Pcs DEF Target, Pcs
<1>15. ASSUME NEW c \in Callers, SlewReads(c) PROVE CallTypes'
  BY <1>15, SlewReadsForm
<1>16. ASSUME NEW c \in Callers, SlewSets(c) PROVE CallTypes'
  BY <1>16, Returned DEF SlewSets
<1>17. ASSUME NEW c \in Callers, SetStop(c) PROVE CallTypes'
  BY <1>17, SetStopForm
<1>18. ASSUME NEW c \in Callers, Stop(c) PROVE CallTypes'
  BY <1>18, StopForm
<1>19. ASSUME NEW c \in Callers, StopEnds(c) PROVE CallTypes'
  BY <1>19, StopEndsForm
<1>20. ASSUME NEW c \in Callers, Close(c) PROVE CallTypes'
  BY <1>20, Went, "cancel" \in Pcs DEF Close, Pcs
<1>21. ASSUME NEW c \in Callers, Cancel(c) PROVE CallTypes'
  BY <1>21, CancelForm
<1>22. ASSUME NEW c \in Callers, Join(c) PROVE CallTypes'
  BY <1>22, Returned DEF Join
<1>23. ASSUME NEW c \in Callers, Ask(c) PROVE CallTypes'
  BY <1>23, AskForm
<1>24. ASSUME NEW c \in Callers, Ready(c) PROVE CallTypes'
  BY <1>24, Returned DEF Ready
<1>25. ASSUME NEW c \in Callers, Calls(c) PROVE CallTypes'
  BY <1>25, BeginForm DEF Calls
<1>26. ASSUME NEW c \in Callers, Quits(c) PROVE CallTypes'
  BY <1>26, BeginForm DEF Quits
<1>27. ASSUME NEW c \in Callers, Inits(c) PROVE CallTypes'
  BY <1>27, BeginForm DEF Inits
<1> QED BY <1>1, <1>2, <1>3, <1>4, <1>5, <1>6, <1>7, <1>8, <1>9, <1>10, <1>11, <1>12, <1>13,
        <1>14, <1>15, <1>16, <1>17, <1>18, <1>19, <1>20, <1>21, <1>22, <1>23, <1>24, <1>25,
        <1>26, <1>27 DEF Next, MountThread, CallStep

\* What a caller that does nothing looks like.
LEMMA IdleIs == Idle.pc = "idle" /\ Idle.op = "none" /\ Idle.failed = FALSE
BY DEF Idle

\* The errors.
LEMMA ErrNext == ASSUME ThreadTypes, CountTypes, ErrOK, Next PROVE ErrOK'
<1>1. ASSUME ThreadStarts PROVE ErrOK'
  BY <1>1, Constants
     DEF ThreadStarts, ThreadGoes, ErrOK, ThreadTypes, CountTypes, device, line, history
<1>2. ASSUME ThreadLoops PROVE ErrOK'
  BY <1>2, Constants
     DEF ThreadLoops, ThreadGoes, ErrOK, ThreadTypes, CountTypes, device, data, history
<1>3. ASSUME ThreadLocks PROVE ErrOK'
  BY <1>3, Constants
     DEF ThreadLocks, ThreadGoes, ErrOK, ThreadTypes, CountTypes, device, data, history
<1>4. ASSUME ThreadAnswered PROVE ErrOK'
  BY <1>4, Constants DEF ThreadAnswered, Exchange, ErrOK, ThreadTypes, CountTypes
<1>5. ASSUME ThreadJudges PROVE ErrOK'
  BY <1>5 DEF ThreadJudges, ErrOK, line
<1>6. ASSUME ThreadDies PROVE ErrOK'
  BY <1>6, Constants
     DEF ThreadDies, ThreadGoes, ErrOK, ThreadTypes, CountTypes, device, data, line, history
<1>7. ASSUME NEW a \in Axes, Moves(a) PROVE ErrOK'
  BY <1>7, Constants DEF Moves, ErrOK, ThreadTypes, CountTypes, data, thread, line, history
<1>8. ASSUME NEW c \in Callers, CorrectReads(c) PROVE ErrOK'
  BY <1>8, Constants
     DEF CorrectReads, ErrOK, ThreadTypes, CountTypes, device, data, thread, line, history
<1>9. ASSUME NEW c \in Callers, CorrectSets(c) PROVE ErrOK'
  BY <1>9, Constants
     DEF CorrectSets, ErrOK, ThreadTypes, CountTypes, device, thread, line, history
<1>10. ASSUME NEW c \in Callers, Update(c) PROVE ErrOK'
  BY <1>10, Constants
     DEF Update, ErrOK, ThreadTypes, CountTypes, device, data, thread, line, history
<1>11. ASSUME NEW c \in Callers, Sync(c) PROVE ErrOK'
  BY <1>11, Constants
     DEF Sync, Exchange, ErrOK, ThreadTypes, CountTypes, data, thread, line, history
<1>12. ASSUME NEW c \in Callers, SyncEnds(c) PROVE ErrOK'
  BY <1>12, Constants
     DEF SyncEnds, ErrOK, ThreadTypes, CountTypes, device, data, thread, line, history
<1>13. ASSUME NEW c \in Callers, Send(c) PROVE ErrOK'
  BY <1>13, Constants DEF Send, Exchange, ErrOK, ThreadTypes, CountTypes, data, thread
<1>14. ASSUME NEW c \in Callers, Target(c) PROVE ErrOK'
  BY <1>14, Constants DEF Target, ErrOK, ThreadTypes, CountTypes, device, thread, history
<1>15. ASSUME NEW c \in Callers, SlewReads(c) PROVE ErrOK'
  BY <1>15, Constants
     DEF SlewReads, ErrOK, ThreadTypes, CountTypes, device, data, thread, line, history
<1>16. ASSUME NEW c \in Callers, SlewSets(c) PROVE ErrOK'
  BY <1>16, Constants
     DEF SlewSets, ErrOK, ThreadTypes, CountTypes, device, thread, line, history
<1>17. ASSUME NEW c \in Callers, SetStop(c) PROVE ErrOK'
  BY <1>17, Constants DEF SetStop, ErrOK, ThreadTypes, CountTypes, device, thread, line, history
<1>18. ASSUME NEW c \in Callers, Stop(c) PROVE ErrOK'
  BY <1>18, Constants
     DEF Stop, Exchange, ErrOK, ThreadTypes, CountTypes, data, thread, line, history
<1>19. ASSUME NEW c \in Callers, StopEnds(c) PROVE ErrOK'
  BY <1>19, Constants
     DEF StopEnds, ErrOK, ThreadTypes, CountTypes, device, data, thread, line, history
<1>20. ASSUME NEW c \in Callers, Close(c) PROVE ErrOK'
  BY <1>20, Constants DEF Close, ErrOK, ThreadTypes, CountTypes, device, data, thread, history
<1>21. ASSUME NEW c \in Callers, Cancel(c) PROVE ErrOK'
  BY <1>21, Constants DEF Cancel, ErrOK, ThreadTypes, CountTypes, device, data, history
<1>22. ASSUME NEW c \in Callers, Join(c) PROVE ErrOK'
  BY <1>22, Constants DEF Join, ErrOK, ThreadTypes, CountTypes, device, data, history
<1>23. ASSUME NEW c \in Callers, Ask(c) PROVE ErrOK'
  BY <1>23, Constants
     DEF Ask, Exchange, ErrOK, ThreadTypes, CountTypes, device, data, thread, line, history
<1>24. ASSUME NEW c \in Callers, Ready(c) PROVE ErrOK'
  BY <1>24, Constants
     DEF Ready, ErrOK, ThreadTypes, CountTypes, device, data, thread, line, history
<1>25. ASSUME NEW c \in Callers, Calls(c) PROVE ErrOK'
  BY <1>25, Constants DEF Calls, ErrOK, ThreadTypes, CountTypes, device, data, thread, line
<1>26. ASSUME NEW c \in Callers, Quits(c) PROVE ErrOK'
  BY <1>26, Constants DEF Quits, ErrOK, ThreadTypes, CountTypes, device, data, thread, line
<1>27. ASSUME NEW c \in Callers, Inits(c) PROVE ErrOK'
  BY <1>27, Constants DEF Inits, ErrOK, ThreadTypes, CountTypes, device, data
<1> QED BY <1>1, <1>2, <1>3, <1>4, <1>5, <1>6, <1>7, <1>8, <1>9, <1>10, <1>11, <1>12, <1>13,
        <1>14, <1>15, <1>16, <1>17, <1>18, <1>19, <1>20, <1>21, <1>22, <1>23, <1>24, <1>25,
        <1>26, <1>27 DEF Next, MountThread, CallStep

\* The holders of the line.
LEMMA LineNext == ASSUME CallTypes, DataTypes, LineTypes, LineOK, Next PROVE LineOK'
<1>1. ASSUME ThreadStarts PROVE LineOK'
  BY <1>1, Constants DEF ThreadStarts, ThreadGoes, LineTypes, LineOK, device, line, history
<1>2. ASSUME ThreadLoops PROVE LineOK'
  BY <1>2, Constants DEF ThreadLoops, ThreadGoes, LineTypes, LineOK, device, data, history
<1>3. ASSUME ThreadLocks PROVE LineOK'
  BY <1>3, Constants DEF ThreadLocks, ThreadGoes, Free, LineTypes, LineOK, device, data, history
<1>4. ASSUME ThreadAnswered PROVE LineOK'
  BY <1>4, Constants DEF ThreadAnswered, LineTypes, LineOK, device, data, history
<1>5. ASSUME ThreadJudges PROVE LineOK'
  BY <1>5, Constants DEF ThreadJudges, LineTypes, LineOK, device, data, line, history
<1>6. ASSUME ThreadDies PROVE LineOK'
  BY <1>6, Constants DEF ThreadDies, ThreadGoes, LineTypes, LineOK, device, data, line, history
<1>7. ASSUME NEW a \in Axes, Moves(a) PROVE LineOK'
  BY <1>7, Constants DEF Moves, LineTypes, LineOK, data, thread, line, history
<1>8. ASSUME NEW c \in Callers, CorrectReads(c) PROVE LineOK'
  BY <1>8, Constants, IdleIs, CorrectReadsForm
     DEF CorrectReads, LineOK, Others, Free, thread, line
<1>9. ASSUME NEW c \in Callers, CorrectSets(c) PROVE LineOK'
  BY <1>9, Constants, IdleIs, CorrectSetsForm
     DEF CorrectSets, LineOK, Others, Free, thread, line
<1>10. ASSUME NEW c \in Callers, Update(c) PROVE LineOK'
  BY <1>10, Constants, IdleIs, UpdateForm
     DEF Update, LineOK, Others, Free, thread, line
<1>11. ASSUME NEW c \in Callers, Sync(c) PROVE LineOK'
  BY <1>11, Constants, IdleIs, SyncForm
     DEF Sync, LineOK, Others, Free, thread, line
<1>12. ASSUME NEW c \in Callers, SyncEnds(c) PROVE LineOK'
  BY <1>12, Constants, IdleIs, SyncEndsForm
     DEF SyncEnds, LineOK, Others, Free, thread, line
<1>13. ASSUME NEW c \in Callers, Send(c) PROVE LineOK'
  BY <1>13, Constants, IdleIs, SendForm
     DEF Send, LineOK, Others, Free, thread, line
<1>14. ASSUME NEW c \in Callers, Target(c) PROVE LineOK'
  BY <1>14, Constants, IdleIs, Went, "slew?" \in Pcs
     DEF Target, LineOK, Others, Free, thread, line, Pcs
<1>15. ASSUME NEW c \in Callers, SlewReads(c) PROVE LineOK'
  BY <1>15, Constants, IdleIs, SlewReadsForm
     DEF SlewReads, LineOK, Others, Free, thread, line
<1>16. ASSUME NEW c \in Callers, SlewSets(c) PROVE LineOK'
  BY <1>16, Constants, IdleIs, Returned
     DEF SlewSets, LineOK, Others, Free, thread, line
<1>17. ASSUME NEW c \in Callers, SetStop(c) PROVE LineOK'
  BY <1>17, Constants, IdleIs, SetStopForm
     DEF SetStop, LineOK, Others, Free, thread, line
<1>18. ASSUME NEW c \in Callers, Stop(c) PROVE LineOK'
  BY <1>18, Constants, IdleIs, StopForm
     DEF Stop, LineOK, Others, Free, thread, line
<1>19. ASSUME NEW c \in Callers, StopEnds(c) PROVE LineOK'
  BY <1>19, Constants, IdleIs, StopEndsForm
     DEF StopEnds, LineOK, Others, Free, thread, line
<1>20. ASSUME NEW c \in Callers, Close(c) PROVE LineOK'
  BY <1>20, Constants, IdleIs, Went, "cancel" \in Pcs
     DEF Close, LineOK, Others, Free, thread, line, Pcs
<1>21. ASSUME NEW c \in Callers, Cancel(c) PROVE LineOK'
  BY <1>21, Constants, IdleIs, CancelForm
     DEF Cancel, LineOK, Others, Free, thread, line
<1>22. ASSUME NEW c \in Callers, Join(c) PROVE LineOK'
  BY <1>22, Constants, IdleIs, Returned
     DEF Join, LineOK, Others, Free, thread, line
<1>23. ASSUME NEW c \in Callers, Ask(c) PROVE LineOK'
  BY <1>23, Constants, IdleIs, AskForm
     DEF Ask, LineOK, Others, Free, thread, line
<1>24. ASSUME NEW c \in Callers, Ready(c) PROVE LineOK'
  BY <1>24, Constants, IdleIs, Returned
     DEF Ready, LineOK, Others, Free, thread, line
<1>25. ASSUME NEW c \in Callers, Calls(c) PROVE LineOK'
  <2>1. PICK op \in Ops : Begin(c, op)
    BY <1>25 DEF Calls
  <2>2. FirstStep(op) # "target"
    BY SidAssumption DEF FirstStep
  <2> QED BY <1>25, <2>1, <2>2, Constants, IdleIs, BeginForm
     DEF Calls, LineOK, Others, thread, line
<1>26. ASSUME NEW c \in Callers, Quits(c) PROVE LineOK'
  <2>1. PICK op \in Ops : Begin(c, op)
    BY <1>26 DEF Quits
  <2>2. FirstStep(op) # "target"
    BY SidAssumption DEF FirstStep
  <2> QED BY <1>26, <2>1, <2>2, Constants, IdleIs, BeginForm
     DEF Quits, LineOK, Others, thread, line
<1>27. ASSUME NEW c \in Callers, Inits(c) PROVE LineOK'
  <2>1. PICK op \in Ops : Begin(c, op)
    BY <1>27 DEF Inits
  <2>2. FirstStep(op) # "target"
    BY SidAssumption DEF FirstStep
  <2> QED BY <1>27, <2>1, <2>2, Constants, IdleIs, BeginForm
     DEF Inits, LineOK, Others, thread, line
<1> QED BY <1>1, <1>2, <1>3, <1>4, <1>5, <1>6, <1>7, <1>8, <1>9, <1>10, <1>11, <1>12, <1>13,
        <1>14, <1>15, <1>16, <1>17, <1>18, <1>19, <1>20, <1>21, <1>22, <1>23, <1>24, <1>25,
        <1>26, <1>27 DEF Next, MountThread, CallStep

-----------------------------------------------------------------------------
(* Types and holders of the line together. *)

LEMMA TypeInit == Init => TypeInv
<1> SUFFICES ASSUME Init PROVE TypeInv
  OBVIOUS
<1>1. 0 \in Positions /\ Positions \subseteq Int
  BY Constants
<1>2. DeviceTypes
  BY <1>1 DEF Init, DeviceTypes
<1>3. DataTypes
  BY <1>1, Constants DEF Init, DataTypes, States
<1>4. cancelled \in BOOLEAN /\ mntfd \in BOOLEAN /\ GlobExit \in BOOLEAN
  BY Zenon DEF Init
<1>5. ThreadTypes
  BY <1>1, <1>4, Constants DEF Init, ThreadTypes
<1>6. mntmutex \in Callers \cup {Mount, None}
  BY DEF Init
<1>7. LineTypes
  BY <1>4, <1>6 DEF LineTypes
<1>8. CallTypes
  BY IdleTyped DEF Init, CallTypes
<1>9. calls \in 0..MaxCalls /\ faults \in 0..MaxFaults
  BY Constants DEF Init
<1>10. hurried \in [Axes -> BOOLEAN] /\ overlap \in BOOLEAN
  BY Zenon DEF Init
<1>11. CountTypes
  BY <1>9, <1>10 DEF CountTypes
<1>12. LineOK
  BY Constants, IdleIs DEF Init, LineOK
<1>13. ErrOK
  BY Constants DEF Init, ErrOK
<1> QED BY <1>2, <1>3, <1>5, <1>7, <1>8, <1>11, <1>12, <1>13 DEF TypeInv, Types

LEMMA TypeStutter == ASSUME TypeInv, UNCHANGED vars PROVE TypeInv'
<1>1. UNCHANGED <<mot, goal, state, target, prev, nstopped, mpc, sample, errctr, cancelled>>
  BY DEF vars, device, data, thread
<1>2. UNCHANGED <<mntfd, mntmutex, GlobExit, call, calls, faults, hurried, overlap>>
  BY DEF vars, line, history
<1>3. DeviceTypes' /\ DataTypes' /\ ThreadTypes' /\ CallTypes'
  BY <1>1, <1>2 DEF TypeInv, Types, DeviceTypes, DataTypes, ThreadTypes, CallTypes
<1>4. LineTypes' /\ CountTypes'
  BY <1>2 DEF TypeInv, Types, LineTypes, CountTypes
<1>5. LineOK' /\ ErrOK'
  BY <1>1, <1>2 DEF TypeInv, LineOK, ErrOK
<1> QED BY <1>3, <1>4, <1>5 DEF TypeInv, Types

LEMMA TypeNext == ASSUME TypeInv, [Next]_vars PROVE TypeInv'
<1>1. CASE Next
  BY <1>1, DeviceNext, ThreadNext, LineTypesNext, DataNext, CountNext, CallNext, ErrNext, LineNext
     DEF TypeInv, Types
<1>2. CASE UNCHANGED vars
  BY <1>2, TypeStutter
<1> QED BY <1>1, <1>2

LEMMA TypeImplies == TypeInv => SidTypeOK
<1> SUFFICES ASSUME TypeInv PROVE SidTypeOK
  OBVIOUS
<1>1. mntmutex \in Callers => call[mntmutex].pc = "target"
  BY DEF TypeInv, LineOK
<1>2. mpc = "in" => mntmutex = Mount
  BY DEF TypeInv, LineOK
<1> QED BY <1>1, <1>2 DEF TypeInv, Types, DeviceTypes, DataTypes, ThreadTypes, LineTypes,
        CallTypes, CallRecords, CountTypes, SidTypeOK

\* In every behaviour the variables keep to their values, the mount thread holds
\* the line in its exchange, and a caller that holds it is about to note the
\* target of the command it has sent.
THEOREM SidTypes == Spec => []SidTypeOK
<1>1. TypeInv /\ [Next]_vars => TypeInv'
  BY TypeNext
<1> QED BY <1>1, TypeInit, TypeImplies, PTL DEF Spec

-----------------------------------------------------------------------------
(* Which places belong to which calls, and who calls at the same time. *)

Shape(r) ==
  /\ r.pc = "idle" => r = Idle
  /\ r.op = "none" => r.pc = "idle"
  /\ r.pc \in {"correct", "corrected", "send", "target", "slew?", "slew"} => r.op = "move"
  /\ r.pc \in {"update", "sync"} => r.op \in {"move", "init"}
  /\ r.pc \in {"setstop", "stop"} => r.op \in {"stop", "quit"}
  /\ r.pc \in {"close", "cancel", "join"} => r.op = "quit"
  /\ r.pc = "ask" => r.op \in {"ask", "init"}
  /\ r.pc = "ready" => r.op = "init"

OpsOK == \A c \in Callers : Shape(call[c])

\* quit and init are called when nobody else uses the library, and one caller
\* at a time moves or stops the mount, as long as there is no overlap.
Alone ==
  \A c, d \in Callers : c # d /\ call[c].op \in {"quit", "init"} => call[d].op = "none"
OneDriver ==
  ~overlap => \A c, d \in Callers :
                call[c].op \in Driving /\ call[d].op \in Driving => c = d

\* GlobExit and the cancellation of the thread belong to a quit.
ExitOK == GlobExit => \E c \in Callers : call[c].pc \in {"cancel", "join"}
CancelOK == cancelled => \E c \in Callers : call[c].pc = "join"

\* A thread that sleeps has judged, and the first call is init.
PrevOK == mpc = "sleep" => \A a \in Axes : prev[a] # None
FirstOK == calls = 0 => \A c \in Callers : call[c].op = "none"

CtlInv == OpsOK /\ Alone /\ OneDriver /\ ExitOK /\ CancelOK /\ PrevOK /\ FirstOK

\* The places of the calls.
LEMMA OpsNext == ASSUME CallTypes, DataTypes, OpsOK, Next PROVE OpsOK'
<1>1. ASSUME ThreadStarts PROVE OpsOK'
  BY <1>1 DEF ThreadStarts, OpsOK, device, line, history
<1>2. ASSUME ThreadLoops PROVE OpsOK'
  BY <1>2 DEF ThreadLoops, OpsOK, device, data, history
<1>3. ASSUME ThreadLocks PROVE OpsOK'
  BY <1>3 DEF ThreadLocks, OpsOK, device, data, history
<1>4. ASSUME ThreadAnswered PROVE OpsOK'
  BY <1>4 DEF ThreadAnswered, Exchange, OpsOK, device, data, history
<1>5. ASSUME ThreadJudges PROVE OpsOK'
  BY <1>5 DEF ThreadJudges, OpsOK, device, data, line, history
<1>6. ASSUME ThreadDies PROVE OpsOK'
  BY <1>6 DEF ThreadDies, OpsOK, device, data, line, history
<1>7. ASSUME NEW a \in Axes, Moves(a) PROVE OpsOK'
  BY <1>7 DEF Moves, OpsOK, data, thread, line, history
<1>8. ASSUME NEW c \in Callers, CorrectReads(c) PROVE OpsOK'
  <2>1. Others(c) /\ Shape(call[c])
    BY <1>8, CorrectReadsForm DEF CorrectReads, OpsOK
  <2>2. Shape(call'[c])
    BY <1>8, <2>1, IdleIs, CorrectReadsForm DEF CorrectReads, SameCall, Shape
  <2> QED BY <2>1, <2>2 DEF OpsOK, Others
<1>9. ASSUME NEW c \in Callers, CorrectSets(c) PROVE OpsOK'
  <2>1. Others(c) /\ Shape(call[c])
    BY <1>9, CorrectSetsForm DEF CorrectSets, OpsOK
  <2>2. Shape(call'[c])
    BY <1>9, <2>1, IdleIs, CorrectSetsForm DEF CorrectSets, SameCall, Shape
  <2> QED BY <2>1, <2>2 DEF OpsOK, Others
<1>10. ASSUME NEW c \in Callers, Update(c) PROVE OpsOK'
  <2>1. Others(c) /\ Shape(call[c])
    BY <1>10, UpdateForm DEF Update, OpsOK
  <2>2. Shape(call'[c])
    BY <1>10, <2>1, IdleIs, UpdateForm DEF Update, SameCall, Shape
  <2> QED BY <2>1, <2>2 DEF OpsOK, Others
<1>11. ASSUME NEW c \in Callers, Sync(c) PROVE OpsOK'
  <2>1. Others(c) /\ Shape(call[c])
    BY <1>11, SyncForm DEF Sync, OpsOK
  <2>2. Shape(call'[c])
    BY <1>11, <2>1, IdleIs, SyncForm DEF Sync, SameCall, Shape
  <2> QED BY <2>1, <2>2 DEF OpsOK, Others
<1>12. ASSUME NEW c \in Callers, SyncEnds(c) PROVE OpsOK'
  <2>1. Others(c) /\ Shape(call[c])
    BY <1>12, SyncEndsForm DEF SyncEnds, OpsOK
  <2>2. Shape(call'[c])
    BY <1>12, <2>1, IdleIs, SyncEndsForm DEF SyncEnds, SameCall, Shape
  <2> QED BY <2>1, <2>2 DEF OpsOK, Others
<1>13. ASSUME NEW c \in Callers, Send(c) PROVE OpsOK'
  <2>1. Others(c) /\ Shape(call[c])
    BY <1>13, SendForm DEF Send, OpsOK
  <2>2. Shape(call'[c])
    BY <1>13, <2>1, IdleIs, SendForm DEF Send, SameCall, Shape
  <2> QED BY <2>1, <2>2 DEF OpsOK, Others
<1>14. ASSUME NEW c \in Callers, Target(c) PROVE OpsOK'
  <2>1. Others(c) /\ Shape(call[c])
    BY <1>14, Went, "slew?" \in Pcs DEF Target, OpsOK, Pcs, Moved, SameCall
  <2>2. Shape(call'[c])
    BY <1>14, <2>1, IdleIs, Went, "slew?" \in Pcs DEF Target, Pcs, Moved, SameCall, Shape
  <2> QED BY <2>1, <2>2 DEF OpsOK, Others
<1>15. ASSUME NEW c \in Callers, SlewReads(c) PROVE OpsOK'
  <2>1. Others(c) /\ Shape(call[c])
    BY <1>15, SlewReadsForm DEF SlewReads, OpsOK
  <2>2. Shape(call'[c])
    BY <1>15, <2>1, IdleIs, SlewReadsForm DEF SlewReads, SameCall, Shape
  <2> QED BY <2>1, <2>2 DEF OpsOK, Others
<1>16. ASSUME NEW c \in Callers, SlewSets(c) PROVE OpsOK'
  <2>1. Others(c) /\ Shape(call[c])
    BY <1>16, Returned DEF SlewSets, OpsOK
  <2>2. Shape(call'[c])
    BY <1>16, <2>1, IdleIs, Returned DEF SlewSets, SameCall, Shape
  <2> QED BY <2>1, <2>2 DEF OpsOK, Others
<1>17. ASSUME NEW c \in Callers, SetStop(c) PROVE OpsOK'
  <2>1. Others(c) /\ Shape(call[c])
    BY <1>17, SetStopForm DEF SetStop, OpsOK
  <2>2. Shape(call'[c])
    BY <1>17, <2>1, IdleIs, SetStopForm DEF SetStop, SameCall, Shape
  <2> QED BY <2>1, <2>2 DEF OpsOK, Others
<1>18. ASSUME NEW c \in Callers, Stop(c) PROVE OpsOK'
  <2>1. Others(c) /\ Shape(call[c])
    BY <1>18, StopForm DEF Stop, OpsOK
  <2>2. Shape(call'[c])
    BY <1>18, <2>1, IdleIs, StopForm DEF Stop, SameCall, Shape
  <2> QED BY <2>1, <2>2 DEF OpsOK, Others
<1>19. ASSUME NEW c \in Callers, StopEnds(c) PROVE OpsOK'
  <2>1. Others(c) /\ Shape(call[c])
    BY <1>19, StopEndsForm DEF StopEnds, OpsOK
  <2>2. Shape(call'[c])
    BY <1>19, <2>1, IdleIs, StopEndsForm DEF StopEnds, SameCall, Shape
  <2> QED BY <2>1, <2>2 DEF OpsOK, Others
<1>20. ASSUME NEW c \in Callers, Close(c) PROVE OpsOK'
  <2>1. Others(c) /\ Shape(call[c])
    BY <1>20, Went, "cancel" \in Pcs DEF Close, OpsOK, Pcs, Moved, SameCall
  <2>2. Shape(call'[c])
    BY <1>20, <2>1, IdleIs, Went, "cancel" \in Pcs DEF Close, Pcs, Moved, SameCall, Shape
  <2> QED BY <2>1, <2>2 DEF OpsOK, Others
<1>21. ASSUME NEW c \in Callers, Cancel(c) PROVE OpsOK'
  <2>1. Others(c) /\ Shape(call[c])
    BY <1>21, CancelForm DEF Cancel, OpsOK
  <2>2. Shape(call'[c])
    BY <1>21, <2>1, IdleIs, CancelForm DEF Cancel, SameCall, Shape
  <2> QED BY <2>1, <2>2 DEF OpsOK, Others
<1>22. ASSUME NEW c \in Callers, Join(c) PROVE OpsOK'
  <2>1. Others(c) /\ Shape(call[c])
    BY <1>22, Returned DEF Join, OpsOK
  <2>2. Shape(call'[c])
    BY <1>22, <2>1, IdleIs, Returned DEF Join, SameCall, Shape
  <2> QED BY <2>1, <2>2 DEF OpsOK, Others
<1>23. ASSUME NEW c \in Callers, Ask(c) PROVE OpsOK'
  <2>1. Shape(call[c]) /\ \A d \in Callers : d # c => call'[d] = call[d]
    BY <1>23, AskForm DEF OpsOK, Others
  <2>2. Shape(call'[c])
    BY <1>23, <2>1, IdleIs, AskForm DEF Ask, Shape, SameCall
  <2> QED BY <2>1, <2>2 DEF OpsOK
<1>24. ASSUME NEW c \in Callers, Ready(c) PROVE OpsOK'
  <2>1. Others(c) /\ Shape(call[c])
    BY <1>24, Returned DEF Ready, OpsOK
  <2>2. Shape(call'[c])
    BY <1>24, <2>1, IdleIs, Returned DEF Ready, SameCall, Shape
  <2> QED BY <2>1, <2>2 DEF OpsOK, Others
<1>25. ASSUME NEW c \in Callers, Calls(c) PROVE OpsOK'
  <2>1. PICK op \in Ops : Begin(c, op)
    BY <1>25 DEF Calls
  <2>2. Shape(call'[c])
    BY <2>1, BeginForm, SidAssumption DEF FirstStep, Shape, Moving
  <2> QED BY <2>1, <2>2, BeginForm DEF OpsOK, Others
<1>26. ASSUME NEW c \in Callers, Quits(c) PROVE OpsOK'
  <2>1. PICK op \in Ops : Begin(c, op)
    BY <1>26 DEF Quits
  <2>2. Shape(call'[c])
    BY <2>1, BeginForm, SidAssumption DEF FirstStep, Shape, Moving
  <2> QED BY <2>1, <2>2, BeginForm DEF OpsOK, Others
<1>27. ASSUME NEW c \in Callers, Inits(c) PROVE OpsOK'
  <2>1. PICK op \in Ops : Begin(c, op)
    BY <1>27 DEF Inits
  <2>2. Shape(call'[c])
    BY <2>1, BeginForm, SidAssumption DEF FirstStep, Shape, Moving
  <2> QED BY <2>1, <2>2, BeginForm DEF OpsOK, Others
<1> QED BY <1>1, <1>2, <1>3, <1>4, <1>5, <1>6, <1>7, <1>8, <1>9, <1>10, <1>11, <1>12, <1>13,
        <1>14, <1>15, <1>16, <1>17, <1>18, <1>19, <1>20, <1>21, <1>22, <1>23, <1>24, <1>25,
        <1>26, <1>27 DEF Next, MountThread, CallStep


\* A step of a call keeps what is called, or ends it.
LEMMA StepKeeps ==
  ASSUME CallTypes, DataTypes, NEW c \in Callers, CallStep(c)
  PROVE  /\ \A d \in Callers : call'[d].op = call[d].op \/ (d = c /\ call'[d].op = "none")
         /\ calls' = calls /\ overlap' = overlap
<1>1. CASE CorrectReads(c)
  BY <1>1, IdleIs, CorrectReadsForm DEF CorrectReads, Others, SameCall, history
<1>2. CASE CorrectSets(c)
  BY <1>2, IdleIs, CorrectSetsForm DEF CorrectSets, Others, SameCall, history
<1>3. CASE Update(c)
  BY <1>3, IdleIs, UpdateForm DEF Update, Others, SameCall, history
<1>4. CASE Sync(c)
  BY <1>4, IdleIs, SyncForm DEF Sync, Others, SameCall, history
<1>5. CASE SyncEnds(c)
  BY <1>5, IdleIs, SyncEndsForm DEF SyncEnds, Others, SameCall, history
<1>6. CASE Send(c)
  BY <1>6, IdleIs, SendForm DEF Send, Others, SameCall, history
<1>7. CASE Target(c)
  BY <1>7, IdleIs, Went, "slew?" \in Pcs DEF Target, Others, SameCall, history, Pcs, Moved
<1>8. CASE SlewReads(c)
  BY <1>8, IdleIs, SlewReadsForm DEF SlewReads, Others, SameCall, history
<1>9. CASE SlewSets(c)
  BY <1>9, IdleIs, Returned DEF SlewSets, Others, SameCall, history
<1>10. CASE SetStop(c)
  BY <1>10, IdleIs, SetStopForm DEF SetStop, Others, SameCall, history
<1>11. CASE Stop(c)
  BY <1>11, IdleIs, StopForm DEF Stop, Others, SameCall, history
<1>12. CASE StopEnds(c)
  BY <1>12, IdleIs, StopEndsForm DEF StopEnds, Others, SameCall, history
<1>13. CASE Close(c)
  BY <1>13, IdleIs, Went, "cancel" \in Pcs DEF Close, Others, SameCall, history, Pcs, Moved
<1>14. CASE Cancel(c)
  BY <1>14, IdleIs, CancelForm DEF Cancel, Others, SameCall, history
<1>15. CASE Join(c)
  BY <1>15, IdleIs, Returned DEF Join, Others, SameCall, history
<1>16. CASE Ask(c)
  BY <1>16, IdleIs, AskForm DEF Ask, Others, SameCall, history
<1>17. CASE Ready(c)
  BY <1>17, IdleIs, Returned DEF Ready, Others, SameCall, history
<1> QED BY <1>1, <1>2, <1>3, <1>4, <1>5, <1>6, <1>7, <1>8, <1>9,
        <1>10, <1>11, <1>12, <1>13, <1>14, <1>15, <1>16, <1>17 DEF CallStep

\* The callers that begin.
LEMMA BeginKeeps ==
  ASSUME CallTypes, NEW c \in Callers, NEW op \in Ops, Begin(c, op)
  PROVE  /\ \A d \in Callers : d # c => call'[d] = call[d]
         /\ call[c].op = "none" /\ call'[c].op = IF op \in Moving THEN "move" ELSE op
         /\ calls' = calls + 1
         /\ \A d \in Callers : call[d].op \notin {"quit", "init"}
         /\ overlap' = (overlap \/ (op \in Driving
                                     /\ \E d \in Callers : call[d].op \in Driving))
<1>1. call[c] = Idle /\ calls' = calls + 1
  BY DEF Begin
<1> QED BY <1>1, IdleIs, BeginForm DEF Begin, Others

\* A step is one of the mount thread or a motor, of a call, or the beginning of one.
LEMMA Steps ==
  ASSUME Next
  PROVE  \/ MountThread \/ \E a \in Axes : Moves(a)
         \/ \E c \in Callers : CallStep(c)
         \/ \E c \in Callers, op \in Ops :
              Begin(c, op) /\ (op \in {"quit", "init"} => \A d \in Callers : call[d] = Idle)
BY DEF Next, Calls, Quits, Inits

\* Neither the mount thread nor a motor calls.
LEMMA NoCall ==
  ASSUME MountThread \/ \E a \in Axes : Moves(a)
  PROVE  call' = call /\ calls' = calls /\ overlap' = overlap
<1>1. CASE MountThread
  BY <1>1 DEF MountThread, ThreadStarts, ThreadLoops, ThreadLocks, ThreadAnswered,
              ThreadJudges, ThreadDies, history
<1>2. CASE \E a \in Axes : Moves(a)
  BY <1>2 DEF Moves, history
<1> QED BY <1>1, <1>2

LEMMA CallersNext ==
  ASSUME CallTypes, DataTypes, CountTypes, Alone, OneDriver, FirstOK, Next
  PROVE  Alone' /\ OneDriver' /\ FirstOK'
<1>1. CASE MountThread \/ \E a \in Axes : Moves(a)
  BY <1>1, NoCall DEF Alone, OneDriver, FirstOK
<1>2. ASSUME NEW c \in Callers, CallStep(c)
      PROVE  Alone' /\ OneDriver' /\ FirstOK'
  <2>1. /\ \A d \in Callers : call'[d].op = call[d].op \/ call'[d].op = "none"
        /\ calls' = calls /\ overlap' = overlap
    BY <1>2, StepKeeps
  <2>2. "none" \notin Driving /\ "none" \notin {"quit", "init"}
    BY DEF Driving, Moving
  <2> QED BY <2>1, <2>2 DEF Alone, OneDriver, FirstOK
<1>3. ASSUME NEW c \in Callers, NEW op \in Ops, Begin(c, op),
             op \in {"quit", "init"} => \A d \in Callers : call[d] = Idle
      PROVE  Alone' /\ OneDriver' /\ FirstOK'
  <2>1. /\ \A d \in Callers : d # c => call'[d] = call[d]
        /\ call'[c].op = IF op \in Moving THEN "move" ELSE op
        /\ calls' = calls + 1
        /\ \A d \in Callers : call[d].op \notin {"quit", "init"}
        /\ overlap' = (overlap \/ (op \in Driving
                                     /\ \E d \in Callers : call[d].op \in Driving))
    BY <1>3, BeginKeeps
  <2>2. op \in Driving <=> call'[c].op \in Driving
    BY <2>1, SidAssumption DEF Driving, Moving
  <2>3. call'[c].op \in {"quit", "init"} => op \in {"quit", "init"}
    BY <2>1
  <2>4. Alone'
    BY <1>3, <2>1, <2>3, IdleIs DEF Alone
  <2>5. OneDriver'
    BY <2>1, <2>2 DEF OneDriver
  <2>6. FirstOK'
    BY <2>1 DEF FirstOK, CountTypes
  <2> QED BY <2>4, <2>5, <2>6
<1> QED BY <1>1, <1>2, <1>3, Steps

\* The end of the mount thread.
LEMMA ExitNext == ASSUME CallTypes, DataTypes, ExitOK, CancelOK, Next
                  PROVE (ExitOK /\ CancelOK)'
<1>1. ASSUME ThreadStarts PROVE (ExitOK /\ CancelOK)'
  BY <1>1 DEF ThreadStarts, ThreadGoes, ExitOK, CancelOK, line
<1>2. ASSUME ThreadLoops PROVE (ExitOK /\ CancelOK)'
  BY <1>2 DEF ThreadLoops, ThreadGoes, ExitOK, CancelOK
<1>3. ASSUME ThreadLocks PROVE (ExitOK /\ CancelOK)'
  BY <1>3 DEF ThreadLocks, ThreadGoes, ExitOK, CancelOK
<1>4. ASSUME ThreadAnswered PROVE (ExitOK /\ CancelOK)'
  BY <1>4 DEF ThreadAnswered, ExitOK, CancelOK
<1>5. ASSUME ThreadJudges PROVE (ExitOK /\ CancelOK)'
  BY <1>5 DEF ThreadJudges, ExitOK, CancelOK, line
<1>6. ASSUME ThreadDies PROVE (ExitOK /\ CancelOK)'
  BY <1>6 DEF ThreadDies, ThreadGoes, ExitOK, CancelOK, line
<1>7. ASSUME NEW a \in Axes, Moves(a) PROVE (ExitOK /\ CancelOK)'
  BY <1>7 DEF Moves, ExitOK, CancelOK, thread, line
<1>8. ASSUME NEW c \in Callers, CorrectReads(c) PROVE (ExitOK /\ CancelOK)'
  BY <1>8, IdleIs, CorrectReadsForm DEF CorrectReads, ExitOK, CancelOK, Others, thread, line
<1>9. ASSUME NEW c \in Callers, CorrectSets(c) PROVE (ExitOK /\ CancelOK)'
  BY <1>9, IdleIs, CorrectSetsForm DEF CorrectSets, ExitOK, CancelOK, Others, thread, line
<1>10. ASSUME NEW c \in Callers, Update(c) PROVE (ExitOK /\ CancelOK)'
  BY <1>10, IdleIs, UpdateForm DEF Update, ExitOK, CancelOK, Others, thread, line
<1>11. ASSUME NEW c \in Callers, Sync(c) PROVE (ExitOK /\ CancelOK)'
  BY <1>11, IdleIs, SyncForm DEF Sync, ExitOK, CancelOK, Others, thread, line
<1>12. ASSUME NEW c \in Callers, SyncEnds(c) PROVE (ExitOK /\ CancelOK)'
  BY <1>12, IdleIs, SyncEndsForm DEF SyncEnds, ExitOK, CancelOK, Others, thread, line
<1>13. ASSUME NEW c \in Callers, Send(c) PROVE (ExitOK /\ CancelOK)'
  BY <1>13, IdleIs, SendForm DEF Send, ExitOK, CancelOK, Others, thread, line
<1>14. ASSUME NEW c \in Callers, Target(c) PROVE (ExitOK /\ CancelOK)'
  BY <1>14, IdleIs, Went, "slew?" \in Pcs
     DEF Target, ExitOK, CancelOK, Others, thread, line, Pcs
<1>15. ASSUME NEW c \in Callers, SlewReads(c) PROVE (ExitOK /\ CancelOK)'
  BY <1>15, IdleIs, SlewReadsForm DEF SlewReads, ExitOK, CancelOK, Others, thread, line
<1>16. ASSUME NEW c \in Callers, SlewSets(c) PROVE (ExitOK /\ CancelOK)'
  BY <1>16, IdleIs, Returned DEF SlewSets, ExitOK, CancelOK, Others, thread, line
<1>17. ASSUME NEW c \in Callers, SetStop(c) PROVE (ExitOK /\ CancelOK)'
  BY <1>17, IdleIs, SetStopForm DEF SetStop, ExitOK, CancelOK, Others, thread, line
<1>18. ASSUME NEW c \in Callers, Stop(c) PROVE (ExitOK /\ CancelOK)'
  BY <1>18, IdleIs, StopForm DEF Stop, ExitOK, CancelOK, Others, thread, line
<1>19. ASSUME NEW c \in Callers, StopEnds(c) PROVE (ExitOK /\ CancelOK)'
  BY <1>19, IdleIs, StopEndsForm DEF StopEnds, ExitOK, CancelOK, Others, thread, line
<1>20. ASSUME NEW c \in Callers, Close(c) PROVE (ExitOK /\ CancelOK)'
  BY <1>20, IdleIs, Went, "cancel" \in Pcs
     DEF Close, ExitOK, CancelOK, Others, thread, line, Pcs
<1>21. ASSUME NEW c \in Callers, Cancel(c) PROVE (ExitOK /\ CancelOK)'
  BY <1>21, IdleIs, CancelForm DEF Cancel, ExitOK, CancelOK, Others, thread, line
<1>22. ASSUME NEW c \in Callers, Join(c) PROVE (ExitOK /\ CancelOK)'
  BY <1>22, IdleIs, Returned DEF Join, ExitOK, CancelOK, Others, thread, line
<1>23. ASSUME NEW c \in Callers, Ask(c) PROVE (ExitOK /\ CancelOK)'
  BY <1>23, IdleIs, AskForm DEF Ask, ExitOK, CancelOK, Others, thread, line
<1>24. ASSUME NEW c \in Callers, Ready(c) PROVE (ExitOK /\ CancelOK)'
  BY <1>24, IdleIs, Returned DEF Ready, ExitOK, CancelOK, Others, thread, line
<1>25. ASSUME NEW c \in Callers, Calls(c) PROVE (ExitOK /\ CancelOK)'
  BY <1>25, IdleIs, BeginForm DEF Calls, ExitOK, CancelOK, Others, thread, line
<1>26. ASSUME NEW c \in Callers, Quits(c) PROVE (ExitOK /\ CancelOK)'
  BY <1>26, IdleIs, BeginForm DEF Quits, ExitOK, CancelOK, Others, thread, line
<1>27. ASSUME NEW c \in Callers, Inits(c) PROVE (ExitOK /\ CancelOK)'
  BY <1>27, IdleIs, BeginForm DEF Inits, ExitOK, CancelOK, Others, thread, line
<1> QED BY <1>1, <1>2, <1>3, <1>4, <1>5, <1>6, <1>7, <1>8, <1>9, <1>10, <1>11, <1>12, <1>13,
        <1>14, <1>15, <1>16, <1>17, <1>18, <1>19, <1>20, <1>21, <1>22, <1>23, <1>24, <1>25,
        <1>26, <1>27 DEF Next, MountThread, CallStep

\* What the thread has judged.
LEMMA PrevNext == ASSUME ThreadTypes, PrevOK, Next PROVE PrevOK'
<1>1. ASSUME ThreadStarts PROVE PrevOK'
  BY <1>1 DEF ThreadStarts, ThreadGoes, PrevOK
<1>2. ASSUME ThreadLoops PROVE PrevOK'
  BY <1>2 DEF ThreadLoops, ThreadGoes, PrevOK, data
<1>3. ASSUME ThreadLocks PROVE PrevOK'
  BY <1>3 DEF ThreadLocks, ThreadGoes, PrevOK, data
<1>4. ASSUME ThreadAnswered PROVE PrevOK'
  BY <1>4 DEF ThreadAnswered, PrevOK
<1>5. ASSUME ThreadJudges PROVE PrevOK'
  BY <1>5, Constants DEF ThreadJudges, PrevOK, ThreadTypes
<1>6. ASSUME ThreadDies PROVE PrevOK'
  BY <1>6 DEF ThreadDies, ThreadGoes, PrevOK, data
<1>7. ASSUME NEW a \in Axes, Moves(a) PROVE PrevOK'
  BY <1>7 DEF Moves, PrevOK, thread, data
<1>8. ASSUME NEW c \in Callers, CorrectReads(c) PROVE PrevOK'
  BY <1>8 DEF CorrectReads, PrevOK, thread, data
<1>9. ASSUME NEW c \in Callers, CorrectSets(c) PROVE PrevOK'
  BY <1>9 DEF CorrectSets, PrevOK, thread
<1>10. ASSUME NEW c \in Callers, Update(c) PROVE PrevOK'
  BY <1>10 DEF Update, PrevOK, thread, data
<1>11. ASSUME NEW c \in Callers, Sync(c) PROVE PrevOK'
  BY <1>11 DEF Sync, PrevOK, thread, data
<1>12. ASSUME NEW c \in Callers, SyncEnds(c) PROVE PrevOK'
  BY <1>12 DEF SyncEnds, PrevOK, thread, data
<1>13. ASSUME NEW c \in Callers, Send(c) PROVE PrevOK'
  BY <1>13 DEF Send, PrevOK, thread, data
<1>14. ASSUME NEW c \in Callers, Target(c) PROVE PrevOK'
  BY <1>14 DEF Target, PrevOK, thread
<1>15. ASSUME NEW c \in Callers, SlewReads(c) PROVE PrevOK'
  BY <1>15 DEF SlewReads, PrevOK, thread, data
<1>16. ASSUME NEW c \in Callers, SlewSets(c) PROVE PrevOK'
  BY <1>16 DEF SlewSets, PrevOK, thread
<1>17. ASSUME NEW c \in Callers, SetStop(c) PROVE PrevOK'
  BY <1>17 DEF SetStop, PrevOK, thread
<1>18. ASSUME NEW c \in Callers, Stop(c) PROVE PrevOK'
  BY <1>18 DEF Stop, PrevOK, thread, data
<1>19. ASSUME NEW c \in Callers, StopEnds(c) PROVE PrevOK'
  BY <1>19 DEF StopEnds, PrevOK, thread, data
<1>20. ASSUME NEW c \in Callers, Close(c) PROVE PrevOK'
  BY <1>20 DEF Close, PrevOK, thread, data
<1>21. ASSUME NEW c \in Callers, Cancel(c) PROVE PrevOK'
  BY <1>21 DEF Cancel, PrevOK, data
<1>22. ASSUME NEW c \in Callers, Join(c) PROVE PrevOK'
  BY <1>22 DEF Join, PrevOK, data
<1>23. ASSUME NEW c \in Callers, Ask(c) PROVE PrevOK'
  BY <1>23 DEF Ask, PrevOK, thread, data
<1>24. ASSUME NEW c \in Callers, Ready(c) PROVE PrevOK'
  BY <1>24 DEF Ready, PrevOK, thread, data
<1>25. ASSUME NEW c \in Callers, Calls(c) PROVE PrevOK'
  BY <1>25 DEF Calls, PrevOK, thread, data
<1>26. ASSUME NEW c \in Callers, Quits(c) PROVE PrevOK'
  BY <1>26 DEF Quits, PrevOK, thread, data
<1>27. ASSUME NEW c \in Callers, Inits(c) PROVE PrevOK'
  BY <1>27 DEF Inits, PrevOK, data
<1> QED BY <1>1, <1>2, <1>3, <1>4, <1>5, <1>6, <1>7, <1>8, <1>9, <1>10, <1>11, <1>12, <1>13,
        <1>14, <1>15, <1>16, <1>17, <1>18, <1>19, <1>20, <1>21, <1>22, <1>23, <1>24, <1>25,
        <1>26, <1>27 DEF Next, MountThread, CallStep

-----------------------------------------------------------------------------
(* Where the mount rests.  The heart of it is AxisOK: while no command is    *)
(* under way an axis rests, or moves to its target and is SLEWING; a call    *)
(* that writes states it has read before knows what they can have become.    *)

R(a) == mot[a] = goal[a] \/ hurried[a]
Away(a) == R(a) \/ (state[a] = "SLEWING" /\ target[a] = goal[a])

Initing == \E c \in Callers : call[c].op = "init"
Fresh == \E a \in Axes : prev[a] = None
Ended == {"close", "cancel", "join", "sync"}
Quiet == ~mntfd \/ mpc = "start" \/ Fresh \/ \E c \in Callers : call[c].pc \in Ended
Busy(c) == call[c].pc \in {"target", "slew?", "slew", "stop"}

\* An init that has not returned has a mount thread, which returns a status to it.
InitOK ==
  /\ mpc = "start" => Initing
  /\ Initing => mntfd /\ mpc # "off"
  /\ Fresh => calls = 0 \/ Initing

\* A stop fails only without the device.
StopOK == \A c \in Callers : call[c].pc \in {"setstop", "stop"} /\ call[c].failed => ~mntfd

SampleOK(a) == mpc = "data" /\ sample[a] = target[a] /\ target[a] = goal[a] => R(a)

CallOK(a, c) ==
  /\ call[c].pc = "target" =>
       call[c].tag[a] = goal[a] /\ (hurried[a] \/ (state[a] # "GONNASTOP" /\ mpc # "data"))
  /\ call[c].pc \in {"slew?", "slew"} =>
       hurried[a] \/ (state[a] # "GONNASTOP" /\ target[a] = goal[a])
  /\ call[c].pc = "slew" =>
       hurried[a] \/ (/\ call[c].seen[a] # "GONNASTOP"
                      /\ call[c].seen[a] = "SLEWING" /\ state[a] = "STOPPED" =>
                           mot[a] = goal[a])
  /\ call[c].pc = "corrected" =>
       R(a) \/ (call[c].seen[a] = "SLEWING" /\ target[a] = goal[a])
  /\ call[c].pc = "stop" /\ a \notin call[c].todo => R(a)

AxisOK(a) ==
  /\ Quiet => R(a)
  /\ (\A c \in Callers : ~Busy(c)) => Away(a)
  /\ SampleOK(a)
  /\ \A c \in Callers : CallOK(a, c)

RestInv == Orderly => InitOK /\ StopOK /\ \A a \in Axes : AxisOK(a)

Before(a) == TypeInv /\ CtlInv /\ Orderly /\ InitOK /\ StopOK /\ AxisOK(a)

\* While a call moves, stops, closes or opens the mount, the others ask at most.
Driver(c) == call[c].op \notin {"none", "ask"}
Aside(c) == call[c].pc \in {"idle", "ask"} /\ call[c].op \in {"none", "ask"}

LEMMA Peers ==
  ASSUME TypeInv, CtlInv, ~overlap, NEW c \in Callers, Driver(c), NEW d \in Callers, d # c
  PROVE  Aside(d)
<1>1. /\ call[c].op \in Ops \cup {"none", "move"} /\ call[d].op \in Ops \cup {"none", "move"}
      /\ call[d].pc \in Pcs
  BY DEF TypeInv, Types, CallTypes, CallRecords
<1>2. call[c].op \in Driving \cup {"init"}
  BY <1>1, SidAssumption DEF Driver, Driving, Moving
<1>3. call[d].op \notin {"quit", "init"}
  BY DEF CtlInv, Alone, Driver
<1>4. call[c].op = "init" => call[d].op = "none"
  BY DEF CtlInv, Alone
<1>5. call[d].op \notin Driving
  BY <1>2, <1>4 DEF CtlInv, OneDriver, Driving, Moving
<1>6. call[d].op \in {"none", "ask"}
  BY <1>1, <1>3, <1>5, SidAssumption DEF Driving, Moving
<1>7. Shape(call[d])
  BY DEF CtlInv, OpsOK
<1> QED BY <1>1, <1>6, <1>7 DEF Aside, Shape, Pcs

\* What is known of an axis for the caller that drives the mount.
LEMMA DriverKnows ==
  ASSUME NEW a \in Axes, NEW c \in Callers, Before(a), Driver(c)
  PROVE  /\ ~Busy(c) => Away(a)
         /\ call[c].pc \in Ended => R(a)
         /\ ~mntfd \/ mpc = "start" \/ Fresh => R(a)
         /\ CallOK(a, c) /\ SampleOK(a)
<1>1. ~overlap
  BY DEF Before, Orderly
<1>2. ASSUME NEW d \in Callers, d # c PROVE ~Busy(d)
  BY <1>1, <1>2, Peers DEF Before, Aside, Busy
<1> QED BY <1>2 DEF Before, AxisOK, Quiet

\* What is to be shown of it after a step of that caller.
LEMMA DriverStep ==
  ASSUME NEW a \in Axes, NEW c \in Callers, Before(a), Driver(c), Others(c),
         ~mntfd' \/ mpc' = "start" \/ Fresh' \/ call'[c].pc \in Ended => R(a)',
         ~Busy(c)' => Away(a)',
         SampleOK(a)', CallOK(a, c)'
  PROVE  AxisOK(a)'
<1>1. ASSUME NEW d \in Callers, d # c PROVE Aside(d)'
  <2>1. Aside(d)
    BY <1>1, Peers DEF Before, Orderly
  <2> QED BY <1>1, <2>1 DEF Aside, Others
<1>2. ASSUME NEW d \in Callers, d # c PROVE CallOK(a, d)'
  BY <1>1, <1>2 DEF Aside, CallOK
<1>3. Quiet' => R(a)'
  BY <1>1 DEF Quiet, Aside, Ended
<1>4. (\A d \in Callers : ~Busy(d)') => Away(a)'
  OBVIOUS
<1>5. \A d \in Callers : CallOK(a, d)'
  BY <1>2
<1> QED BY <1>3, <1>4, <1>5 DEF AxisOK

\* Most steps of a caller change nothing but its place.
Unmoved == UNCHANGED <<mot, goal, state, target, prev, mpc, sample, mntfd, hurried>>

LEMMA StillStep ==
  ASSUME NEW a \in Axes, NEW c \in Callers, Before(a), Driver(c), Others(c), Unmoved,
         call'[c].pc \in Ended => R(a),
         ~Busy(c)' => Away(a),
         CallOK(a, c)'
  PROVE  AxisOK(a)'
<1>1. (R(a)' <=> R(a)) /\ (Away(a)' <=> Away(a)) /\ (Fresh' <=> Fresh)
  BY DEF Unmoved, R, Away, Fresh
<1>2. SampleOK(a)'
  BY <1>1, DriverKnows DEF Unmoved, SampleOK
<1>3. ~mntfd' \/ mpc' = "start" \/ Fresh' => R(a)'
  BY <1>1, DriverKnows DEF Unmoved
<1> QED BY <1>1, <1>2, <1>3, DriverStep

\* An exchange that cannot have failed.
LEMMA Answered ==
  ASSUME CountTypes, Orderly', NEW reached \in BOOLEAN, NEW ok \in BOOLEAN, Exchange(reached, ok)
  PROVE  (mntfd => reached /\ ok) /\ (~mntfd => ~reached /\ ~ok)
BY DEF CountTypes, Orderly, Exchange

\* The places tell the calls.
LEMMA Drives ==
  ASSUME NEW a \in Axes, NEW c \in Callers, Before(a), call[c].pc \notin {"idle", "ask"}
  PROVE  Driver(c)
<1>1. Shape(call[c]) /\ call[c].pc \in Pcs
  BY DEF Before, CtlInv, OpsOK, TypeInv, Types, CallTypes, CallRecords
<1> QED BY <1>1 DEF Shape, Driver, Pcs

\* correct2 reads the states while no command is under way.
LEMMA CorrectReadsRest ==
  ASSUME NEW a \in Axes, NEW c \in Callers, Before(a), Orderly', CorrectReads(c)
  PROVE  AxisOK(a)'
<1>1. Driver(c)
  BY Drives DEF CorrectReads
<1>2. CallTypes /\ DataTypes /\ CountTypes
  BY DEF Before, TypeInv, Types
<1>3. Before(a) /\ (~Busy(c) => Away(a)) /\ (call[c].pc \in Ended => R(a)) /\ CallOK(a, c)
  BY <1>1, DriverKnows
<1>4. Unmoved
  BY DEF CorrectReads, Unmoved, device, data, thread, line, history
<1>5. Others(c)
  BY <1>2, CorrectReadsForm DEF CorrectReads
<1>6. call'[c].pc \notin Ended
  BY <1>2, CorrectReadsForm DEF Ended
<1>7. Away(a)
  BY <1>3 DEF CorrectReads, Busy
<1>8. CallOK(a, c)'
  <2>1. call'[c].pc = "corrected" /\ call'[c].seen = state
    BY <1>2, CorrectReadsForm
  <2> QED BY <1>4, <1>7, <2>1 DEF CallOK, Away, R, Unmoved
<1> QED BY <1>1, <1>4, <1>5, <1>6, <1>7, <1>8, StillStep

\* The motors are set only if both axes are STOPPED.
LEMMA UpdateRest ==
  ASSUME NEW a \in Axes, NEW c \in Callers, Before(a), Orderly', Update(c)
  PROVE  AxisOK(a)'
<1>1. Driver(c)
  BY Drives DEF Update
<1>2. CallTypes /\ DataTypes /\ CountTypes
  BY DEF Before, TypeInv, Types
<1>3. Before(a) /\ (~Busy(c) => Away(a)) /\ (call[c].pc \in Ended => R(a)) /\ CallOK(a, c)
  BY <1>1, DriverKnows
<1>4. Unmoved
  BY DEF Update, Unmoved, device, data, thread, line, history
<1>5. Others(c)
  BY <1>2, UpdateForm DEF Update
<1>6. call'[c].pc \in Ended => R(a)
  <2>1. Away(a)
    BY <1>3 DEF Update, Busy
  <2>2. call'[c].pc \in Ended => Resting
    BY <1>2, UpdateForm, IdleIs DEF Ended
  <2> QED BY <2>1, <2>2 DEF Resting, Away
<1>7. Away(a)
  BY <1>3 DEF Update, Busy
<1>8. CallOK(a, c)'
  <2>1. call'[c].pc \in {"sync", "ready", "send", "idle"}
    BY <1>2, UpdateForm, IdleIs
  <2> QED BY <2>1 DEF CallOK
<1> QED BY <1>1, <1>4, <1>5, <1>6, <1>7, <1>8, StillStep

\* The axes have been at rest while they were set.
LEMMA SyncEndsRest ==
  ASSUME NEW a \in Axes, NEW c \in Callers, Before(a), Orderly', SyncEnds(c)
  PROVE  AxisOK(a)'
<1>1. Driver(c)
  BY Drives DEF SyncEnds
<1>2. CallTypes /\ DataTypes /\ CountTypes
  BY DEF Before, TypeInv, Types
<1>3. Before(a) /\ (~Busy(c) => Away(a)) /\ (call[c].pc \in Ended => R(a)) /\ CallOK(a, c)
  BY <1>1, DriverKnows
<1>4. Unmoved
  BY DEF SyncEnds, Unmoved, device, data, thread, line, history
<1>5. Others(c)
  BY <1>2, SyncEndsForm DEF SyncEnds
<1>6. R(a)
  BY <1>3 DEF SyncEnds, Ended
<1>7. Away(a)
  BY <1>6 DEF Away
<1>8. CallOK(a, c)'
  <2>1. call'[c].pc \in {"update", "ready", "send", "idle"}
    BY <1>2, SyncEndsForm, IdleIs
  <2> QED BY <2>1 DEF CallOK
<1> QED BY <1>1, <1>4, <1>5, <1>6, <1>7, <1>8, StillStep

\* setslewingstate reads the states of a move that has been noted.
LEMMA SlewReadsRest ==
  ASSUME NEW a \in Axes, NEW c \in Callers, Before(a), Orderly', SlewReads(c)
  PROVE  AxisOK(a)'
<1>1. Driver(c)
  BY Drives DEF SlewReads
<1>2. CallTypes /\ DataTypes /\ CountTypes
  BY DEF Before, TypeInv, Types
<1>3. Before(a) /\ (~Busy(c) => Away(a)) /\ (call[c].pc \in Ended => R(a)) /\ CallOK(a, c)
  BY <1>1, DriverKnows
<1>4. Unmoved
  BY DEF SlewReads, Unmoved, device, data, thread, line, history
<1>5. Others(c)
  BY <1>2, SlewReadsForm DEF SlewReads
<1>6. call'[c].pc = "slew" /\ call'[c].seen = state /\ call'[c].pc \notin Ended
  BY <1>2, SlewReadsForm DEF Ended
<1>7. Busy(c)'
  BY <1>6 DEF Busy
<1>8. CallOK(a, c)'
  BY <1>3, <1>4, <1>6 DEF SlewReads, CallOK, Unmoved
<1> QED BY <1>1, <1>4, <1>5, <1>6, <1>7, <1>8, StillStep

\* All axes have been told to stop, or there is no device.
LEMMA StopEndsRest ==
  ASSUME NEW a \in Axes, NEW c \in Callers, Before(a), Orderly', StopEnds(c)
  PROVE  AxisOK(a)'
<1>1. Driver(c)
  BY Drives DEF StopEnds
<1>2. CallTypes /\ DataTypes /\ CountTypes
  BY DEF Before, TypeInv, Types
<1>3. Before(a) /\ (~Busy(c) => Away(a)) /\ (call[c].pc \in Ended => R(a)) /\ CallOK(a, c)
  BY <1>1, DriverKnows
<1>4. Unmoved
  BY DEF StopEnds, Unmoved, device, data, thread, line, history
<1>5. Others(c)
  BY <1>2, StopEndsForm DEF StopEnds
<1>6. R(a)
  <2>1. CASE call[c].todo = {}
    BY <1>3, <2>1 DEF StopEnds, CallOK
  <2>2. CASE call[c].failed
    <3>1. ~mntfd
      BY <2>2 DEF Before, StopOK, StopEnds
    <3> QED BY <1>1, <3>1, DriverKnows
  <2> QED BY <2>1, <2>2 DEF StopEnds
<1>7. Away(a)
  BY <1>6 DEF Away
<1>8. CallOK(a, c)'
  <2>1. call'[c].pc \in {"idle", "close", "setstop"}
    BY <1>2, StopEndsForm, IdleIs
  <2> QED BY <2>1 DEF CallOK
<1> QED BY <1>1, <1>4, <1>5, <1>6, <1>7, <1>8, StillStep

\* GlobExit is set when the axes have been stopped.
LEMMA CloseRest ==
  ASSUME NEW a \in Axes, NEW c \in Callers, Before(a), Orderly', Close(c)
  PROVE  AxisOK(a)'
<1>1. Driver(c)
  BY Drives DEF Close
<1>2. CallTypes /\ DataTypes /\ CountTypes
  BY DEF Before, TypeInv, Types
<1>3. Before(a) /\ (~Busy(c) => Away(a)) /\ (call[c].pc \in Ended => R(a)) /\ CallOK(a, c)
  BY <1>1, DriverKnows
<1>4. Unmoved
  BY DEF Close, Unmoved, device, data, thread, line, history
<1>5. Others(c)
  BY <1>2, Went, "cancel" \in Pcs DEF Close, Pcs, Moved
<1>6. R(a)
  BY <1>3 DEF Close, Ended
<1>7. Away(a)
  BY <1>6 DEF Away
<1>8. CallOK(a, c)'
  <2>1. call'[c].pc = "cancel"
    BY <1>2, Went, "cancel" \in Pcs DEF Close, Pcs
  <2> QED BY <2>1 DEF CallOK
<1> QED BY <1>1, <1>4, <1>5, <1>6, <1>7, <1>8, StillStep

\* The thread is told to end.
LEMMA CancelRest ==
  ASSUME NEW a \in Axes, NEW c \in Callers, Before(a), Orderly', Cancel(c)
  PROVE  AxisOK(a)'
<1>1. Driver(c)
  BY Drives DEF Cancel
<1>2. CallTypes /\ DataTypes /\ CountTypes
  BY DEF Before, TypeInv, Types
<1>3. Before(a) /\ (~Busy(c) => Away(a)) /\ (call[c].pc \in Ended => R(a)) /\ CallOK(a, c)
  BY <1>1, DriverKnows
<1>4. Unmoved
  BY DEF Cancel, Unmoved, device, data, thread, line, history
<1>5. Others(c)
  BY <1>2, CancelForm DEF Cancel
<1>6. R(a)
  BY <1>3 DEF Cancel, Ended
<1>7. Away(a)
  BY <1>6 DEF Away
<1>8. CallOK(a, c)'
  <2>1. call'[c].pc \in {"join", "idle"}
    BY <1>2, CancelForm, IdleIs
  <2> QED BY <2>1 DEF CallOK
<1> QED BY <1>1, <1>4, <1>5, <1>6, <1>7, <1>8, StillStep

\* init returns when the thread has judged a status.
LEMMA ReadyRest ==
  ASSUME NEW a \in Axes, NEW c \in Callers, Before(a), Orderly', Ready(c)
  PROVE  AxisOK(a)'
<1>1. Driver(c)
  BY Drives DEF Ready
<1>2. CallTypes /\ DataTypes /\ CountTypes
  BY DEF Before, TypeInv, Types
<1>3. Before(a) /\ (~Busy(c) => Away(a)) /\ (call[c].pc \in Ended => R(a)) /\ CallOK(a, c)
  BY <1>1, DriverKnows
<1>4. Unmoved
  BY DEF Ready, Unmoved, device, data, thread, line, history
<1>5. Others(c)
  BY <1>2, Returned DEF Ready
<1>6. call'[c].pc = "idle" /\ call'[c].pc \notin Ended
  BY <1>2, Returned, IdleIs DEF Ready, Ended
<1>7. Away(a)
  BY <1>3 DEF Ready, Busy
<1>8. CallOK(a, c)'
  BY <1>6 DEF CallOK
<1> QED BY <1>1, <1>4, <1>5, <1>6, <1>7, <1>8, StillStep

\* correct2 writes the states it has read, but those of axes that rest.
LEMMA CorrectSetsRest ==
  ASSUME NEW a \in Axes, NEW c \in Callers, Before(a), Orderly', CorrectSets(c)
  PROVE  AxisOK(a)'
<1>1. Driver(c)
  BY Drives DEF CorrectSets
<1>2. CallTypes /\ DataTypes /\ CountTypes
  BY DEF Before, TypeInv, Types
<1>3. Before(a) /\ (~Busy(c) => Away(a)) /\ (call[c].pc \in Ended => R(a)) /\ CallOK(a, c)
  BY <1>1, DriverKnows
<1>4. Others(c) /\ call'[c].pc = "update"
  BY <1>2, CorrectSetsForm
<1>5. UNCHANGED <<mot, goal, target, prev, mpc, sample, mntfd, hurried>>
  BY DEF CorrectSets, device, thread, line, history
<1>6. (R(a)' <=> R(a)) /\ (Fresh' <=> Fresh)
  BY <1>5 DEF R, Fresh
<1>7. Away(a)'
  <2>1. PICK s \in [Axes -> States] :
          /\ \A x \in Axes : s[x] \in Woken(call[c].seen[x])
          /\ IF s = call[c].seen THEN UNCHANGED state ELSE SetStat(s)
    BY DEF CorrectSets
  <2>2. CASE s = call[c].seen
    BY <1>3, <1>5, <2>1, <2>2 DEF CorrectSets, Busy, Away, R
  <2>3. CASE state' = s
    <3>1. R(a) \/ (call[c].seen[a] = "SLEWING" /\ target[a] = goal[a])
      BY <1>3 DEF CorrectSets, CallOK
    <3>2. call[c].seen[a] = "SLEWING" => s[a] = "SLEWING"
      BY <2>1 DEF Woken
    <3> QED BY <1>5, <1>6, <2>3, <3>1, <3>2 DEF Away
  <2> QED BY <2>1, <2>2, <2>3 DEF SetStat
<1>8. SampleOK(a)' /\ CallOK(a, c)'
  BY <1>1, <1>4, <1>5, <1>6, DriverKnows DEF SampleOK, CallOK
<1>9. ~mntfd' \/ mpc' = "start" \/ Fresh' \/ call'[c].pc \in Ended => R(a)'
  BY <1>1, <1>4, <1>5, <1>6, DriverKnows DEF Ended
<1> QED BY <1>1, <1>4, <1>7, <1>8, <1>9, DriverStep

\* An axis that is set rests where it is set.
LEMMA SyncRest ==
  ASSUME NEW a \in Axes, NEW c \in Callers, Before(a), Orderly', Sync(c)
  PROVE  AxisOK(a)'
<1>1. Driver(c)
  BY Drives DEF Sync
<1>2. CallTypes /\ DataTypes /\ CountTypes
  BY DEF Before, TypeInv, Types
<1>3. Before(a) /\ (~Busy(c) => Away(a)) /\ (call[c].pc \in Ended => R(a)) /\ CallOK(a, c)
  BY <1>1, DriverKnows
<1>4. Others(c) /\ call'[c].pc = "sync"
  BY <1>2, SyncForm
<1>5. R(a)'
  <2>1. R(a)
    BY <1>3 DEF Sync, Ended
  <2>2. PICK v \in Positions :
          \/ mot' = mot /\ goal' = goal
          \/ /\ mot' = [mot EXCEPT ![First(call[c].todo)] = v]
             /\ goal' = [goal EXCEPT ![First(call[c].todo)] = v]
    BY DEF Sync
  <2>3. DeviceTypes /\ hurried' = hurried
    BY DEF Before, TypeInv, Types, Sync, history
  <2> QED BY <2>1, <2>2, <2>3 DEF R, DeviceTypes
<1>6. Away(a)' /\ SampleOK(a)'
  BY <1>5 DEF Away, SampleOK
<1>7. CallOK(a, c)'
  BY <1>4 DEF CallOK
<1> QED BY <1>1, <1>4, <1>5, <1>6, <1>7, DriverStep

\* A move is written with its target, and meets nothing it is not noted to have met.
LEMMA SendRest ==
  ASSUME NEW a \in Axes, NEW c \in Callers, Before(a), Orderly', Send(c)
  PROVE  AxisOK(a)'
<1>1. Driver(c)
  BY Drives DEF Send
<1>2. CallTypes /\ DataTypes /\ CountTypes
  BY DEF Before, TypeInv, Types
<1>3. Before(a) /\ (~Busy(c) => Away(a)) /\ (call[c].pc \in Ended => R(a)) /\ CallOK(a, c)
  BY <1>1, DriverKnows
<1>4. ~Busy(c) /\ call[c].op \in {"move"} /\ Away(a)
  BY <1>3 DEF Send, Busy, Before, CtlInv, OpsOK, Shape
<1>5. ~Initing
  <2>1. \A d \in Callers : d # c => Aside(d)
    BY <1>1, Peers DEF Before, Orderly
  <2> QED BY <1>4, <2>1 DEF Initing, Aside
<1>6. mpc # "start" /\ ~Fresh
  <2>1. calls # 0
    BY <1>4 DEF Before, CtlInv, FirstOK
  <2> QED BY <1>5, <2>1 DEF Before, InitOK
<1>7. PICK reached \in BOOLEAN, ok \in BOOLEAN :
        /\ Exchange(reached, ok)
        /\ IF ok THEN Goes(c, "target") ELSE Returns(c)
        /\ IF reached
             THEN /\ goal' = call[c].tag
                  /\ hurried' = [x \in Axes |-> state[x] = "GONNASTOP" \/ mpc = "data"]
             ELSE UNCHANGED <<goal, hurried>>
  BY DEF Send
<1>8. (mntfd => reached /\ ok) /\ (~mntfd => ~reached /\ ~ok)
  BY <1>2, <1>7, Answered
<1>9. Others(c)
  BY <1>2, SendForm
<1>10. UNCHANGED <<mot, state, target, prev, nstopped, mpc, sample, mntfd>>
  BY DEF Send, data, thread
<1>11. CASE mntfd
  <2>1. Goes(c, "target") /\ goal' = call[c].tag
    BY <1>7, <1>8, <1>11
  <2>2. hurried'[a] <=> (state[a] = "GONNASTOP" \/ mpc = "data")
    BY <1>7, <1>8, <1>11, Zenon
  <2>3. call'[c].pc = "target" /\ call'[c].tag = call[c].tag
    BY <1>2, <2>1, Went, "target" \in Pcs DEF Pcs, Moved, SameCall
  <2>4. ~(~mntfd' \/ mpc' = "start" \/ Fresh' \/ call'[c].pc \in Ended)
    BY <1>6, <1>10, <1>11, <2>3 DEF Fresh, Ended
  <2>5. Busy(c)'
    BY <2>3 DEF Busy
  <2>6. SampleOK(a)'
    BY <1>10, <2>2 DEF SampleOK, R
  <2>7. CallOK(a, c)'
    BY <1>10, <2>1, <2>2, <2>3 DEF CallOK
  <2> QED BY <1>1, <1>9, <2>4, <2>5, <2>6, <2>7, DriverStep
<1>12. CASE ~mntfd
  <2>1. Returns(c) /\ UNCHANGED <<goal, hurried>>
    BY <1>7, <1>8, <1>12
  <2>2. Unmoved
    BY <1>10, <2>1 DEF Unmoved
  <2>3. call'[c].pc = "idle" /\ call'[c].pc \notin Ended
    BY <1>2, <2>1, Returned, IdleIs DEF Ended
  <2>4. CallOK(a, c)'
    BY <2>3 DEF CallOK
  <2> QED BY <1>1, <1>4, <1>9, <2>2, <2>3, <2>4, StillStep
<1> QED BY <1>11, <1>12

\* The target of the move is noted.
LEMMA TargetRest ==
  ASSUME NEW a \in Axes, NEW c \in Callers, Before(a), Orderly', Target(c)
  PROVE  AxisOK(a)'
<1>1. Driver(c)
  BY Drives DEF Target
<1>2. CallTypes /\ DataTypes /\ CountTypes
  BY DEF Before, TypeInv, Types
<1>3. Before(a) /\ (~Busy(c) => Away(a)) /\ (call[c].pc \in Ended => R(a)) /\ CallOK(a, c)
  BY <1>1, DriverKnows
<1>4. /\ Others(c) /\ call'[c].pc = "slew?" /\ Busy(c)'
      /\ call'[c].pc \notin Ended
  BY <1>2, Went, "slew?" \in Pcs DEF Target, Pcs, Busy, Ended
<1>5. UNCHANGED <<mot, goal, state, prev, mpc, sample, mntfd, hurried>>
  BY DEF Target, device, thread, history
<1>6. target'[a] = goal[a] /\ (hurried[a] \/ (state[a] # "GONNASTOP" /\ mpc # "data"))
  BY <1>3 DEF Target, CallOK
<1>7. (R(a)' <=> R(a)) /\ (Fresh' <=> Fresh)
  BY <1>5 DEF R, Fresh
<1>8. SampleOK(a)' /\ CallOK(a, c)'
  BY <1>4, <1>5, <1>6 DEF SampleOK, CallOK, R
<1>9. ~mntfd' \/ mpc' = "start" \/ Fresh' => R(a)'
  BY <1>1, <1>5, <1>7, DriverKnows
<1> QED BY <1>1, <1>4, <1>8, <1>9, DriverStep

\* setslewingstate makes SLEWING what it saw STOPPED, and else leaves the states alone.
LEMMA SlewSetsRest ==
  ASSUME NEW a \in Axes, NEW c \in Callers, Before(a), Orderly', SlewSets(c)
  PROVE  AxisOK(a)'
<1>1. Driver(c)
  BY Drives DEF SlewSets
<1>2. CallTypes /\ DataTypes /\ CountTypes
  BY DEF Before, TypeInv, Types
<1>3. Before(a) /\ (~Busy(c) => Away(a)) /\ (call[c].pc \in Ended => R(a)) /\ CallOK(a, c)
  BY <1>1, DriverKnows
<1>4. Others(c) /\ call'[c].pc = "idle" /\ call'[c].pc \notin Ended
  BY <1>2, Returned, IdleIs DEF SlewSets, Ended
<1>5. UNCHANGED <<mot, goal, target, prev, mpc, sample, mntfd, hurried>>
  BY DEF SlewSets, device, thread, line, history
<1>6. (R(a)' <=> R(a)) /\ (Fresh' <=> Fresh)
  BY <1>5 DEF R, Fresh
<1> DEFINE s == [x \in Axes |-> Slewing(call[c].seen[x])]
<1>7. IF s = call[c].seen THEN UNCHANGED state ELSE state' = s
  BY DEF SlewSets, SetStat
<1>8. hurried[a] \/ (/\ state[a] # "GONNASTOP" /\ target[a] = goal[a]
                     /\ call[c].seen[a] # "GONNASTOP"
                     /\ call[c].seen[a] = "SLEWING" /\ state[a] = "STOPPED" => mot[a] = goal[a])
  BY <1>3 DEF SlewSets, CallOK
<1>9. call[c].seen[a] \in States /\ state[a] \in States
  BY <1>2 DEF CallTypes, CallRecords, DataTypes
<1>10. call[c].seen[a] # "GONNASTOP" => s[a] = "SLEWING"
  BY <1>9 DEF Slewing, States
<1>11. Away(a)'
  <2>1. CASE hurried[a]
    BY <1>6, <2>1 DEF Away, R
  <2>2. CASE ~hurried[a] /\ state' = s
    BY <1>5, <1>8, <1>10, <2>2 DEF Away
  <2>3. CASE ~hurried[a] /\ s = call[c].seen /\ state' = state
    <3>1. call[c].seen[a] = "SLEWING"
      BY <1>8, <1>10, <2>3
    <3> QED BY <1>5, <1>8, <1>9, <2>3, <3>1 DEF Away, R, States
  <2> HIDE DEF s
  <2> QED BY <1>7, <2>1, <2>2, <2>3
<1>12. SampleOK(a)' /\ CallOK(a, c)'
  BY <1>1, <1>4, <1>5, <1>6, DriverKnows DEF SampleOK, CallOK
<1>13. ~mntfd' \/ mpc' = "start" \/ Fresh' => R(a)'
  BY <1>1, <1>5, <1>6, DriverKnows
<1> QED BY <1>1, <1>4, <1>11, <1>12, <1>13, DriverStep

\* A stop begins with the states.
LEMMA SetStopRest ==
  ASSUME NEW a \in Axes, NEW c \in Callers, Before(a), Orderly', SetStop(c)
  PROVE  AxisOK(a)'
<1>1. Driver(c)
  BY Drives DEF SetStop
<1>2. CallTypes /\ DataTypes /\ CountTypes
  BY DEF Before, TypeInv, Types
<1>3. Before(a) /\ (~Busy(c) => Away(a)) /\ (call[c].pc \in Ended => R(a)) /\ CallOK(a, c)
  BY <1>1, DriverKnows
<1>4. /\ Others(c) /\ call'[c].pc = "stop" /\ call'[c].todo = Axes /\ Busy(c)'
      /\ call'[c].pc \notin Ended
  BY <1>2, SetStopForm DEF Busy, Ended
<1>5. UNCHANGED <<mot, goal, target, prev, mpc, sample, mntfd, hurried>>
  BY DEF SetStop, device, thread, line, history
<1>6. (R(a)' <=> R(a)) /\ (Fresh' <=> Fresh)
  BY <1>5 DEF R, Fresh
<1>7. SampleOK(a)' /\ CallOK(a, c)'
  BY <1>1, <1>4, <1>5, <1>6, DriverKnows DEF SampleOK, CallOK
<1>8. ~mntfd' \/ mpc' = "start" \/ Fresh' => R(a)'
  BY <1>1, <1>5, <1>6, DriverKnows
<1> QED BY <1>1, <1>4, <1>7, <1>8, DriverStep

\* An axis that was stopped rests.
LEMMA StopRest ==
  ASSUME NEW a \in Axes, NEW c \in Callers, Before(a), Orderly', Stop(c)
  PROVE  AxisOK(a)'
<1>1. Driver(c)
  BY Drives DEF Stop
<1>2. CallTypes /\ DataTypes /\ CountTypes
  BY DEF Before, TypeInv, Types
<1>3. Before(a) /\ (~Busy(c) => Away(a)) /\ (call[c].pc \in Ended => R(a)) /\ CallOK(a, c)
  BY <1>1, DriverKnows
<1>4. PICK reached \in BOOLEAN, ok \in BOOLEAN :
        /\ Exchange(reached, ok)
        /\ goal' = IF reached THEN [goal EXCEPT ![First(call[c].todo)] =
                                      mot[First(call[c].todo)]] ELSE goal
        /\ call'[c].todo = IF ok THEN call[c].todo \ {First(call[c].todo)} ELSE Axes
  BY <1>2, StopForm
<1>5. (mntfd => reached /\ ok) /\ (~mntfd => ~reached /\ ~ok)
  BY <1>2, <1>4, Answered
<1>6. /\ Others(c) /\ call'[c].pc = "stop" /\ Busy(c)' /\ call'[c].pc \notin Ended
  BY <1>2, StopForm DEF Busy, Ended
<1>7. UNCHANGED <<mot, state, target, prev, mpc, sample, mntfd, hurried>>
  BY DEF Stop, data, thread, line, history
<1>8. goal \in [Axes -> Positions]
  BY DEF Before, TypeInv, Types, DeviceTypes
<1>9. goal'[a] = goal[a] \/ goal'[a] = mot[a]
  BY <1>4, <1>8
<1>10. R(a) => R(a)'
  BY <1>7, <1>9 DEF R
<1>11. SampleOK(a)'
  BY <1>1, <1>7, <1>9, <1>10, DriverKnows DEF SampleOK, R
<1>12. CallOK(a, c)'
  <2>1. CASE ~mntfd
    <3>1. R(a)
      BY <1>1, <2>1, DriverKnows
    <3> QED BY <1>6, <1>10, <3>1 DEF CallOK
  <2>2. CASE mntfd /\ a = First(call[c].todo)
    <3>1. goal'[a] = mot[a]
      BY <1>4, <1>5, <1>8, <2>2
    <3> QED BY <1>6, <1>7, <3>1 DEF CallOK, R
  <2>3. CASE mntfd /\ a # First(call[c].todo)
    <3>1. a \notin call'[c].todo => a \notin call[c].todo
      BY <1>4, <1>5, <2>3
    <3>2. a \notin call[c].todo => R(a)
      BY <1>3 DEF Stop, CallOK
    <3> QED BY <1>6, <1>10, <3>1, <3>2 DEF CallOK
  <2> QED BY <2>1, <2>2, <2>3
<1>13. ~mntfd' \/ mpc' = "start" \/ Fresh' => R(a)'
  BY <1>1, <1>7, <1>10, DriverKnows DEF Fresh
<1> QED BY <1>1, <1>6, <1>11, <1>12, <1>13, DriverStep

\* The device is closed when the axes rest.
LEMMA JoinRest ==
  ASSUME NEW a \in Axes, NEW c \in Callers, Before(a), Orderly', Join(c)
  PROVE  AxisOK(a)'
<1>1. Driver(c)
  BY Drives DEF Join
<1>2. CallTypes /\ DataTypes /\ CountTypes
  BY DEF Before, TypeInv, Types
<1>3. Before(a) /\ (~Busy(c) => Away(a)) /\ (call[c].pc \in Ended => R(a)) /\ CallOK(a, c)
  BY <1>1, DriverKnows
<1>4. Others(c) /\ call'[c].pc = "idle"
  BY <1>2, Returned, IdleIs DEF Join
<1>5. UNCHANGED <<mot, goal, hurried>>
  BY DEF Join, device, history
<1>6. R(a)'
  BY <1>3, <1>5 DEF Join, Ended, R
<1>7. Away(a)' /\ SampleOK(a)' /\ CallOK(a, c)'
  BY <1>4, <1>6 DEF Away, SampleOK, CallOK
<1> QED BY <1>1, <1>4, <1>6, <1>7, DriverStep

\* What a step that stores nothing for the callers has to show.
LEMMA OwnStep ==
  ASSUME NEW a \in Axes, Before(a), UNCHANGED call,
         ~mntfd' \/ mpc' = "start" \/ Fresh' => R(a)',
         R(a) => R(a)',
         Away(a) => Away(a)', SampleOK(a)',
         \A c \in Callers : CallOK(a, c)'
  PROVE  AxisOK(a)'
BY DEF Before, AxisOK, Quiet, Busy

\* A question that is asked beside other calls, or by init.
LEMMA AskRest ==
  ASSUME NEW a \in Axes, NEW c \in Callers, Before(a), Orderly', Ask(c)
  PROVE  AxisOK(a)'
<1>1. Unmoved
  BY DEF Ask, Unmoved, device, data, thread, line, history
<1>2. (R(a)' <=> R(a)) /\ (Away(a)' <=> Away(a)) /\ (Fresh' <=> Fresh)
  BY <1>1 DEF Unmoved, R, Away, Fresh
<1>3. call'[c].pc \in {"ask", "update", "idle"} /\ \A d \in Callers : d # c => call'[d] = call[d]
  BY AskForm, IdleIs DEF Before, TypeInv, Types, Ask, Others
<1>4. call[c].pc = "ask"
  BY DEF Ask
<1>5. \A d \in Callers : (Busy(d)' <=> Busy(d)) /\ (call'[d].pc \in Ended <=> call[d].pc \in Ended)
  BY <1>3, <1>4 DEF Busy, Ended
<1>6. Quiet' <=> Quiet
  BY <1>1, <1>2, <1>5 DEF Quiet, Unmoved
<1>7. SampleOK(a)' <=> SampleOK(a)
  BY <1>1, <1>2 DEF SampleOK, Unmoved
<1>8. ASSUME NEW d \in Callers PROVE CallOK(a, d)'
  <2>1. CASE d = c
    BY <1>3, <2>1 DEF CallOK
  <2>2. CASE d # c
    <3>1. call'[d] = call[d] /\ CallOK(a, d)
      BY <1>3, <2>2 DEF Before, AxisOK
    <3> QED BY <1>1, <1>2, <3>1 DEF CallOK, Unmoved
  <2> QED BY <2>1, <2>2
<1> QED BY <1>2, <1>5, <1>6, <1>7, <1>8 DEF Before, AxisOK

\* A call that begins finds the axes as they are; a mount that is opened had none.
LEMMA BeginRest ==
  ASSUME NEW a \in Axes, NEW c \in Callers, Before(a), Orderly',
         Calls(c) \/ Quits(c) \/ Inits(c)
  PROVE  AxisOK(a)'
<1>1. PICK op \in Ops : Begin(c, op)
  BY DEF Calls, Quits, Inits
<1>2. /\ call[c] = Idle /\ call'[c].pc = FirstStep(op)
      /\ \A d \in Callers : d # c => call'[d] = call[d]
  BY <1>1, BeginForm DEF Before, TypeInv, Types, Others
<1>3. call'[c].pc \in {"update", "correct", "send", "setstop", "ask"}
  BY <1>2, SidAssumption DEF FirstStep
<1>4. UNCHANGED <<mot, goal, state, target, prev, sample, hurried>>
  BY DEF Calls, Quits, Inits, device, data, thread
<1>5. (R(a)' <=> R(a)) /\ (Away(a)' <=> Away(a)) /\ (Fresh' <=> Fresh)
  BY <1>4 DEF R, Away, Fresh
<1>6. \A d \in Callers : (Busy(d)' <=> Busy(d)) /\ (call'[d].pc \in Ended <=> call[d].pc \in Ended)
  BY <1>2, <1>3, IdleIs DEF Busy, Ended
<1>7. (mpc' = mpc /\ mntfd' = mntfd) \/ (~mntfd /\ mpc' = "start")
  BY DEF Calls, Quits, Inits, thread, line
<1>8. Quiet' => Quiet
  BY <1>5, <1>6, <1>7 DEF Quiet
<1>9. SampleOK(a)'
  BY <1>4, <1>5, <1>7 DEF SampleOK, Before, AxisOK
<1>10. mpc' = "data" => mpc = "data"
  BY <1>7
<1>11. ASSUME NEW d \in Callers PROVE CallOK(a, d)'
  <2>1. CASE d = c
    BY <1>3, <2>1 DEF CallOK
  <2>2. CASE d # c
    <3>1. call'[d] = call[d] /\ CallOK(a, d)
      BY <1>2, <2>2 DEF Before, AxisOK
    <3> QED BY <1>4, <1>5, <1>10, <3>1 DEF CallOK
  <2> QED BY <2>1, <2>2
<1> QED BY <1>5, <1>6, <1>8, <1>9, <1>11 DEF Before, AxisOK

\* When the thread starts the axes rest: no status has been judged yet.
LEMMA ThreadStartsRest ==
  ASSUME NEW a \in Axes, Before(a), Orderly', ThreadStarts
  PROVE  AxisOK(a)'
<1>1. UNCHANGED <<mot, goal, hurried, prev, call>> /\ mpc = "start"
  BY DEF ThreadStarts, device, history
<1>2. R(a)'
  BY <1>1 DEF Before, AxisOK, Quiet, R
<1>3. PICK c \in Callers : call[c].op = "init"
  BY <1>1 DEF Before, InitOK, Initing
<1>4. \A d \in Callers : call[d].pc \notin {"target", "slew?", "slew", "corrected", "stop"}
  <2>1. \A d \in Callers : call[d].op \in {"init", "none"}
    BY <1>3 DEF Before, CtlInv, Alone
  <2> QED BY <2>1 DEF Before, CtlInv, OpsOK, Shape
<1>5. \A d \in Callers : CallOK(a, d)'
  BY <1>1, <1>4 DEF CallOK
<1> QED BY <1>1, <1>2, <1>5, OwnStep DEF Away, SampleOK

\* The thread ends by itself only when a quit has stopped the axes.
LEMMA ThreadLoopsRest ==
  ASSUME NEW a \in Axes, Before(a), Orderly', ThreadLoops
  PROVE  AxisOK(a)'
<1>1. UNCHANGED <<mot, goal, state, target, prev, hurried, call>>
  BY DEF ThreadLoops, device, data, history
<1>2. (R(a)' <=> R(a)) /\ (Away(a)' <=> Away(a)) /\ (Fresh' <=> Fresh)
  BY <1>1 DEF R, Away, Fresh
<1>3. mpc' \in {"lock", "off"} /\ mpc # "data"
  BY DEF ThreadLoops, ThreadGoes
<1>4. ~mntfd' => R(a)
  <2>1. CASE mntfd /\ errctr < MAX_ERR_CTR /\ ~GlobExit
    BY <2>1 DEF ThreadLoops
  <2>2. CASE ~mntfd
    BY <2>2 DEF Before, AxisOK, Quiet
  <2>3. CASE ~(errctr < MAX_ERR_CTR)
    BY <2>3, Constants DEF Before, TypeInv, Types, ThreadTypes, ErrOK, Orderly
  <2>4. CASE GlobExit
    BY <2>4 DEF Before, CtlInv, ExitOK, AxisOK, Quiet, Ended
  <2> QED BY <2>1, <2>2, <2>3, <2>4
<1>5. Fresh => R(a)
  BY DEF Before, AxisOK, Quiet
<1>6. \A c \in Callers : CallOK(a, c)'
  BY <1>1, <1>2, <1>3 DEF Before, AxisOK, CallOK
<1>7. SampleOK(a)'
  BY <1>3 DEF SampleOK
<1> QED BY <1>1, <1>2, <1>3, <1>4, <1>5, <1>6, <1>7, OwnStep

\* The thread takes the line.
LEMMA ThreadLocksRest ==
  ASSUME NEW a \in Axes, Before(a), Orderly', ThreadLocks
  PROVE  AxisOK(a)'
<1>1. UNCHANGED <<mot, goal, state, target, prev, mntfd, hurried, call>> /\ mpc' = "in" /\ mpc # "data"
  BY DEF ThreadLocks, ThreadGoes, device, data, history
<1>2. (R(a)' <=> R(a)) /\ (Away(a)' <=> Away(a)) /\ (Fresh' <=> Fresh)
  BY <1>1 DEF R, Away, Fresh
<1>3. ~mntfd \/ Fresh => R(a)
  BY DEF Before, AxisOK, Quiet
<1>4. \A c \in Callers : CallOK(a, c)'
  BY <1>1, <1>2 DEF Before, AxisOK, CallOK
<1>5. SampleOK(a)'
  BY <1>1 DEF SampleOK
<1> QED BY <1>1, <1>2, <1>3, <1>4, <1>5, OwnStep

\* The status tells where the motors are.
LEMMA ThreadAnsweredRest ==
  ASSUME NEW a \in Axes, Before(a), Orderly', ThreadAnswered
  PROVE  AxisOK(a)'
<1>1. UNCHANGED <<mot, goal, state, target, prev, mntfd, hurried, call>> /\ mpc = "in"
  BY DEF ThreadAnswered, device, data, history
<1>2. PICK ok \in BOOLEAN :
        /\ mpc' = IF ok THEN "data" ELSE "head"
        /\ sample' = IF ok THEN mot ELSE sample
  BY DEF ThreadAnswered
<1>3. (R(a)' <=> R(a)) /\ (Away(a)' <=> Away(a)) /\ (Fresh' <=> Fresh)
  BY <1>1 DEF R, Away, Fresh
<1>4. ~mntfd \/ Fresh => R(a)
  BY DEF Before, AxisOK, Quiet
<1>5. \A c \in Callers : call[c].pc # "target"
  BY <1>1, Constants DEF Before, TypeInv, LineOK
<1>6. \A c \in Callers : CallOK(a, c)'
  BY <1>1, <1>3, <1>5 DEF Before, AxisOK, CallOK
<1>7. SampleOK(a)'
  BY <1>1, <1>2 DEF SampleOK, R
<1>8. mpc' # "start"
  BY <1>2
<1> QED BY <1>1, <1>3, <1>4, <1>6, <1>7, <1>8, OwnStep

\* An axis is judged to be STOPPED where it was to go.
LEMMA ThreadJudgesRest ==
  ASSUME NEW a \in Axes, Before(a), Orderly', ThreadJudges
  PROVE  AxisOK(a)'
<1>1. /\ UNCHANGED <<mot, goal, target, mntfd, hurried, call>>
      /\ mpc = "data" /\ mpc' = "sleep" /\ prev' = sample
  BY DEF ThreadJudges, device, line, history
<1>2. state'[a] = ChkStopStat(a)
  BY DEF ThreadJudges, SetStat
<1>3. ~Fresh'
  BY <1>1, Constants DEF Fresh, Before, TypeInv, Types, ThreadTypes
<1>4. R(a)' <=> R(a)
  BY <1>1 DEF R
<1>5. Fresh => R(a)
  BY DEF Before, AxisOK, Quiet
<1>6. state'[a] = state[a] \/ state'[a] = "STOPPED"
  BY <1>2 DEF ChkStopStat
<1>7. state[a] = "SLEWING" /\ target[a] = goal[a] /\ state'[a] = "STOPPED" => R(a)
  <2>1. SUFFICES ASSUME state[a] = "SLEWING", target[a] = goal[a], state'[a] = "STOPPED"
                 PROVE  R(a)
    OBVIOUS
  <2>2. CASE prev[a] = None
    BY <1>5, <2>2 DEF Fresh
  <2>3. CASE sample[a] = target[a]
    BY <1>1, <2>1, <2>3 DEF Before, AxisOK, SampleOK
  <2> QED BY <1>2, <2>1, <2>2, <2>3 DEF ChkStopStat, Counting
<1>8. Away(a) => Away(a)'
  BY <1>1, <1>4, <1>6, <1>7 DEF Away
<1>9. ASSUME NEW c \in Callers PROVE CallOK(a, c)'
  <2>1. CallOK(a, c) /\ call'[c] = call[c]
    BY <1>1 DEF Before, AxisOK
  <2>2. state[a] \in States
    BY DEF Before, TypeInv, Types, DataTypes
  <2>3. CASE hurried[a]
    BY <1>1, <1>4, <2>1, <2>3 DEF CallOK, R
  <2>4. CASE ~hurried[a]
    <3>1. call[c].pc # "target"
      BY <1>1, <2>1, <2>4 DEF CallOK
    <3>2. call[c].pc \in {"slew?", "slew"} =>
            state'[a] # "GONNASTOP" /\ (state'[a] = "STOPPED" /\ state[a] # "STOPPED" => mot[a] = goal[a])
      BY <1>6, <1>7, <2>1, <2>2, <2>4 DEF CallOK, R, States
    <3> QED BY <1>1, <1>4, <2>1, <3>1, <3>2 DEF CallOK
  <2> QED BY <2>3, <2>4
<1>10. SampleOK(a)'
  BY <1>1 DEF SampleOK
<1>11. ~mntfd => R(a)
  BY DEF Before, AxisOK, Quiet
<1> QED BY <1>1, <1>3, <1>4, <1>8, <1>9, <1>10, <1>11, OwnStep

\* A cancelled thread ends.
LEMMA ThreadDiesRest ==
  ASSUME NEW a \in Axes, Before(a), Orderly', ThreadDies
  PROVE  AxisOK(a)'
<1>1. UNCHANGED <<mot, goal, state, target, prev, mntfd, hurried, call>> /\ mpc' = "off" /\ mpc # "data"
  BY DEF ThreadDies, ThreadGoes, device, data, line, history
<1>2. (R(a)' <=> R(a)) /\ (Away(a)' <=> Away(a)) /\ (Fresh' <=> Fresh)
  BY <1>1 DEF R, Away, Fresh
<1>3. ~mntfd \/ Fresh => R(a)
  BY DEF Before, AxisOK, Quiet
<1>4. \A c \in Callers : CallOK(a, c)'
  BY <1>1, <1>2 DEF Before, AxisOK, CallOK
<1>5. SampleOK(a)'
  BY <1>1 DEF SampleOK
<1> QED BY <1>1, <1>2, <1>3, <1>4, <1>5, OwnStep

\* A motor moves: one that rests stays where it is.
LEMMA MovesRest ==
  ASSUME NEW a \in Axes, Before(a), Orderly', NEW b \in Axes, Moves(b)
  PROVE  AxisOK(a)'
<1>1. UNCHANGED <<goal, state, target, prev, mpc, sample, mntfd, hurried, call>>
  BY DEF Moves, data, thread, line, history
<1>2. mot[a] = goal[a] => mot'[a] = goal[a]
  BY DEF Moves, Before, TypeInv, Types, DeviceTypes
<1>3. (R(a) => R(a)') /\ (Away(a) => Away(a)') /\ (Fresh' <=> Fresh)
  BY <1>1, <1>2 DEF R, Away, Fresh
<1>4. ~mntfd \/ mpc = "start" \/ Fresh => R(a)
  BY DEF Before, AxisOK, Quiet
<1>5. SampleOK(a)'
  BY <1>1, <1>3 DEF SampleOK, Before, AxisOK
<1>6. \A c \in Callers : CallOK(a, c)'
  BY <1>1, <1>2, <1>3 DEF CallOK, Before, AxisOK
<1> QED BY <1>1, <1>3, <1>4, <1>5, <1>6, OwnStep

\* Every step keeps what is known of an axis.
LEMMA AxisNext ==
  ASSUME NEW a \in Axes, Before(a), Orderly', Next
  PROVE  AxisOK(a)'
<1>1. CASE MountThread
  BY <1>1, ThreadStartsRest, ThreadLoopsRest, ThreadLocksRest, ThreadAnsweredRest,
     ThreadJudgesRest, ThreadDiesRest DEF MountThread
<1>2. CASE \E b \in Axes : Moves(b)
  BY <1>2, MovesRest
<1>3. ASSUME NEW c \in Callers, CallStep(c) PROVE AxisOK(a)'
  BY <1>3, CorrectReadsRest, CorrectSetsRest, UpdateRest, SyncRest, SyncEndsRest, SendRest,
     TargetRest, SlewReadsRest, SlewSetsRest, SetStopRest, StopRest, StopEndsRest, CloseRest,
     CancelRest, JoinRest, AskRest, ReadyRest DEF CallStep
<1>4. ASSUME NEW c \in Callers, Calls(c) \/ Quits(c) \/ Inits(c) PROVE AxisOK(a)'
  BY <1>4, BeginRest
<1> QED BY <1>1, <1>2, <1>3, <1>4 DEF Next

-----------------------------------------------------------------------------
(* The calls that open the mount and the ones that stop it.                  *)

\* Failures and overlaps are not forgotten.
LEMMA OrderlyNext == ASSUME CallTypes, CountTypes, Orderly', Next PROVE Orderly
<1>1. ASSUME ThreadStarts PROVE Orderly
  BY <1>1 DEF ThreadStarts, Orderly, CountTypes, device, line, history
<1>2. ASSUME ThreadLoops PROVE Orderly
  BY <1>2 DEF ThreadLoops, Orderly, CountTypes, device, data, history
<1>3. ASSUME ThreadLocks PROVE Orderly
  BY <1>3 DEF ThreadLocks, Orderly, CountTypes, device, data, history
<1>4. ASSUME ThreadAnswered PROVE Orderly
  BY <1>4 DEF ThreadAnswered, Exchange, Orderly, CountTypes, device, data, history
<1>5. ASSUME ThreadJudges PROVE Orderly
  BY <1>5 DEF ThreadJudges, Orderly, CountTypes, device, data, line, history
<1>6. ASSUME ThreadDies PROVE Orderly
  BY <1>6 DEF ThreadDies, Orderly, CountTypes, device, data, line, history
<1>7. ASSUME NEW a \in Axes, Moves(a) PROVE Orderly
  BY <1>7 DEF Moves, Orderly, CountTypes, data, thread, line, history
<1>8. ASSUME NEW c \in Callers, CorrectReads(c) PROVE Orderly
  BY <1>8 DEF CorrectReads, Orderly, CountTypes, device, data, thread, line, history
<1>9. ASSUME NEW c \in Callers, CorrectSets(c) PROVE Orderly
  BY <1>9 DEF CorrectSets, Orderly, CountTypes, device, thread, line, history
<1>10. ASSUME NEW c \in Callers, Update(c) PROVE Orderly
  BY <1>10 DEF Update, Orderly, CountTypes, device, data, thread, line, history
<1>11. ASSUME NEW c \in Callers, Sync(c) PROVE Orderly
  BY <1>11 DEF Sync, Exchange, Orderly, CountTypes, data, thread, line, history
<1>12. ASSUME NEW c \in Callers, SyncEnds(c) PROVE Orderly
  BY <1>12 DEF SyncEnds, Orderly, CountTypes, device, data, thread, line, history
<1>13. ASSUME NEW c \in Callers, Send(c) PROVE Orderly
  BY <1>13 DEF Send, Exchange, Orderly, CountTypes, data, thread
<1>14. ASSUME NEW c \in Callers, Target(c) PROVE Orderly
  BY <1>14 DEF Target, Orderly, CountTypes, device, thread, history
<1>15. ASSUME NEW c \in Callers, SlewReads(c) PROVE Orderly
  BY <1>15 DEF SlewReads, Orderly, CountTypes, device, data, thread, line, history
<1>16. ASSUME NEW c \in Callers, SlewSets(c) PROVE Orderly
  BY <1>16 DEF SlewSets, Orderly, CountTypes, device, thread, line, history
<1>17. ASSUME NEW c \in Callers, SetStop(c) PROVE Orderly
  BY <1>17 DEF SetStop, Orderly, CountTypes, device, thread, line, history
<1>18. ASSUME NEW c \in Callers, Stop(c) PROVE Orderly
  BY <1>18 DEF Stop, Exchange, Orderly, CountTypes, data, thread, line, history
<1>19. ASSUME NEW c \in Callers, StopEnds(c) PROVE Orderly
  BY <1>19 DEF StopEnds, Orderly, CountTypes, device, data, thread, line, history
<1>20. ASSUME NEW c \in Callers, Close(c) PROVE Orderly
  BY <1>20 DEF Close, Orderly, CountTypes, device, data, thread, history
<1>21. ASSUME NEW c \in Callers, Cancel(c) PROVE Orderly
  BY <1>21 DEF Cancel, Orderly, CountTypes, device, data, history
<1>22. ASSUME NEW c \in Callers, Join(c) PROVE Orderly
  BY <1>22 DEF Join, Orderly, CountTypes, device, data, history
<1>23. ASSUME NEW c \in Callers, Ask(c) PROVE Orderly
  BY <1>23 DEF Ask, Exchange, Orderly, CountTypes, device, data, thread, line, history
<1>24. ASSUME NEW c \in Callers, Ready(c) PROVE Orderly
  BY <1>24 DEF Ready, Orderly, CountTypes, device, data, thread, line, history
<1>25. ASSUME NEW c \in Callers, Calls(c) PROVE Orderly
  <2>1. PICK op \in Ops : Begin(c, op)
    BY <1>25 DEF Calls
  <2>2. faults' = faults
    BY <1>25 DEF Calls
  <2> QED BY <2>1, <2>2 DEF Begin, Orderly
<1>26. ASSUME NEW c \in Callers, Quits(c) PROVE Orderly
  <2>1. PICK op \in Ops : Begin(c, op)
    BY <1>26 DEF Quits
  <2>2. faults' = faults
    BY <1>26 DEF Quits
  <2> QED BY <2>1, <2>2 DEF Begin, Orderly
<1>27. ASSUME NEW c \in Callers, Inits(c) PROVE Orderly
  <2>1. PICK op \in Ops : Begin(c, op)
    BY <1>27 DEF Inits
  <2>2. faults' = faults
    BY <1>27 DEF Inits
  <2> QED BY <2>1, <2>2 DEF Begin, Orderly
<1> QED BY <1>1, <1>2, <1>3, <1>4, <1>5, <1>6, <1>7, <1>8, <1>9, <1>10, <1>11, <1>12, <1>13,
        <1>14, <1>15, <1>16, <1>17, <1>18, <1>19, <1>20, <1>21, <1>22, <1>23, <1>24, <1>25,
        <1>26, <1>27 DEF Next, MountThread, CallStep

\* A stop that failed had no device.
LEMMA StopNext == ASSUME TypeInv, CtlInv, Orderly, InitOK, StopOK, Orderly', Next PROVE StopOK'
<1>1. ASSUME ThreadStarts PROVE StopOK'
  BY <1>1 DEF ThreadStarts, StopOK, line
<1>2. ASSUME ThreadLoops PROVE StopOK'
  BY <1>2 DEF ThreadLoops, StopOK
<1>3. ASSUME ThreadLocks PROVE StopOK'
  BY <1>3 DEF ThreadLocks, StopOK
<1>4. ASSUME ThreadAnswered PROVE StopOK'
  BY <1>4 DEF ThreadAnswered, StopOK
<1>5. ASSUME ThreadJudges PROVE StopOK'
  BY <1>5 DEF ThreadJudges, StopOK, line
<1>6. ASSUME ThreadDies PROVE StopOK'
  BY <1>6 DEF ThreadDies, StopOK, line
<1>7. ASSUME NEW a \in Axes, Moves(a) PROVE StopOK'
  BY <1>7 DEF Moves, StopOK, line
<1>8. ASSUME NEW c \in Callers, CorrectReads(c) PROVE StopOK'
  <2>1. Others(c) /\ (call'[c].pc \in {"setstop", "stop"} /\ call'[c].failed => ~mntfd)
    BY <1>8, IdleIs, CorrectReadsForm DEF CorrectReads, TypeInv, Types, StopOK
  <2>2. mntfd' = mntfd
    BY <1>8 DEF CorrectReads, line
  <2> QED BY <2>1, <2>2 DEF StopOK, Others
<1>9. ASSUME NEW c \in Callers, CorrectSets(c) PROVE StopOK'
  <2>1. Others(c) /\ (call'[c].pc \in {"setstop", "stop"} /\ call'[c].failed => ~mntfd)
    BY <1>9, IdleIs, CorrectSetsForm DEF CorrectSets, TypeInv, Types, StopOK
  <2>2. mntfd' = mntfd
    BY <1>9 DEF CorrectSets, line
  <2> QED BY <2>1, <2>2 DEF StopOK, Others
<1>10. ASSUME NEW c \in Callers, Update(c) PROVE StopOK'
  <2>1. Others(c) /\ (call'[c].pc \in {"setstop", "stop"} /\ call'[c].failed => ~mntfd)
    BY <1>10, IdleIs, UpdateForm DEF Update, TypeInv, Types, StopOK
  <2>2. mntfd' = mntfd
    BY <1>10 DEF Update, line
  <2> QED BY <2>1, <2>2 DEF StopOK, Others
<1>11. ASSUME NEW c \in Callers, Sync(c) PROVE StopOK'
  <2>1. Others(c) /\ (call'[c].pc \in {"setstop", "stop"} /\ call'[c].failed => ~mntfd)
    BY <1>11, IdleIs, SyncForm DEF Sync, TypeInv, Types, StopOK
  <2>2. mntfd' = mntfd
    BY <1>11 DEF Sync, line
  <2> QED BY <2>1, <2>2 DEF StopOK, Others
<1>12. ASSUME NEW c \in Callers, SyncEnds(c) PROVE StopOK'
  <2>1. Others(c) /\ (call'[c].pc \in {"setstop", "stop"} /\ call'[c].failed => ~mntfd)
    BY <1>12, IdleIs, SyncEndsForm DEF SyncEnds, TypeInv, Types, StopOK
  <2>2. mntfd' = mntfd
    BY <1>12 DEF SyncEnds, line
  <2> QED BY <2>1, <2>2 DEF StopOK, Others
<1>13. ASSUME NEW c \in Callers, Send(c) PROVE StopOK'
  <2>1. Others(c) /\ (call'[c].pc \in {"setstop", "stop"} /\ call'[c].failed => ~mntfd)
    BY <1>13, IdleIs, SendForm DEF Send, TypeInv, Types, StopOK
  <2>2. mntfd' = mntfd
    BY <1>13 DEF Send, line
  <2> QED BY <2>1, <2>2 DEF StopOK, Others
<1>14. ASSUME NEW c \in Callers, Target(c) PROVE StopOK'
  <2>1. Others(c) /\ (call'[c].pc \in {"setstop", "stop"} /\ call'[c].failed => ~mntfd)
    BY <1>14, IdleIs, Went, "slew?" \in Pcs DEF Target, TypeInv, Types, StopOK, Pcs, Moved
  <2>2. mntfd' = mntfd
    BY <1>14 DEF Target, line
  <2> QED BY <2>1, <2>2 DEF StopOK, Others
<1>15. ASSUME NEW c \in Callers, SlewReads(c) PROVE StopOK'
  <2>1. Others(c) /\ (call'[c].pc \in {"setstop", "stop"} /\ call'[c].failed => ~mntfd)
    BY <1>15, IdleIs, SlewReadsForm DEF SlewReads, TypeInv, Types, StopOK
  <2>2. mntfd' = mntfd
    BY <1>15 DEF SlewReads, line
  <2> QED BY <2>1, <2>2 DEF StopOK, Others
<1>16. ASSUME NEW c \in Callers, SlewSets(c) PROVE StopOK'
  <2>1. Others(c) /\ (call'[c].pc \in {"setstop", "stop"} /\ call'[c].failed => ~mntfd)
    BY <1>16, IdleIs, Returned DEF SlewSets, TypeInv, Types, StopOK
  <2>2. mntfd' = mntfd
    BY <1>16 DEF SlewSets, line
  <2> QED BY <2>1, <2>2 DEF StopOK, Others
<1>17. ASSUME NEW c \in Callers, SetStop(c) PROVE StopOK'
  <2>1. Others(c) /\ (call'[c].pc \in {"setstop", "stop"} /\ call'[c].failed => ~mntfd)
    BY <1>17, IdleIs, SetStopForm DEF SetStop, TypeInv, Types, StopOK
  <2>2. mntfd' = mntfd
    BY <1>17 DEF SetStop, line
  <2> QED BY <2>1, <2>2 DEF StopOK, Others
<1>18. ASSUME NEW c \in Callers, Stop(c) PROVE StopOK'
  <2>1. PICK reached \in BOOLEAN, ok \in BOOLEAN :
          Exchange(reached, ok) /\ call'[c].failed = ~ok
    BY <1>18, StopForm DEF TypeInv, Types
  <2>2. mntfd => ok
    BY <2>1, Answered DEF TypeInv, Types
  <2>3. Others(c) /\ mntfd' = mntfd
    BY <1>18, StopForm DEF Stop, line, TypeInv, Types
  <2> QED BY <2>1, <2>2, <2>3 DEF StopOK, Others
<1>19. ASSUME NEW c \in Callers, StopEnds(c) PROVE StopOK'
  <2>1. Others(c) /\ (call'[c].pc \in {"setstop", "stop"} /\ call'[c].failed => ~mntfd)
    BY <1>19, IdleIs, StopEndsForm DEF StopEnds, TypeInv, Types, StopOK
  <2>2. mntfd' = mntfd
    BY <1>19 DEF StopEnds, line
  <2> QED BY <2>1, <2>2 DEF StopOK, Others
<1>20. ASSUME NEW c \in Callers, Close(c) PROVE StopOK'
  <2>1. Others(c) /\ (call'[c].pc \in {"setstop", "stop"} /\ call'[c].failed => ~mntfd)
    BY <1>20, IdleIs, Went, "cancel" \in Pcs DEF Close, TypeInv, Types, StopOK, Pcs, Moved
  <2>2. mntfd' = mntfd
    BY <1>20 DEF Close, line
  <2> QED BY <2>1, <2>2 DEF StopOK, Others
<1>21. ASSUME NEW c \in Callers, Cancel(c) PROVE StopOK'
  <2>1. Others(c) /\ (call'[c].pc \in {"setstop", "stop"} /\ call'[c].failed => ~mntfd)
    BY <1>21, IdleIs, CancelForm DEF Cancel, TypeInv, Types, StopOK
  <2>2. mntfd' = mntfd
    BY <1>21 DEF Cancel, line
  <2> QED BY <2>1, <2>2 DEF StopOK, Others
<1>22. ASSUME NEW c \in Callers, Join(c) PROVE StopOK'
  <2>1. Others(c) /\ call'[c].pc = "idle" /\ ~mntfd'
    BY <1>22, Returned, IdleIs DEF Join, TypeInv, Types
  <2> QED BY <2>1 DEF StopOK, Others
<1>23. ASSUME NEW c \in Callers, Ask(c) PROVE StopOK'
  <2>1. \A d \in Callers : d # c => call'[d] = call[d]
    BY <1>23, AskForm DEF TypeInv, Types, Others
  <2>2. call'[c].pc \in {"ask", "update", "idle"}
    BY <1>23, AskForm, IdleIs DEF Ask, TypeInv, Types
  <2>3. mntfd' = mntfd
    BY <1>23 DEF Ask, line
  <2> QED BY <2>1, <2>2, <2>3 DEF StopOK
<1>24. ASSUME NEW c \in Callers, Ready(c) PROVE StopOK'
  <2>1. Others(c) /\ (call'[c].pc \in {"setstop", "stop"} /\ call'[c].failed => ~mntfd)
    BY <1>24, IdleIs, Returned DEF Ready, TypeInv, Types, StopOK
  <2>2. mntfd' = mntfd
    BY <1>24 DEF Ready, line
  <2> QED BY <2>1, <2>2 DEF StopOK, Others
<1>25. ASSUME NEW c \in Callers, Calls(c) PROVE StopOK'
  <2>1. PICK op \in Ops : Begin(c, op)
    BY <1>25 DEF Calls
  <2>2. Others(c) /\ ~call'[c].failed
    BY <2>1, BeginForm DEF TypeInv, Types
  <2>3. mntfd' = mntfd
    BY <1>25 DEF Calls, line
  <2> QED BY <2>2, <2>3 DEF StopOK, Others
<1>26. ASSUME NEW c \in Callers, Quits(c) PROVE StopOK'
  <2>1. PICK op \in Ops : Begin(c, op)
    BY <1>26 DEF Quits
  <2>2. Others(c) /\ ~call'[c].failed
    BY <2>1, BeginForm DEF TypeInv, Types
  <2>3. mntfd' = mntfd
    BY <1>26 DEF Quits, line
  <2> QED BY <2>2, <2>3 DEF StopOK, Others
<1>27. ASSUME NEW c \in Callers, Inits(c) PROVE StopOK'
  <2>1. PICK op \in Ops : Begin(c, op)
    BY <1>27 DEF Inits
  <2>2. Others(c) /\ ~call'[c].failed
    BY <2>1, BeginForm DEF TypeInv, Types
  <2>3. \A d \in Callers : call[d] = Idle
    BY <1>27 DEF Inits
  <2> QED BY <2>2, <2>3, IdleIs DEF StopOK, Others
<1> QED BY <1>1, <1>2, <1>3, <1>4, <1>5, <1>6, <1>7, <1>8, <1>9, <1>10, <1>11, <1>12, <1>13,
        <1>14, <1>15, <1>16, <1>17, <1>18, <1>19, <1>20, <1>21, <1>22, <1>23, <1>24, <1>25,
        <1>26, <1>27 DEF Next, MountThread, CallStep

\* The mount thread of an init.
LEMMA InitNext == ASSUME TypeInv, CtlInv, Orderly, InitOK, StopOK, Orderly', Next PROVE InitOK'
<1>1. ASSUME ThreadStarts PROVE InitOK'
  BY <1>1 DEF ThreadStarts, ThreadGoes, InitOK, Initing, Fresh, line
<1>2. ASSUME ThreadLoops PROVE InitOK'
  <2>1. Initing => mntfd /\ errctr < MAX_ERR_CTR /\ ~GlobExit
    <3>1. errctr < MAX_ERR_CTR
      BY Constants DEF TypeInv, Types, ThreadTypes, ErrOK, Orderly
    <3>2. Initing => ~GlobExit
      BY DEF CtlInv, ExitOK, OpsOK, Shape, Alone, Initing
    <3> QED BY <3>1, <3>2 DEF InitOK
  <2> QED BY <1>2, <2>1 DEF ThreadLoops, ThreadGoes, InitOK, Initing, Fresh, data
<1>3. ASSUME ThreadLocks PROVE InitOK'
  BY <1>3 DEF ThreadLocks, ThreadGoes, InitOK, Initing, Fresh, data, line
<1>4. ASSUME ThreadAnswered PROVE InitOK'
  BY <1>4 DEF ThreadAnswered, ThreadGoes, InitOK, Initing, Fresh, data, line
<1>5. ASSUME ThreadJudges PROVE InitOK'
  <2>1. ~Fresh'
    BY <1>5, Constants DEF ThreadJudges, Fresh, TypeInv, Types, ThreadTypes
  <2> QED BY <1>5, <2>1 DEF ThreadJudges, InitOK, Initing, line
<1>6. ASSUME ThreadDies PROVE InitOK'
  <2>1. ~Initing
    BY <1>6 DEF ThreadDies, CtlInv, CancelOK, OpsOK, Shape, Alone, Initing
  <2> QED BY <1>6, <2>1 DEF ThreadDies, ThreadGoes, InitOK, Initing, Fresh, data, line
<1>7. ASSUME NEW a \in Axes, Moves(a) PROVE InitOK'
  BY <1>7 DEF Moves, InitOK, Initing, Fresh, data, thread, line
<1>8. ASSUME NEW c \in Callers, CorrectReads(c) PROVE InitOK'
  <2>1. \A d \in Callers : call'[d].op = "init" <=> call[d].op = "init"
    BY <1>8, IdleIs, CorrectReadsForm
       DEF CorrectReads, TypeInv, Types, CtlInv, OpsOK, Shape, Others, SameCall
  <2>2. Initing' <=> Initing
    BY <2>1 DEF Initing
  <2> QED BY <1>8, <2>2 DEF CorrectReads, InitOK, Fresh, data, thread, line
<1>9. ASSUME NEW c \in Callers, CorrectSets(c) PROVE InitOK'
  <2>1. \A d \in Callers : call'[d].op = "init" <=> call[d].op = "init"
    BY <1>9, IdleIs, CorrectSetsForm
       DEF CorrectSets, TypeInv, Types, CtlInv, OpsOK, Shape, Others, SameCall
  <2>2. Initing' <=> Initing
    BY <2>1 DEF Initing
  <2> QED BY <1>9, <2>2 DEF CorrectSets, InitOK, Fresh, data, thread, line
<1>10. ASSUME NEW c \in Callers, Update(c) PROVE InitOK'
  <2>1. \A d \in Callers : call'[d].op = "init" <=> call[d].op = "init"
    BY <1>10, IdleIs, UpdateForm
       DEF Update, TypeInv, Types, CtlInv, OpsOK, Shape, Others, SameCall
  <2>2. Initing' <=> Initing
    BY <2>1 DEF Initing
  <2> QED BY <1>10, <2>2 DEF Update, InitOK, Fresh, data, thread, line
<1>11. ASSUME NEW c \in Callers, Sync(c) PROVE InitOK'
  <2>1. \A d \in Callers : call'[d].op = "init" <=> call[d].op = "init"
    BY <1>11, IdleIs, SyncForm DEF Sync, TypeInv, Types, CtlInv, OpsOK, Shape, Others, SameCall
  <2>2. Initing' <=> Initing
    BY <2>1 DEF Initing
  <2> QED BY <1>11, <2>2 DEF Sync, InitOK, Fresh, data, thread, line
<1>12. ASSUME NEW c \in Callers, SyncEnds(c) PROVE InitOK'
  <2>1. \A d \in Callers : call'[d].op = "init" <=> call[d].op = "init"
    BY <1>12, IdleIs, SyncEndsForm
       DEF SyncEnds, TypeInv, Types, CtlInv, OpsOK, Shape, Others, SameCall
  <2>2. Initing' <=> Initing
    BY <2>1 DEF Initing
  <2> QED BY <1>12, <2>2 DEF SyncEnds, InitOK, Fresh, data, thread, line
<1>13. ASSUME NEW c \in Callers, Send(c) PROVE InitOK'
  <2>1. \A d \in Callers : call'[d].op = "init" <=> call[d].op = "init"
    BY <1>13, IdleIs, SendForm DEF Send, TypeInv, Types, CtlInv, OpsOK, Shape, Others, SameCall
  <2>2. Initing' <=> Initing
    BY <2>1 DEF Initing
  <2> QED BY <1>13, <2>2 DEF Send, InitOK, Fresh, data, thread, line
<1>14. ASSUME NEW c \in Callers, Target(c) PROVE InitOK'
  <2>1. \A d \in Callers : call'[d].op = "init" <=> call[d].op = "init"
    BY <1>14, IdleIs, Went, "slew?" \in Pcs
       DEF Target, TypeInv, Types, CtlInv, OpsOK, Shape, Others, SameCall, Pcs, Moved
  <2>2. Initing' <=> Initing
    BY <2>1 DEF Initing
  <2> QED BY <1>14, <2>2 DEF Target, InitOK, Fresh, data, thread, line
<1>15. ASSUME NEW c \in Callers, SlewReads(c) PROVE InitOK'
  <2>1. \A d \in Callers : call'[d].op = "init" <=> call[d].op = "init"
    BY <1>15, IdleIs, SlewReadsForm
       DEF SlewReads, TypeInv, Types, CtlInv, OpsOK, Shape, Others, SameCall
  <2>2. Initing' <=> Initing
    BY <2>1 DEF Initing
  <2> QED BY <1>15, <2>2 DEF SlewReads, InitOK, Fresh, data, thread, line
<1>16. ASSUME NEW c \in Callers, SlewSets(c) PROVE InitOK'
  <2>1. \A d \in Callers : call'[d].op = "init" <=> call[d].op = "init"
    BY <1>16, IdleIs, Returned
       DEF SlewSets, TypeInv, Types, CtlInv, OpsOK, Shape, Others, SameCall
  <2>2. Initing' <=> Initing
    BY <2>1 DEF Initing
  <2> QED BY <1>16, <2>2 DEF SlewSets, InitOK, Fresh, data, thread, line
<1>17. ASSUME NEW c \in Callers, SetStop(c) PROVE InitOK'
  <2>1. \A d \in Callers : call'[d].op = "init" <=> call[d].op = "init"
    BY <1>17, IdleIs, SetStopForm
       DEF SetStop, TypeInv, Types, CtlInv, OpsOK, Shape, Others, SameCall
  <2>2. Initing' <=> Initing
    BY <2>1 DEF Initing
  <2> QED BY <1>17, <2>2 DEF SetStop, InitOK, Fresh, data, thread, line
<1>18. ASSUME NEW c \in Callers, Stop(c) PROVE InitOK'
  <2>1. \A d \in Callers : call'[d].op = "init" <=> call[d].op = "init"
    BY <1>18, IdleIs, StopForm DEF Stop, TypeInv, Types, CtlInv, OpsOK, Shape, Others, SameCall
  <2>2. Initing' <=> Initing
    BY <2>1 DEF Initing
  <2> QED BY <1>18, <2>2 DEF Stop, InitOK, Fresh, data, thread, line
<1>19. ASSUME NEW c \in Callers, StopEnds(c) PROVE InitOK'
  <2>1. \A d \in Callers : call'[d].op = "init" <=> call[d].op = "init"
    BY <1>19, IdleIs, StopEndsForm
       DEF StopEnds, TypeInv, Types, CtlInv, OpsOK, Shape, Others, SameCall
  <2>2. Initing' <=> Initing
    BY <2>1 DEF Initing
  <2> QED BY <1>19, <2>2 DEF StopEnds, InitOK, Fresh, data, thread, line
<1>20. ASSUME NEW c \in Callers, Close(c) PROVE InitOK'
  <2>1. \A d \in Callers : call'[d].op = "init" <=> call[d].op = "init"
    BY <1>20, IdleIs, Went, "cancel" \in Pcs
       DEF Close, TypeInv, Types, CtlInv, OpsOK, Shape, Others, SameCall, Pcs, Moved
  <2>2. Initing' <=> Initing
    BY <2>1 DEF Initing
  <2> QED BY <1>20, <2>2 DEF Close, InitOK, Fresh, data, thread, line
<1>21. ASSUME NEW c \in Callers, Cancel(c) PROVE InitOK'
  <2>1. \A d \in Callers : call'[d].op = "init" <=> call[d].op = "init"
    BY <1>21, IdleIs, CancelForm
       DEF Cancel, TypeInv, Types, CtlInv, OpsOK, Shape, Others, SameCall
  <2>2. Initing' <=> Initing
    BY <2>1 DEF Initing
  <2> QED BY <1>21, <2>2 DEF Cancel, InitOK, Fresh, data, thread, line
<1>22. ASSUME NEW c \in Callers, Join(c) PROVE InitOK'
  <2>1. \A d \in Callers : call'[d].op = "init" <=> call[d].op = "init"
    BY <1>22, IdleIs, Returned DEF Join, TypeInv, Types, CtlInv, OpsOK, Shape, Others, SameCall
  <2>2. Initing' <=> Initing
    BY <2>1 DEF Initing
  <2>3. ~Initing
    BY <1>22 DEF Join, CtlInv, OpsOK, Shape, Alone, Initing
  <2> QED BY <1>22, <2>2, <2>3 DEF Join, InitOK, Fresh, data
<1>23. ASSUME NEW c \in Callers, Ask(c) PROVE InitOK'
  <2>1. UNCHANGED <<mpc, mntfd, prev, calls>>
    BY <1>23 DEF Ask, data, thread, line
  <2>2. \A d \in Callers : call'[d].op = "init" <=> call[d].op = "init"
    <3>1. CASE call[c].op = "init"
      <4>1. mntfd
        BY <3>1 DEF InitOK, Initing
      <4>2. PICK reached \in BOOLEAN, ok \in BOOLEAN :
              /\ Exchange(reached, ok)
              /\ \/ ok /\ Goes(c, "update")
                 \/ ~ok
        BY <1>23, <3>1 DEF Ask
      <4>3. Goes(c, "update")
        BY <4>1, <4>2, Answered DEF TypeInv, Types
      <4> QED BY <4>3, Went, "update" \in Pcs DEF Pcs, TypeInv, Types, Others, Moved, SameCall
    <3>2. CASE call[c].op # "init"
      BY <1>23, <3>2, AskForm, IdleIs DEF TypeInv, Types, Others
    <3> QED BY <3>1, <3>2
  <2>3. (Initing' <=> Initing) /\ (Fresh' <=> Fresh)
    BY <2>1, <2>2 DEF Initing, Fresh
  <2> QED BY <2>1, <2>3 DEF InitOK
<1>24. ASSUME NEW c \in Callers, Ready(c) PROVE InitOK'
  <2>1. UNCHANGED <<mpc, mntfd, prev, calls>>
    BY <1>24 DEF Ready, data, thread, line
  <2>2. call[c].op = "init" /\ mpc = "sleep"
    BY <1>24 DEF Ready, CtlInv, OpsOK, Shape, InitOK, Initing
  <2>3. ~Fresh'
    BY <2>1, <2>2 DEF CtlInv, PrevOK, Fresh
  <2>4. ~Initing'
    <3>1. \A d \in Callers : d # c => call[d].op = "none"
      BY <2>2 DEF CtlInv, Alone
    <3> QED BY <1>24, <3>1, Returned, IdleIs DEF Ready, TypeInv, Types, Others, Initing
  <2> QED BY <2>1, <2>2, <2>3, <2>4 DEF InitOK
<1>25. ASSUME NEW c \in Callers, Calls(c) PROVE InitOK'
  <2>1. PICK op \in Ops : Begin(c, op) /\ op # "init"
    BY <1>25 DEF Calls
  <2>2. /\ \A d \in Callers : d # c => call'[d] = call[d]
        /\ call'[c].op # "init" /\ calls # 0
        /\ \A d \in Callers : call[d].op # "init"
    BY <2>1, BeginKeeps DEF Begin, TypeInv, Types
  <2>3. ~Initing /\ ~Initing'
    BY <2>2 DEF Initing
  <2> QED BY <1>25, <2>2, <2>3 DEF Calls, InitOK, Fresh, data, thread, line
<1>26. ASSUME NEW c \in Callers, Quits(c) PROVE InitOK'
  <2>1. PICK op \in Ops : Begin(c, op) /\ op # "init"
    BY <1>26 DEF Quits
  <2>2. /\ \A d \in Callers : d # c => call'[d] = call[d]
        /\ call'[c].op # "init" /\ calls # 0
        /\ \A d \in Callers : call[d].op # "init"
    BY <2>1, BeginKeeps DEF Begin, TypeInv, Types
  <2>3. ~Initing /\ ~Initing'
    BY <2>2 DEF Initing
  <2> QED BY <1>26, <2>2, <2>3 DEF Quits, InitOK, Fresh, data, thread, line
<1>27. ASSUME NEW c \in Callers, Inits(c) PROVE InitOK'
  <2>1. Begin(c, "init") /\ "init" \in Ops
    BY <1>27 DEF Inits
  <2>2. call'[c].op = "init"
    BY <2>1, BeginKeeps DEF Moving, TypeInv, Types
  <2>3. Initing'
    BY <2>2 DEF Initing
  <2> QED BY <1>27, <2>3 DEF Inits, InitOK
<1> QED BY <1>1, <1>2, <1>3, <1>4, <1>5, <1>6, <1>7, <1>8, <1>9, <1>10, <1>11, <1>12, <1>13,
        <1>14, <1>15, <1>16, <1>17, <1>18, <1>19, <1>20, <1>21, <1>22, <1>23, <1>24, <1>25,
        <1>26, <1>27 DEF Next, MountThread, CallStep

-----------------------------------------------------------------------------
(* The invariant, and what follows from it.                                  *)

SafeInv == TypeInv /\ CtlInv /\ RestInv

LEMMA SafeInit == Init => SafeInv
<1> SUFFICES ASSUME Init PROVE SafeInv
  OBVIOUS
<1>1. TypeInv
  BY TypeInit
<1>2. \A c \in Callers : call[c] = Idle
  BY DEF Init
<1>3. OpsOK
  BY <1>2, IdleIs DEF OpsOK, Shape
<1>4. Alone /\ OneDriver /\ FirstOK
  BY <1>2, IdleIs DEF Alone, OneDriver, FirstOK, Driving, Moving
<1>5. ExitOK /\ CancelOK /\ PrevOK
  BY DEF Init, ExitOK, CancelOK, PrevOK
<1>6. InitOK
  BY <1>2, IdleIs DEF Init, InitOK, Initing
<1>7. StopOK
  BY <1>2, IdleIs DEF StopOK
<1>8. ASSUME NEW a \in Axes PROVE AxisOK(a)
  <2>1. R(a) /\ mpc = "off"
    BY DEF Init, R
  <2>2. \A c \in Callers : CallOK(a, c)
    BY <1>2, IdleIs DEF CallOK
  <2> QED BY <2>1, <2>2 DEF AxisOK, Away, SampleOK
<1> QED BY <1>1, <1>3, <1>4, <1>5, <1>6, <1>7, <1>8 DEF SafeInv, CtlInv, RestInv

LEMMA CtlNext == ASSUME TypeInv, CtlInv, Next PROVE CtlInv'
BY OpsNext, CallersNext, ExitNext, PrevNext DEF TypeInv, Types, CtlInv

LEMMA RestNext == ASSUME SafeInv, Next PROVE RestInv'
<1> SUFFICES ASSUME Orderly' PROVE InitOK' /\ StopOK' /\ \A a \in Axes : AxisOK(a)'
  BY DEF RestInv
<1>1. Orderly
  BY OrderlyNext DEF SafeInv, TypeInv, Types
<1>2. TypeInv /\ CtlInv /\ InitOK /\ StopOK /\ \A a \in Axes : Before(a)
  BY <1>1 DEF SafeInv, RestInv, Before
<1> QED BY <1>1, <1>2, InitNext, StopNext, AxisNext

LEMMA SafeStutter == ASSUME SafeInv, UNCHANGED vars PROVE SafeInv'
<1>1. UNCHANGED <<mot, goal, state, target, prev, mpc, sample, cancelled, mntfd, GlobExit>>
  BY DEF vars, device, data, thread, line
<1>2. UNCHANGED <<call, calls, faults, hurried, overlap>>
  BY DEF vars, history
<1>3. TypeInv'
  BY TypeStutter DEF SafeInv
<1>4. CtlInv'
  BY <1>1, <1>2 DEF SafeInv, CtlInv, OpsOK, Alone, OneDriver, ExitOK, CancelOK, PrevOK, FirstOK
<1>5. (Orderly' <=> Orderly) /\ (InitOK' <=> InitOK) /\ (StopOK' <=> StopOK) /\ (Quiet' <=> Quiet)
  BY <1>1, <1>2 DEF Orderly, InitOK, Initing, Fresh, StopOK, Quiet
<1>6. ASSUME NEW a \in Axes, AxisOK(a) PROVE AxisOK(a)'
  <2>1. (R(a)' <=> R(a)) /\ (Away(a)' <=> Away(a))
    BY <1>1, <1>2 DEF R, Away
  <2>2. SampleOK(a)' /\ \A c \in Callers : (Busy(c)' <=> Busy(c))
    BY <1>1, <1>2, <1>6, <2>1 DEF AxisOK, SampleOK, Busy
  <2>3. \A c \in Callers : CallOK(a, c)'
    BY <1>1, <1>2, <1>6, <2>1 DEF AxisOK, CallOK
  <2> QED BY <1>5, <1>6, <2>1, <2>2, <2>3 DEF AxisOK
<1>7. RestInv'
  BY <1>5, <1>6 DEF SafeInv, RestInv
<1> QED BY <1>3, <1>4, <1>7 DEF SafeInv

LEMMA SafeNext == ASSUME SafeInv, [Next]_vars PROVE SafeInv'
<1>1. CASE Next
  BY <1>1, TypeNext, CtlNext, RestNext DEF SafeInv
<1>2. CASE UNCHANGED vars
  BY <1>2, SafeStutter
<1> QED BY <1>1, <1>2

LEMMA SafeImplies == SafeInv => StoppedMeansRest /\ SyncMeetsRest
<1>1. ASSUME SafeInv, Orderly, NEW a \in Axes, \A c \in Callers : call[c].op \notin Driving,
             state[a] = "STOPPED"
      PROVE  mot[a] = goal[a] \/ hurried[a]
  <2>1. \A c \in Callers : ~Busy(c)
    BY <1>1 DEF SafeInv, CtlInv, OpsOK, Shape, Busy, Driving, Moving
  <2>2. Away(a)
    BY <1>1, <2>1 DEF SafeInv, RestInv, AxisOK
  <2> QED BY <1>1, <2>2 DEF Away, R
<1>2. ASSUME SafeInv, Orderly, NEW c \in Callers, call[c].pc = "sync", NEW a \in call[c].todo
      PROVE  mot[a] = goal[a] \/ hurried[a]
  <2>1. a \in Axes
    BY <1>2 DEF SafeInv, TypeInv, Types, CallTypes, CallRecords
  <2> QED BY <1>2, <2>1 DEF SafeInv, RestInv, AxisOK, Quiet, Ended, R
<1> QED BY <1>1, <1>2 DEF StoppedMeansRest, SyncMeetsRest

\* In every behaviour without failures and overlaps an axis that getMountData
\* gives as STOPPED is at rest, unless its last move was hurried.
THEOREM StoppedIsRest == Spec => []StoppedMeansRest
<1>1. SafeInv /\ [Next]_vars => SafeInv'
  BY SafeNext
<1> QED BY <1>1, SafeInit, SafeImplies, PTL DEF Spec

\* In every behaviour without failures and overlaps updateMotorPos sets the
\* motors of axes at rest only, unless their last move was hurried.
THEOREM SyncAtRest == Spec => []SyncMeetsRest
<1>1. SafeInv /\ [Next]_vars => SafeInv'
  BY SafeNext
<1> QED BY <1>1, SafeInit, SafeImplies, PTL DEF Spec

-----------------------------------------------------------------------------
(* The line that a cancelled thread has taken with it. *)

OrphanStep == Orphaned => Orphaned' /\ UNCHANGED goal

LEMMA OrphanNext == ASSUME TypeInv, Next PROVE OrphanStep
<1> SUFFICES ASSUME Orphaned PROVE Orphaned' /\ UNCHANGED goal
  BY DEF OrphanStep
<1>1. mntmutex = Mount /\ mpc # "in" /\ ~Free
  BY SidAssumption DEF Orphaned, Free
<1>2. CASE MountThread
  BY <1>1, <1>2 DEF MountThread, ThreadStarts, ThreadLoops, ThreadLocks, ThreadAnswered,
     ThreadJudges, ThreadDies, ThreadGoes, Orphaned, device, line
<1>3. ASSUME NEW a \in Axes, Moves(a) PROVE Orphaned' /\ UNCHANGED goal
  BY <1>1, <1>3 DEF Moves, Orphaned, thread, line
<1>4. ASSUME NEW c \in Callers, CallStep(c) PROVE Orphaned' /\ UNCHANGED goal
  <2>1. ~Target(c)
    BY <1>1, SidAssumption DEF Target, TypeInv, LineOK
  <2> QED BY <1>1, <1>4, <2>1 DEF CallStep, CorrectReads, CorrectSets, Update, Sync, SyncEnds,
        Send, SlewReads, SlewSets, SetStop, Stop, StopEnds, Close, Cancel, Join, Ask, Ready,
        Orphaned, device, thread, line
<1>5. ASSUME NEW c \in Callers, Calls(c) \/ Quits(c) \/ Inits(c)
      PROVE  Orphaned' /\ UNCHANGED goal
  BY <1>1, <1>5 DEF Calls, Quits, Inits, Orphaned, device, thread, line
<1> QED BY <1>2, <1>3, <1>4, <1>5 DEF Next

\* closeSerial: a quit that cancels the mount thread in the middle of its exchange
\* locks the line for ever, through every init that follows; no command, and no stop
\* either, reaches the mount again.
THEOREM OrphanIsForever == Spec => [][OrphanStep]_vars
<1>1. TypeInv /\ [Next]_vars => [OrphanStep]_vars
  BY OrphanNext
<1>2. TypeInv /\ [Next]_vars => TypeInv'
  BY TypeNext
<1> QED BY TypeInit, <1>1, <1>2, PTL DEF Spec
=============================================================================
