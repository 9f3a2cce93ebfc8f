---------------------------- MODULE DomePollProps ----------------------------
(* What dome_poll and its machine are relied upon for. *)
EXTENDS DomePoll

\* dome_poll keeps what DomeCall promises to its callers.
Stage(pc) ==
  CASE pc \in {"motors", "cmd"} -> "held"
    [] pc \in {"status", "poweroff", "ret"} -> "sent"
    [] OTHER -> pc
Abstract(k) ==
  [pc |-> Stage(k.pc), do |-> k.do, ok |-> k.pc = "done" /\ k.ret # "DOME_S_ERROR",
   obeyed |-> k.obeyed]
Promise == INSTANCE DomeCall WITH
  holder <- serialmutex, request <- [t \in Threads |-> Abstract(call[t])]
KeepsPromise == Promise!CallSpec

\* The serial line belongs to one call at a time: whoever is between lock and
\* unlock is the holder of serialmutex, and a free lock means nobody is there.
LineIsExclusive ==
  \A t \in Threads : call[t].pc \in Inside <=> serialmutex = t

\* The pause of chkrelay never outlives the motion it belongs to: its statics
\* say "pause running" only while the machine is MOVING.
PauseOnlyWhileMoving == oldstate = "DOME_S_IDLE" => state = "DOME_S_MOVING"

\* The machine's state and the motor relay agree ("idle, motors disabled",
\* "moving, motors enabled" in dome.h) until an exchange fails, unless the
\* callers switch that relay by hand.
MotRelayByHand == \E k \in Commands : k.cmd \in RelayCmds /\ k.par = MotRelay
StateMatchesRelay ==
  ~faulted /\ ~MotRelayByHand => (state = "DOME_S_MOVING" <=> relay[MotRelay])

\* chkrelay takes the power from a cover that is being moved only if the
\* motion was ordered while the pause of the motion before it was running.
\* ("OK, we are on place - turn off motors' power after 5 seconds", dome.c:163.)
Cut == \E t \in Threads : call[t].pc = "poweroff" /\ relay[MotRelay] /\ ~relay'[MotRelay]
CutOnlyAtRest == [][Cut => AtRest]_pollVars
CutOnlyAtRestOrPaused == [][Cut => AtRest \/ paused]_pollVars

\* A caller that is told no error had its command obeyed, until an exchange fails.
SuccessMeansObeyed ==
  \A t \in Threads :
    call[t].pc = "done" /\ call[t].ret # "DOME_S_ERROR" /\ call[t].do # Poll
      => call[t].obeyed \/ faulted

\* A cover stands where an order sends it, or is on its way there.
Follows(c, d) == \/ cover[c] = Target(d) /\ drive[c] = "none"
                 \/ drive[c] = d /\ relay[MotRelay]

\* The roof does what it was last told, all of it: after an open or a close every
\* cover is at that end or on its way there with its motor powered, and after a stop
\* none is driven.  The exceptions are a failed exchange, the motor relay switched by
\* hand, and a motion ordered in the pause of the one before (CutOnlyAtRestOrPaused).
RoofObeys ==
  ~faulted /\ ~MotRelayByHand /\ ~paused =>
    /\ order = "DOME_OPEN"  => \A c \in Covers : Follows(c, "opening")
    /\ order = "DOME_CLOSE" => \A c \in Covers : Follows(c, "closing")
    /\ order = "DOME_STOP"  => AtRest

\* A call that waits for the lock returns.
CallsReturn == \A t \in Threads : call[t].pc = "wait" ~> call[t].pc \in {"done", "out"}

\* "turn off motors' power after 5 seconds": the motors of a roof that stands at
\* its ends do not stay powered, whatever is ordered meanwhile.
PowerIsTurnedOff == state = "DOME_S_MOVING" ~> state = "DOME_S_IDLE" \/ StillMoving
=============================================================================
