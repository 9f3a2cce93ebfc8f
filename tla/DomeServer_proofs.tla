-------------------------- MODULE DomeServer_proofs --------------------------
(***************************************************************************)
(* Proofs about the interlock of domedaemon-astrosib, for any number of    *)
(* client threads, any set of requests and any time limits.                *)
(***************************************************************************)
EXTENDS DomeServerProps, TLAPS

\* DEFs that every step needs.
USE DEF callVars, flagVars, mainVars, skyVars, history, vars

-----------------------------------------------------------------------------
(* The inductive invariant. *)

\* A handler is in dome_poll exactly while it is busy, with its own command, and
\* that command is never the poll.
HandlerInv ==
  \A h \in Handlers :
    /\ handler[h].pc = "busy" <=> request[h].pc # "out"
    /\ handler[h].pc = "busy" => request[h].do = handler[h].do
    /\ handler[h].pc # "idle" => handler[h].do.cmd # "DOME_POLL"

\* The main loop is in dome_poll exactly while it polls or closes.
MainInv ==
  /\ mainpc \in {"polling", "closing"} <=> request[Main].pc # "out"
  /\ mainpc = "polling" => request[Main].do = Poll
  /\ mainpc = "closing" => request[Main].do = Close
  /\ \A t \in Threads : request[t].pc = "held" => request[t].do.cmd # "DOME_POLL"

\* Nobody is late after a flag that is down, and whoever was late has been
\* through dome_poll and would have to pass CHKALLOWED again.
LateInv ==
  /\ ~ForbidObservations => late.forbid = {}
  /\ ~BadWeather => late.weather = {}
  /\ \A h \in late.forbid : handler[h].pc # "weather?" /\ ~Admitted(h)
  /\ \A h \in late.weather : ~Admitted(h)

\* From the moment the device has obeyed the main loop's close to the moment the
\* main loop notes it, and while it is noted.
CloseSent == cmdclosed \/ (mainpc = "closing" /\ request[Main].pc \in {"sent", "done"})
CloseInv ==
  CloseSent => /\ \/ order = "DOME_CLOSE"
                  \/ lowered \/ faulted
                  \/ late.forbid # {} \/ late.weather # {}
               /\ Forbidden \/ lowered \/ faulted

IInv == TypeOK /\ HandlerInv /\ MainInv /\ LateInv /\ CloseInv

-----------------------------------------------------------------------------
LEMMA PollCommand == Poll \in Commands /\ Close \in Commands /\ Poll.cmd = "DOME_POLL"
                     /\ Close.cmd = "DOME_CLOSE"
BY ServerAssumption DEF Poll, Close

-----------------------------------------------------------------------------
(* Type correctness: every variable keeps its set of values. *)

\* CallTypeOK is inductive for the steps of DomeCall.
LEMMA CallTypes ==
  ASSUME CallTypeOK,
         \/ \E t \in Threads : Lock(t) \/ Send(t) \/ Answer(t) \/ Take(t)
                                 \/ \E k \in Commands : Enter(t, k)
         \/ Stumble \/ Reset
  PROVE  CallTypeOK'
<1> USE PollCommand DEF CallTypeOK, Idle
<1>1. ASSUME NEW t \in Threads, Lock(t) PROVE CallTypeOK'
  BY <1>1 DEF Lock
<1>2. ASSUME NEW t \in Threads, Send(t) PROVE CallTypeOK'
  BY <1>2 DEF Send, Blame
<1>3. ASSUME NEW t \in Threads, Answer(t) PROVE CallTypeOK'
  BY <1>3 DEF Answer
<1>4. ASSUME NEW t \in Threads, Take(t) PROVE CallTypeOK'
  BY <1>4 DEF Take
<1>5. ASSUME NEW t \in Threads, NEW k \in Commands, Enter(t, k) PROVE CallTypeOK'
  BY <1>5 DEF Enter
<1>6. CASE Stumble
  BY <1>6 DEF Stumble, Blame
<1>7. CASE Reset
  BY <1>7 DEF Reset
<1> QED BY <1>1, <1>2, <1>3, <1>4, <1>5, <1>6, <1>7

LEMMA TypeInit == ASSUME Init PROVE TypeOK
<1> USE PollCommand, ServerAssumption DEF Init
<1>1. CallTypeOK
  BY DEF CallInit, CallTypeOK, Idle
<1>2. handler \in [Handlers -> [pc : {"idle", "forbid?", "weather?", "run", "busy"},
                               do : Commands]]
  BY DEF NoRequest
<1>3. tweather \in 0..(WeatherLost + 1) /\ weatherAge \in 0..(WeatherLost + 1)
  OBVIOUS
<1>4. weather \in [there : BOOLEAN, bad : BOOLEAN]
  BY Zenon
<1>5. late \in [forbid : SUBSET Handlers, weather : SUBSET Handlers]
  OBVIOUS
<1> QED BY <1>1, <1>2, <1>3, <1>4, <1>5 DEF TypeOK

LEMMA TypeStep == ASSUME TypeOK, [Next]_vars PROVE TypeOK'
<1> USE PollCommand, ServerAssumption DEF TypeOK
<1>1. CASE MainStep
  <2>1. CASE MainWeather
    <3>1. CallTypeOK'
      BY <2>1 DEF MainWeather, CallTypeOK
    <3>2. BadWeather' \in BOOLEAN /\ lowered' \in BOOLEAN
      BY <2>1 DEF MainWeather, Verdict
    <3>3. tweather' \in 0..(WeatherLost + 1)
      BY <2>1 DEF MainWeather
    <3>4. late' \in [forbid : SUBSET Handlers, weather : SUBSET Handlers]
      BY <2>1 DEF MainWeather, LateAfter
    <3> QED BY <2>1, <3>1, <3>2, <3>3, <3>4 DEF MainWeather
  <2>2. CASE MainPoll
    <3>1. CallTypeOK'
      BY <2>2, CallTypes DEF MainPoll
    <3> QED BY <2>2, <3>1 DEF MainPoll
  <2>3. CASE MainPolled
    <3>1. CallTypeOK'
      BY <2>3, CallTypes DEF MainPolled
    <3> QED BY <2>3, <3>1 DEF MainPolled
  <2>4. CASE MainCheck
    <3>1. CallTypeOK'
      <4>1. CASE Enter(Main, Close)
        BY <4>1, CallTypes
      <4>2. CASE UNCHANGED callVars
        BY <4>2 DEF CallTypeOK
      <4> QED BY <2>4, <4>1, <4>2 DEF MainCheck
    <3> QED BY <2>4, <3>1 DEF MainCheck, Forbidden
  <2>5. CASE MainClosed
    <3>1. CallTypeOK'
      BY <2>5, CallTypes DEF MainClosed
    <3>2. request[Main].ok \in BOOLEAN
      BY DEF CallTypeOK
    <3> QED BY <2>5, <3>1, <3>2 DEF MainClosed
  <2> QED BY <1>1, <2>1, <2>2, <2>3, <2>4, <2>5 DEF MainStep
<1>2. ASSUME NEW h \in Handlers, HandlerStep(h) PROVE TypeOK'
  <2>1. CASE CheckForbid(h)
    BY <2>1 DEF CheckForbid, NoRequest, CallTypeOK
  <2>2. CASE CheckWeather(h)
    BY <2>2 DEF CheckWeather, NoRequest, CallTypeOK
  <2>3. CASE CallPoll(h)
    <3>1. handler[h].do \in Commands
      OBVIOUS
    <3>2. CallTypeOK'
      BY <2>3, <3>1, CallTypes DEF CallPoll
    <3> QED BY <2>3, <3>2 DEF CallPoll
  <2>4. CASE Reply(h)
    <3>1. CallTypeOK'
      BY <2>4, CallTypes DEF Reply
    <3> QED BY <2>4, <3>1 DEF Reply, NoRequest
  <2> QED BY <1>2, <2>1, <2>2, <2>3, <2>4 DEF HandlerStep
<1>3. ASSUME NEW h \in Handlers, NEW k \in Requests, Receive(h, k) PROVE TypeOK'
  BY <1>3 DEF Receive, Requests, CallTypeOK
<1>4. ASSUME NEW t \in Threads, LockStep(t) PROVE TypeOK'
  <2>1. CallTypeOK'
    BY <1>4, CallTypes DEF LockStep
  <2> QED BY <1>4, <2>1 DEF LockStep
<1>5. ASSUME NEW t \in Threads, SendStep(t) PROVE TypeOK'
  <2>1. CallTypeOK'
    BY <1>5, CallTypes DEF SendStep
  <2> QED BY <1>5, <2>1 DEF SendStep, LateAfter, Forbidden
<1>6. ASSUME NEW t \in Threads, AnswerStep(t) PROVE TypeOK'
  <2>1. CallTypeOK'
    BY <1>6, CallTypes DEF AnswerStep
  <2> QED BY <1>6, <2>1 DEF AnswerStep
<1>7. CASE StumbleStep
  <2>1. CallTypeOK'
    BY <1>7, CallTypes DEF StumbleStep
  <2> QED BY <1>7, <2>1 DEF StumbleStep
<1>8. ASSUME NEW F \in BOOLEAN, Signal(F) PROVE TypeOK'
  BY <1>8 DEF Signal, LateAfter, CallTypeOK
<1>9. CASE SkyChanges
  <2>1. weather' \in [there : BOOLEAN, bad : BOOLEAN]
    BY <1>9, Zenon DEF SkyChanges
  <2>2. weatherAge' \in 0..(WeatherLost + 1)
    <3>1. weatherAge' = 0 \/ weatherAge' = WeatherLost + 1
      BY <1>9, Zenon DEF SkyChanges
    <3> QED BY <3>1
  <2>3. CallTypeOK'
    BY <1>9 DEF SkyChanges, CallTypeOK
  <2> QED BY <1>9, <2>1, <2>2, <2>3 DEF SkyChanges
<1>10. CASE Tick
  BY <1>10 DEF Tick, Older, CallTypeOK
<1>11. CASE Restart
  <2>1. CallTypeOK'
    BY <1>11, CallTypes DEF Restart
  <2>2. handler' \in [Handlers -> [pc : {"idle", "forbid?", "weather?", "run", "busy"},
                                  do : Commands]]
    BY <1>11 DEF Restart, NoRequest
  <2>3. late' \in [forbid : SUBSET Handlers, weather : SUBSET Handlers]
    BY <1>11 DEF Restart
  <2>4. tweather' \in 0..(WeatherLost + 1)
    BY <1>11 DEF Restart
  <2> QED BY <1>11, <2>1, <2>2, <2>3, <2>4 DEF Restart
<1>12. CASE UNCHANGED vars
  BY <1>12 DEF CallTypeOK
<1> QED BY <1>1, <1>2, <1>3, <1>4, <1>5, <1>6, <1>7, <1>8, <1>9, <1>10, <1>11, <1>12 DEF Next

\* Every variable of the daemon keeps its set of values.
THEOREM ServerTypes == Spec => []TypeOK
<1>1. Init => TypeOK
  BY TypeInit
<1>2. TypeOK /\ [Next]_vars => TypeOK'
  BY TypeStep
<1> QED BY <1>1, <1>2, PTL DEF Spec

-----------------------------------------------------------------------------
(* The parts of the inductive invariant, each for the step of every action. *)

LEMMA HandlerInvStep ==
  ASSUME TypeOK, HandlerInv, [Next]_vars PROVE HandlerInv'
<1> SUFFICES ASSUME NEW x \in Handlers PROVE HandlerInv!(x)'
  BY DEF HandlerInv
<1> USE ServerAssumption DEF TypeOK, CallTypeOK, HandlerInv
<1>0. x # Main /\ x \in Threads
  OBVIOUS
<1>1. CASE MainStep
  <2>1. request'[x] = request[x]
    BY <1>0, <1>1 DEF MainStep, MainWeather, MainPoll, MainPolled, MainCheck, MainClosed,
                      Enter, Take
  <2>2. handler' = handler
    BY <1>1 DEF MainStep, MainWeather, MainPoll, MainPolled, MainCheck, MainClosed
  <2> QED BY <2>1, <2>2
<1>2. ASSUME NEW h \in Handlers, HandlerStep(h) PROVE HandlerInv!(x)'
  <2>1. CASE CheckForbid(h)
    BY <2>1 DEF CheckForbid, NoRequest
  <2>2. CASE CheckWeather(h)
    BY <2>2 DEF CheckWeather, NoRequest
  <2>3. CASE CallPoll(h)
    <3>1. CASE x = h
      <4>1. handler[h].do.cmd # "DOME_POLL"
        BY <2>3 DEF CallPoll
      <4>2. request'[h].pc = "wait" /\ request'[h].do = handler[h].do
        <5>1. request' = [request EXCEPT ![h] = [Idle EXCEPT !.pc = "wait",
                                                            !.do = handler[h].do]]
          BY <2>3, <4>1, Zenon DEF CallPoll, Enter
        <5> QED BY <1>0, <3>1, <5>1 DEF Idle
      <4>3. handler'[h].pc = "busy" /\ handler'[h].do = handler[h].do
        BY <2>3 DEF CallPoll
      <4> QED BY <3>1, <4>1, <4>2, <4>3
    <3>2. CASE x # h
      BY <1>0, <2>3, <3>2 DEF CallPoll, Enter
    <3> QED BY <3>1, <3>2
  <2>4. CASE Reply(h)
    BY <2>4 DEF Reply, Take, Idle, NoRequest
  <2> QED BY <1>2, <2>1, <2>2, <2>3, <2>4 DEF HandlerStep
<1>3. ASSUME NEW h \in Handlers, NEW k \in Requests, Receive(h, k) PROVE HandlerInv!(x)'
  BY <1>3 DEF Receive, Requests
<1>4. ASSUME NEW t \in Threads, LockStep(t) PROVE HandlerInv!(x)'
  BY <1>0, <1>4 DEF LockStep, Lock
<1>5. ASSUME NEW t \in Threads, SendStep(t) PROVE HandlerInv!(x)'
  BY <1>0, <1>5 DEF SendStep, Send
<1>6. ASSUME NEW t \in Threads, AnswerStep(t) PROVE HandlerInv!(x)'
  BY <1>0, <1>6 DEF AnswerStep, Answer
<1>7. CASE StumbleStep
  BY <1>7 DEF StumbleStep, Stumble
<1>8. ASSUME NEW F \in BOOLEAN, Signal(F) PROVE HandlerInv!(x)'
  BY <1>8 DEF Signal
<1>9. CASE SkyChanges
  BY <1>9 DEF SkyChanges
<1>10. CASE Tick
  BY <1>10 DEF Tick
<1>11. CASE Restart
  BY <1>0, <1>11 DEF Restart, Reset, Idle, NoRequest
<1>12. CASE UNCHANGED vars
  BY <1>12
<1> QED BY <1>1, <1>2, <1>3, <1>4, <1>5, <1>6, <1>7, <1>8, <1>9, <1>10, <1>11, <1>12 DEF Next

\* What the beginning of a call makes of the requests.
LEMMA Entered ==
  ASSUME CallTypeOK, NEW t \in Threads, NEW k \in Commands, Enter(t, k)
  PROVE  /\ request'[t].pc \in {"wait", "done"} /\ request'[t].pc # "held"
         /\ request'[t].pc = "done" => k.cmd = "DOME_POLL"
         /\ k \in {Poll, Close} => request'[t].do = k
         /\ \A u \in Threads \ {t} : request'[u] = request[u]
         /\ order' = order /\ faulted' = faulted
<1> USE DEF CallTypeOK
<1>1. CASE request' = [request EXCEPT ![t] = [Idle EXCEPT !.pc = "wait", !.do = k]]
  BY <1>1 DEF Enter, Idle
<1>2. CASE /\ k.cmd = "DOME_POLL"
           /\ request' = [request EXCEPT ![t] = [Idle EXCEPT !.pc = "done", !.ok = TRUE]]
  <2>1. /\ request'[t].pc = "done" /\ request'[t].do = Poll
        /\ \A u \in Threads \ {t} : request'[u] = request[u]
    BY <1>2 DEF Idle
  <2>2. k \in {Poll, Close} => k = Poll
    BY <1>2 DEF Close
  <2> QED BY <1>2, <2>1, <2>2 DEF Enter
<1> QED BY <1>1, <1>2 DEF Enter

LEMMA MainInvStep ==
  ASSUME TypeOK, HandlerInv, MainInv, [Next]_vars PROVE MainInv'
<1> USE ServerAssumption, PollCommand DEF TypeOK
<1>0. Main \in Threads /\ \A h \in Handlers : h # Main /\ h \in Threads
  OBVIOUS
<1>1. CASE MainStep
  <2>1. CASE MainWeather
    BY <2>1 DEF MainWeather, MainInv
  <2>2. CASE MainPoll
    <3>1. Enter(Main, Poll) /\ mainpc' = "polling"
      BY <2>2 DEF MainPoll
    <3> QED BY <1>0, <3>1, Entered DEF MainInv
  <2>3. CASE MainPolled
    BY <1>0, <2>3 DEF MainPolled, Take, Idle, MainInv, CallTypeOK
  <2>4. CASE MainCheck
    <3>1. CASE mainpc' = "closing" /\ Enter(Main, Close)
      BY <1>0, <3>1, Entered DEF MainInv
    <3>2. CASE mainpc' = "weather" /\ UNCHANGED callVars
      BY <2>4, <3>2 DEF MainCheck, MainInv
    <3> QED BY <2>4, <3>1, <3>2 DEF MainCheck
  <2>5. CASE MainClosed
    BY <1>0, <2>5 DEF MainClosed, Take, Idle, MainInv, CallTypeOK
  <2> QED BY <1>1, <2>1, <2>2, <2>3, <2>4, <2>5 DEF MainStep
<1>2. ASSUME NEW h \in Handlers, HandlerStep(h) PROVE MainInv'
  <2>1. CASE CheckForbid(h)
    BY <2>1 DEF CheckForbid, MainInv
  <2>2. CASE CheckWeather(h)
    BY <2>2 DEF CheckWeather, MainInv
  <2>3. CASE CallPoll(h)
    <3>1. Enter(h, handler[h].do) /\ UNCHANGED mainpc /\ handler[h].do \in Commands
      BY <2>3 DEF CallPoll
    <3> QED BY <1>0, <3>1, Entered DEF MainInv
  <2>4. CASE Reply(h)
    BY <1>0, <2>4 DEF Reply, Take, Idle, MainInv, CallTypeOK
  <2> QED BY <1>2, <2>1, <2>2, <2>3, <2>4 DEF HandlerStep
<1>3. ASSUME NEW h \in Handlers, NEW k \in Requests, Receive(h, k) PROVE MainInv'
  BY <1>3 DEF Receive, MainInv
<1>4. ASSUME NEW t \in Threads, LockStep(t) PROVE MainInv'
  BY <1>0, <1>4 DEF LockStep, Lock, MainInv, CallTypeOK
<1>5. ASSUME NEW t \in Threads, SendStep(t) PROVE MainInv'
  BY <1>0, <1>5 DEF SendStep, Send, MainInv, CallTypeOK
<1>6. ASSUME NEW t \in Threads, AnswerStep(t) PROVE MainInv'
  BY <1>0, <1>6 DEF AnswerStep, Answer, MainInv, CallTypeOK
<1>7. CASE StumbleStep
  BY <1>7 DEF StumbleStep, Stumble, MainInv
<1>8. ASSUME NEW F \in BOOLEAN, Signal(F) PROVE MainInv'
  BY <1>8 DEF Signal, MainInv
<1>9. CASE SkyChanges
  BY <1>9 DEF SkyChanges, MainInv
<1>10. CASE Tick
  BY <1>10 DEF Tick, MainInv
<1>11. CASE Restart
  BY <1>0, <1>11 DEF Restart, Reset, Idle, MainInv
<1>12. CASE UNCHANGED vars
  BY <1>12 DEF MainInv
<1> QED BY <1>1, <1>2, <1>3, <1>4, <1>5, <1>6, <1>7, <1>8, <1>9, <1>10, <1>11, <1>12 DEF Next

LEMMA LateInvStep ==
  ASSUME TypeOK, HandlerInv, LateInv, [Next]_vars PROVE LateInv'
<1> USE ServerAssumption DEF TypeOK
<1>0. \A h \in Handlers : h # Main /\ h \in Threads
  OBVIOUS
<1>1. CASE MainStep
  <2>1. handler' = handler /\ \A h \in Handlers : request'[h] = request[h]
    BY <1>0, <1>1 DEF MainStep, MainWeather, MainPoll, MainPolled, MainCheck, MainClosed,
                      Enter, Take, CallTypeOK
  <2>2. CASE MainWeather
    BY <2>1, <2>2 DEF MainWeather, LateAfter, LateInv, Admitted
  <2>3. CASE UNCHANGED <<flagVars, late>>
    BY <2>1, <2>3 DEF LateInv, Admitted
  <2> QED BY <1>1, <2>2, <2>3 DEF MainStep, MainPoll, MainPolled, MainCheck, MainClosed
<1>2. ASSUME NEW h \in Handlers, HandlerStep(h) PROVE LateInv'
  <2>1. CASE CheckForbid(h)
    BY <2>1 DEF CheckForbid, NoRequest, LateInv, Admitted
  <2>2. CASE CheckWeather(h)
    BY <2>2 DEF CheckWeather, NoRequest, LateInv, Admitted
  <2>3. CASE CallPoll(h)
    BY <1>0, <2>3 DEF CallPoll, Enter, LateInv, Admitted, CallTypeOK
  <2>4. CASE Reply(h)
    BY <1>0, <2>4 DEF Reply, Take, NoRequest, LateInv, Admitted, CallTypeOK
  <2> QED BY <1>2, <2>1, <2>2, <2>3, <2>4 DEF HandlerStep
<1>3. ASSUME NEW h \in Handlers, NEW k \in Requests, Receive(h, k) PROVE LateInv'
  BY <1>3 DEF Receive, LateInv, Admitted
<1>4. ASSUME NEW t \in Threads, LockStep(t) PROVE LateInv'
  BY <1>0, <1>4 DEF LockStep, Lock, LateInv, Admitted, CallTypeOK
<1>5. ASSUME NEW t \in Threads, SendStep(t) PROVE LateInv'
  <2>1. handler' = handler /\ \A h \in Handlers \ {t} : request'[h] = request[h]
    BY <1>0, <1>5 DEF SendStep, Send, CallTypeOK
  <2>2. t \in Handlers => ~Admitted(t)' /\ handler[t].pc = "busy"
    BY <1>0, <1>5 DEF SendStep, Send, Admitted, HandlerInv, CallTypeOK
  <2>3. late' = LateAfter(ForbidObservations, BadWeather,
                          IF Restricted(request[t].do) THEN {t} \cap Handlers ELSE {})
    BY <1>5 DEF SendStep
  <2>4. UNCHANGED flagVars
    BY <1>5 DEF SendStep
  <2> QED BY <2>1, <2>2, <2>3, <2>4 DEF LateAfter, LateInv, Admitted
<1>6. ASSUME NEW t \in Threads, AnswerStep(t) PROVE LateInv'
  BY <1>0, <1>6 DEF AnswerStep, Answer, LateInv, Admitted, CallTypeOK
<1>7. CASE StumbleStep
  BY <1>7 DEF StumbleStep, Stumble, LateInv, Admitted
<1>8. ASSUME NEW F \in BOOLEAN, Signal(F) PROVE LateInv'
  BY <1>8 DEF Signal, LateAfter, LateInv, Admitted
<1>9. CASE SkyChanges
  BY <1>9 DEF SkyChanges, LateInv, Admitted
<1>10. CASE Tick
  BY <1>10 DEF Tick, LateInv, Admitted
<1>11. CASE Restart
  BY <1>11 DEF Restart, LateInv
<1>12. CASE UNCHANGED vars
  BY <1>12 DEF LateInv, Admitted
<1> QED BY <1>1, <1>2, <1>3, <1>4, <1>5, <1>6, <1>7, <1>8, <1>9, <1>10, <1>11, <1>12 DEF Next

\* A flag that goes up or down keeps CloseInv: the history notices one that
\* goes down, and nobody was late after one that was down.
LEMMA FlagsMove ==
  ASSUME TypeOK, LateInv, CloseInv, UNCHANGED <<order, faulted, CloseSent>>,
         ForbidObservations' \in BOOLEAN, BadWeather' \in BOOLEAN,
         late' = LateAfter(ForbidObservations', BadWeather', {}),
         lowered' = (lowered \/ (ForbidObservations /\ ~ForbidObservations')
                             \/ (BadWeather /\ ~BadWeather'))
  PROVE  CloseInv'
<1> USE DEF TypeOK
<1>1. CASE ~CloseSent
  BY <1>1 DEF CloseInv
<1>2. CASE lowered'
  BY <1>2 DEF CloseInv
<1>3. CASE CloseSent /\ ~lowered'
  <2>1. late' = late
    BY <1>3 DEF LateAfter, LateInv
  <2>2. ~lowered /\ (Forbidden => Forbidden')
    BY <1>3 DEF Forbidden
  <2> QED BY <1>3, <2>1, <2>2 DEF CloseInv
<1> QED BY <1>1, <1>2, <1>3

LEMMA CloseInvStep ==
  ASSUME TypeOK, HandlerInv, MainInv, LateInv, CloseInv, [Next]_vars PROVE CloseInv'
<1> USE ServerAssumption, PollCommand DEF TypeOK
<1>0. Main \in Threads /\ \A h \in Handlers : h # Main /\ h \in Threads
  OBVIOUS
<1>a. ASSUME CloseSent' => CloseSent, UNCHANGED <<order, flagVars, history>>, faulted => faulted'
      PROVE  CloseInv'
  BY <1>a DEF CloseInv, Forbidden
<1>1. CASE MainStep
  <2>1. CASE MainWeather
    <3>1. UNCHANGED <<order, faulted, CloseSent>>
      BY <2>1 DEF MainWeather, CloseSent, MainInv
    <3>2. CASE tweather > WeathPoll
      <4>1. BadWeather' \in BOOLEAN
        BY <2>1, TypeStep DEF MainStep, Next
      <4>2. UNCHANGED ForbidObservations
        BY <2>1 DEF MainWeather
      <4>3. late' = LateAfter(ForbidObservations', BadWeather', {})
        BY <2>1, <3>2, <4>2 DEF MainWeather
      <4>4. lowered' = (lowered \/ (BadWeather /\ ~BadWeather'))
        BY <2>1, <3>2 DEF MainWeather
      <4> QED BY <3>1, <4>1, <4>2, <4>3, <4>4, FlagsMove
    <3>3. CASE tweather <= WeathPoll
      BY <1>a, <2>1, <3>1, <3>3 DEF MainWeather
    <3> QED BY <3>2, <3>3
  <2>2. CASE MainPoll
    <3>1. ~(mainpc = "closing") /\ ~(mainpc' = "closing") /\ UNCHANGED cmdclosed
      BY <2>2 DEF MainPoll
    <3> QED BY <1>a, <2>2, <3>1 DEF MainPoll, Enter, CloseSent
  <2>3. CASE MainPolled
    BY <1>a, <2>3 DEF MainPolled, Take, CloseSent
  <2>4. CASE MainCheck
    <3>1. CloseSent' => CloseSent
      <4>1. CASE mainpc' = "closing" /\ Enter(Main, Close) /\ UNCHANGED cmdclosed
        BY <1>0, <4>1, Entered DEF CloseSent
      <4>2. CASE mainpc' = "weather" /\ cmdclosed' = Forbidden /\ (Forbidden => cmdclosed)
        BY <4>2 DEF CloseSent
      <4> QED BY <2>4, <4>1, <4>2 DEF MainCheck
    <3>2. UNCHANGED <<order, faulted>>
      BY <2>4 DEF MainCheck, Enter
    <3> QED BY <1>a, <2>4, <3>1, <3>2 DEF MainCheck
  <2>5. CASE MainClosed
    BY <1>a, <2>5 DEF MainClosed, Take, CloseSent
  <2> QED BY <1>1, <2>1, <2>2, <2>3, <2>4, <2>5 DEF MainStep
<1>2. ASSUME NEW h \in Handlers, HandlerStep(h) PROVE CloseInv'
  <2>1. request'[Main] = request[Main] /\ UNCHANGED <<order, faulted>>
    BY <1>0, <1>2 DEF HandlerStep, CheckForbid, CheckWeather, CallPoll, Reply,
                      Enter, Take, CallTypeOK
  <2>2. UNCHANGED <<flagVars, mainVars, history>>
    BY <1>2 DEF HandlerStep, CheckForbid, CheckWeather, CallPoll, Reply
  <2> QED BY <1>a, <2>1, <2>2 DEF CloseSent
<1>3. ASSUME NEW h \in Handlers, NEW k \in Requests, Receive(h, k) PROVE CloseInv'
  BY <1>a, <1>3 DEF Receive, CloseSent
<1>4. ASSUME NEW t \in Threads, LockStep(t) PROVE CloseInv'
  <2>1. CloseSent' => CloseSent
    BY <1>0, <1>4 DEF LockStep, Lock, CloseSent, MainInv, CallTypeOK
  <2> QED BY <1>a, <1>4, <2>1 DEF LockStep, Lock
<1>5. ASSUME NEW t \in Threads, SendStep(t) PROVE CloseInv'
  <2>1. \/ faulted'
        \/ /\ request[t].do.cmd \in Orders => order' = request[t].do.cmd
           /\ request[t].do.cmd \notin Orders => order' = order
    BY <1>5 DEF SendStep, Send, Blame
  <2>2. faulted => faulted'
    BY <1>5 DEF SendStep, Send, Blame
  <2>3. UNCHANGED <<flagVars, mainVars>>
    BY <1>5 DEF SendStep
  <2>4. request[t].pc = "held" /\ request[t].do.cmd \in Cmds \ {"DOME_POLL"}
    BY <1>5 DEF SendStep, Send, MainInv, CallTypeOK
  <2>5. CASE t = Main
    <3>1. request[Main].do = Close
      BY <2>4, <2>5 DEF MainInv
    <3>2. order' = "DOME_CLOSE" \/ faulted'
      BY <2>1, <2>5, <3>1 DEF Orders, MoveCmds
    <3>3. lowered' = ~Forbidden
      BY <1>5, <2>5 DEF SendStep
    <3> QED BY <2>3, <3>2, <3>3 DEF CloseInv, Forbidden
  <2>6. CASE t # Main
    <3>1. t \in Handlers /\ UNCHANGED lowered
      BY <1>5, <2>6 DEF SendStep
    <3>2. CloseSent' = CloseSent
      BY <1>0, <1>5, <2>3, <2>6 DEF SendStep, Send, CloseSent, CallTypeOK
    <3>3. CASE Restricted(request[t].do)
      <4>1. late' = LateAfter(ForbidObservations, BadWeather, {t})
        <5>1. {t} \cap Handlers = {t}
          BY <3>1
        <5> QED BY <1>5, <3>3, <5>1 DEF SendStep
      <4>2. Forbidden => late'.forbid # {} \/ late'.weather # {}
        BY <4>1 DEF LateAfter, Forbidden
      <4> QED BY <2>2, <2>3, <3>1, <3>2, <4>2 DEF CloseInv, Forbidden
    <3>4. CASE ~Restricted(request[t].do)
      <4>1. order' \in {order, "DOME_CLOSE"} \/ faulted'
        BY <2>1, <2>4, <3>4 DEF Restricted, Cmds, Orders, MoveCmds, RelayCmds
      <4>2. late' = late
        BY <1>5, <3>4 DEF SendStep, LateAfter, LateInv
      <4> QED BY <2>2, <2>3, <3>1, <3>2, <4>1, <4>2 DEF CloseInv, Forbidden
    <3> QED BY <3>3, <3>4
  <2> QED BY <2>5, <2>6
<1>6. ASSUME NEW t \in Threads, AnswerStep(t) PROVE CloseInv'
  <2>1. CloseSent' => CloseSent
    BY <1>0, <1>6 DEF AnswerStep, Answer, CloseSent, CallTypeOK
  <2> QED BY <1>a, <1>6, <2>1 DEF AnswerStep, Answer
<1>7. CASE StumbleStep
  BY <1>a, <1>7 DEF StumbleStep, Stumble, Blame, CloseSent
<1>8. ASSUME NEW F \in BOOLEAN, Signal(F) PROVE CloseInv'
  <2>1. UNCHANGED <<order, faulted, CloseSent, BadWeather>>
    BY <1>8 DEF Signal, CloseSent
  <2> QED BY <1>8, <2>1, FlagsMove DEF Signal
<1>9. CASE SkyChanges
  BY <1>a, <1>9 DEF SkyChanges, CloseSent
<1>10. CASE Tick
  BY <1>a, <1>10 DEF Tick, CloseSent
<1>11. CASE Restart
  BY <1>11 DEF Restart, CloseInv, CloseSent
<1>12. CASE UNCHANGED vars
  BY <1>a, <1>12 DEF CloseSent
<1> QED BY <1>1, <1>2, <1>3, <1>4, <1>5, <1>6, <1>7, <1>8, <1>9, <1>10, <1>11, <1>12 DEF Next

-----------------------------------------------------------------------------
(* The inductive invariant and what it implies. *)

LEMMA InvInit == ASSUME Init PROVE IInv
<1>1. TypeOK
  BY TypeInit
<1>2. HandlerInv /\ MainInv
  BY ServerAssumption DEF Init, CallInit, Idle, NoRequest, HandlerInv, MainInv
<1>3. LateInv /\ CloseInv
  BY DEF Init, LateInv, CloseInv, CloseSent
<1> QED BY <1>1, <1>2, <1>3 DEF IInv

LEMMA Invariance == Spec => []IInv
<1>1. Init => IInv
  BY InvInit
<1>2. IInv /\ [Next]_vars => IInv'
  BY TypeStep, HandlerInvStep, MainInvStep, LateInvStep, CloseInvStep DEF IInv
<1> QED BY <1>1, <1>2, PTL DEF Spec

\* While a flag stays up a handler sends at most the one restricted command it
\* held when the flag went up (CHKALLOWED and the handlers of server.c).
THEOREM OneLateCommand == Spec => []AtMostOneLate
<1>1. IInv => AtMostOneLate
  BY DEF IInv, LateInv, AtMostOneLate
<1> QED BY <1>1, Invariance, PTL

\* While the main loop has its close noted as given, the device obeyed no other
\* order since, but for the exceptions CloseIsTheLastWord names (server_run).
THEOREM LastWord == Spec => []CloseIsTheLastWord
<1>1. IInv => CloseIsTheLastWord
  BY DEF IInv, CloseInv, CloseSent, CloseIsTheLastWord
<1> QED BY <1>1, Invariance, PTL

-----------------------------------------------------------------------------
(* The other side of the interface: the server uses dome_poll as DomeCall has it, *)
(* so that what implements DomeCall implements the dome_poll of this server.      *)

LEMMA CallsStep == ASSUME TypeOK, [Next]_vars PROVE [CallNext]_callVars
<1> USE ServerAssumption, PollCommand DEF TypeOK
<1>a. ASSUME NEW t \in Threads, NEW k \in Commands, Enter(t, k) PROVE CallNext
  BY <1>a DEF CallNext
<1>b. ASSUME NEW t \in Threads, CallStep(t) \/ Take(t) PROVE CallNext
  BY <1>b DEF CallNext
<1>1. CASE MainStep
  <2>1. Main \in Threads
    OBVIOUS
  <2>2. CASE MainWeather
    BY <2>2 DEF MainWeather
  <2>3. CASE MainPoll
    BY <1>a, <2>1, <2>3 DEF MainPoll
  <2>4. CASE MainPolled \/ MainClosed
    BY <1>b, <2>1, <2>4 DEF MainPolled, MainClosed
  <2>5. CASE MainCheck
    BY <1>a, <2>1, <2>5 DEF MainCheck
  <2> QED BY <1>1, <2>2, <2>3, <2>4, <2>5 DEF MainStep
<1>2. ASSUME NEW h \in Handlers, HandlerStep(h) PROVE [CallNext]_callVars
  <2>1. h \in Threads /\ handler[h].do \in Commands
    OBVIOUS
  <2>2. CASE CheckForbid(h) \/ CheckWeather(h)
    BY <2>2 DEF CheckForbid, CheckWeather
  <2>3. CASE CallPoll(h)
    BY <1>a, <2>1, <2>3 DEF CallPoll
  <2>4. CASE Reply(h)
    BY <1>b, <2>1, <2>4 DEF Reply
  <2> QED BY <1>2, <2>2, <2>3, <2>4 DEF HandlerStep
<1>3. ASSUME NEW t \in Threads, LockStep(t) \/ SendStep(t) \/ AnswerStep(t) PROVE CallNext
  BY <1>b, <1>3 DEF LockStep, SendStep, AnswerStep, CallStep
<1>4. CASE StumbleStep \/ Restart
  BY <1>4 DEF StumbleStep, Restart, CallNext
<1>5. CASE \/ \E h \in Handlers : \E k \in Requests : Receive(h, k)
           \/ \E F \in BOOLEAN : Signal(F)
           \/ SkyChanges \/ Tick \/ UNCHANGED vars
  BY <1>5 DEF Receive, Signal, SkyChanges, Tick
<1> QED BY <1>1, <1>2, <1>3, <1>4, <1>5 DEF Next

\* The main loop and the handlers call dome_poll as DomeCall lets them, one call per
\* thread, with well formed commands, and they assume nothing more of it.
THEOREM CallsAreDomeCalls == Spec => CallSpec
<1>1. Init => CallInit
  BY DEF Init
<1>2. TypeOK /\ [Next]_vars => [CallNext]_callVars
  BY CallsStep
<1> QED BY <1>1, <1>2, ServerTypes, PTL DEF Spec, CallSpec

-----------------------------------------------------------------------------
(* A ban and its close. *)

\* While the main loop closes, it has not noted a close.
ClosingInv == mainpc = "closing" => ~cmdclosed

LEMMA ClosingInvStep == ASSUME ClosingInv, [Next]_vars PROVE ClosingInv'
<1> USE DEF ClosingInv
<1>1. CASE MainStep
  BY <1>1 DEF MainStep, MainWeather, MainPoll, MainPolled, MainCheck, MainClosed
<1>2. ASSUME NEW h \in Handlers, HandlerStep(h) \/ \E k \in Requests : Receive(h, k)
      PROVE  ClosingInv'
  BY <1>2 DEF HandlerStep, CheckForbid, CheckWeather, CallPoll, Reply, Receive
<1>3. ASSUME NEW t \in Threads, LockStep(t) \/ SendStep(t) \/ AnswerStep(t) PROVE ClosingInv'
  BY <1>3 DEF LockStep, SendStep, AnswerStep
<1>4. CASE StumbleStep \/ SkyChanges \/ Tick \/ (\E F \in BOOLEAN : Signal(F))
           \/ UNCHANGED vars
  BY <1>4 DEF StumbleStep, SkyChanges, Tick, Signal
<1>5. CASE Restart
  BY <1>5 DEF Restart
<1> QED BY <1>1, <1>2, <1>3, <1>4, <1>5 DEF Next

\* The main loop forgets its close only when no flag is up, be it at a check or at a
\* restart (server_run, the block behind its dome_poll).
NotedForTheBan == [][cmdclosed /\ ~cmdclosed' => ~Forbidden']_vars

\* A ban that lasts is closed for once: the close that was noted stays noted, and the
\* main loop, which would do it again otherwise, leaves the line to the clients.
THEOREM CloseIsNotedForTheBan == Spec => NotedForTheBan
<1>1. Init => ClosingInv
  BY DEF Init, ClosingInv
<1>2. ClosingInv /\ [Next]_vars => ClosingInv'
  BY ClosingInvStep
<1>3. ASSUME ClosingInv, Next PROVE cmdclosed /\ ~cmdclosed' => ~Forbidden'
  <2>1. CASE MainStep
    <3>1. CASE MainWeather \/ MainPoll \/ MainPolled
      BY <3>1 DEF MainWeather, MainPoll, MainPolled
    <3>2. CASE MainCheck
      <4>1. CASE UNCHANGED cmdclosed
        BY <4>1
      <4>2. CASE cmdclosed' = Forbidden /\ UNCHANGED flagVars
        <5>1. Forbidden' = Forbidden
          BY <4>2 DEF Forbidden
        <5> QED BY <4>2, <5>1
      <4> QED BY <3>2, <4>1, <4>2 DEF MainCheck
    <3>3. CASE MainClosed
      BY <1>3, <3>3 DEF MainClosed, ClosingInv
    <3> QED BY <2>1, <3>1, <3>2, <3>3 DEF MainStep
  <2>2. ASSUME NEW h \in Handlers, HandlerStep(h) \/ \E k \in Requests : Receive(h, k)
        PROVE  UNCHANGED cmdclosed
    BY <2>2 DEF HandlerStep, CheckForbid, CheckWeather, CallPoll, Reply, Receive
  <2>3. ASSUME NEW t \in Threads, LockStep(t) \/ SendStep(t) \/ AnswerStep(t)
        PROVE  UNCHANGED cmdclosed
    BY <2>3 DEF LockStep, SendStep, AnswerStep
  <2>4. ASSUME StumbleStep \/ SkyChanges \/ Tick \/ (\E F \in BOOLEAN : Signal(F))
        PROVE  UNCHANGED cmdclosed
    BY <2>4 DEF StumbleStep, SkyChanges, Tick, Signal
  <2>5. CASE Restart
    BY <2>5 DEF Restart, Forbidden
  <2>6. CASE UNCHANGED cmdclosed
    BY <2>6
  <2> QED BY <1>3, <2>1, <2>2, <2>3, <2>4, <2>5, <2>6 DEF Next
<1>4. ClosingInv /\ [Next]_vars => [cmdclosed /\ ~cmdclosed' => ~Forbidden']_vars
  BY <1>3
<1> QED BY <1>1, <1>2, <1>4, PTL DEF Spec, NotedForTheBan
=============================================================================
