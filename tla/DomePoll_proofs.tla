--------------------------- MODULE DomePoll_proofs ---------------------------
(***************************************************************************)
(* Proofs about dome.c of domedaemon-astrosib, for any number of threads,  *)
(* covers and relays, any set of well formed commands and any time limits. *)
(***************************************************************************)
EXTENDS DomePollProps, TLAPS

USE DEF devVars, fsmVars, callVars, history, pollVars

-----------------------------------------------------------------------------
(* The inductive invariant. *)

\* What a call in progress has done so far.
CallInv ==
  \A t \in Threads :
    /\ call[t].pc \in {"wait", "motors", "cmd"} => ~call[t].obeyed
    /\ call[t].pc \in {"motors", "cmd"} => call[t].do.cmd # "DOME_POLL"
    /\ call[t].pc \in {"status", "poweroff", "ret", "done"} /\ call[t].do # Poll
         => call[t].obeyed \/ faulted
    /\ call[t].pc = "ret" => call[t].ret # "DOME_S_ERROR" \/ faulted
    /\ call[t].pc = "cmd" /\ call[t].do.cmd \in MoveCmds => relay[MotRelay]

\* Covers are driven only while the motors have power.
Powered == (\E c \in Covers : drive[c] # "none") => relay[MotRelay]

\* Once the pause has run for longer than a cover needs to leave its end, no
\* cover stands at an end and is driven, unless it was ordered in the pause.
PauseInv ==
  oldstate = "DOME_S_IDLE" /\ ~paused =>
    /\ t0 >= 1 => \A c \in Covers : Starting(c) => c \in lagging
    /\ t0 >= 2 => \A c \in Covers : ~Starting(c)

\* A call is about to switch the motors off.
PowerOffInv ==
  \A t \in Threads :
    call[t].pc = "poweroff" => /\ state = "DOME_S_MOVING"
                               /\ AtRest \/ paused

IInv ==
  /\ PollTypeOK /\ LineIsExclusive /\ PauseOnlyWhileMoving
  /\ CallInv /\ Powered /\ PauseInv /\ PowerOffInv /\ StateMatchesRelay

-----------------------------------------------------------------------------
(* Lemmas about the operators. *)

LEMMA Bounds ==
  /\ StatusMove \in Nat /\ StatusIdle \in Nat /\ PowerStop \in Nat
  /\ StatusMove < PowerStop /\ 1 < PowerStop
  /\ Faults \in BOOLEAN /\ Poll \in Commands /\ NoThread \notin Threads
BY PollAssumption

LEMMA CommandShape ==
  ASSUME NEW k \in Commands
  PROVE  /\ k.cmd \in Cmds
         /\ k.cmd = "DOME_POLL" <=> k = Poll
         /\ k.cmd \in RelayCmds => k.par \in Relays
BY PollAssumption DEF WellFormed, Poll

\* A command leaves each cover undriven, driven as before, or driven towards the
\* end it is not at.
LEMMA DriveShape ==
  ASSUME DevTypeOK, NEW cmd \in Cmds, NEW par
  PROVE  /\ DriveAfter(cmd, par) \in [Covers -> Drives]
         /\ cmd \notin MoveCmds =>
              \A c \in Covers : DriveAfter(cmd, par)[c] \in {"none", drive[c]}
<1> USE DEF DevTypeOK
<1> DEFINE D == DriveAfter(cmd, par)
<1>1. \A c \in Covers : D[c] \in Drives
  BY DEF DriveAfter, Towards, Drives
<1>2. D \in [Covers -> Drives]
  BY <1>1 DEF DriveAfter
<1>3. cmd \notin MoveCmds => \A c \in Covers : D[c] \in {"none", drive[c]}
  BY DEF DriveAfter, MoveCmds
<1> QED BY <1>2, <1>3

\* The device keeps its types.
LEMMA DevTypes ==
  ASSUME DevTypeOK,
         \/ \E cmd \in Cmds : \E par : Obey(cmd, par)
         \/ \E r \in Relays, on \in BOOLEAN : Switch(r, on)
         \/ \E c \in Covers : Travel(c)
         \/ DevTick
         \/ UNCHANGED devVars
  PROVE  DevTypeOK'
<1> USE DeviceAssumption DEF DevTypeOK
<1>1. ASSUME NEW cmd \in Cmds, NEW par, Obey(cmd, par) PROVE DevTypeOK'
  BY <1>1, DriveShape DEF Obey
<1>2. ASSUME NEW r \in Relays, NEW on \in BOOLEAN, Switch(r, on) PROVE DevTypeOK'
  <2>1. relay' \in [Relays -> BOOLEAN] /\ cover' \in [Covers -> Positions]
    BY <1>2 DEF Switch
  <2>2. drive' \in [Covers -> Drives] /\ lagging' \subseteq Covers
    BY <1>2 DEF Switch, Drives
  <2> QED BY <2>1, <2>2
<1>3. ASSUME NEW c \in Covers, Travel(c) PROVE DevTypeOK'
  BY <1>3 DEF Travel, Target, Positions, Drives
<1>4. CASE DevTick
  BY <1>4 DEF DevTick
<1>5. CASE UNCHANGED devVars
  BY <1>5
<1> QED BY <1>1, <1>2, <1>3, <1>4, <1>5

-----------------------------------------------------------------------------
(* Type correctness. *)

LEMMA PollTypeInit == ASSUME PollInit PROVE PollTypeOK
<1> USE Bounds DEF PollInit
<1>1. DevTypeOK
  BY DeviceAssumption DEF DevInit, DevTypeOK, Drives
<1>2. call \in [Threads -> [pc : PCs, do : Commands, ret : Results, obeyed : BOOLEAN]]
  BY DEF NoCall, PCs, Results
<1>3. t0 \in 0..PowerStop /\ statusAge \in 0..StatusIdle /\ interval \in {StatusIdle, StatusMove}
  OBVIOUS
<1> QED BY <1>1, <1>2, <1>3 DEF PollTypeOK, States

\* A failed exchange about the motor relay.
LEMMA RelayFailure ==
  ASSUME PollTypeOK, NEW on \in BOOLEAN, RelayExchangeFails(on)
  PROVE  /\ DevTypeOK' /\ statusAge' \in 0..StatusIdle
         /\ Faults = TRUE /\ faulted' = TRUE
         /\ UNCHANGED <<state, oldstate>>
<1>1. Switch(MotRelay, on) \/ UNCHANGED devVars
  BY Zenon DEF RelayExchangeFails
<1>2. DevTypeOK'
  <2>1. DevTypeOK
    BY DEF PollTypeOK
  <2> QED BY <1>1, <2>1, DevTypes, DeviceAssumption
<1>3. statusAge' = statusAge \/ statusAge' = 0
  BY DEF RelayExchangeFails
<1>4. statusAge \in 0..StatusIdle
  BY DEF PollTypeOK
<1>5. statusAge' \in 0..StatusIdle
  BY <1>3, <1>4, Bounds
<1>6. Faults = TRUE /\ faulted' = TRUE /\ UNCHANGED <<state, oldstate>>
  BY Bounds, Zenon DEF RelayExchangeFails
<1> QED BY <1>2, <1>5, <1>6

\* A step in which an exchange may fail.
LEMMA FaultTypes ==
  ASSUME faulted \in BOOLEAN, faulted => Faults,
         UNCHANGED faulted \/ (Faults /\ faulted' = TRUE)
  PROVE  faulted' \in BOOLEAN /\ (faulted' => Faults)
<1>1. CASE UNCHANGED faulted
  BY <1>1
<1>2. CASE Faults /\ faulted' = TRUE
  BY <1>2
<1> QED BY <1>1, <1>2

LEMMA PollTypeStep == ASSUME PollTypeOK, CallInv, [PollNext]_pollVars PROVE PollTypeOK'
<1> USE Bounds DEF PollTypeOK, States, Results, PCs
<1>1. ASSUME NEW t \in Threads, NEW k \in Commands, Enter(t, k) PROVE PollTypeOK'
  <2>1. call' \in [Threads -> [pc : PCs, do : Commands, ret : Results, obeyed : BOOLEAN]]
    BY <1>1 DEF Enter, NoCall
  <2> QED BY <1>1, <2>1, DevTypes DEF Enter
<1>2. ASSUME NEW t \in Threads, Lock(t) PROVE PollTypeOK'
  BY <1>2, DevTypes DEF Lock, Goto
<1>3. ASSUME NEW t \in Threads, MotorsOn(t) PROVE PollTypeOK'
  <2>1. UNCHANGED <<t0, interval, order, paused, serialmutex>>
    BY <1>3 DEF MotorsOn
  <2>2. /\ DevTypeOK' /\ statusAge' \in 0..StatusIdle /\ state' \in States
        /\ UNCHANGED oldstate /\ faulted' \in BOOLEAN /\ (faulted' => Faults)
    <3>1. CASE RelayExchangeFails(TRUE)
      BY <3>1, RelayFailure
    <3>2. CASE /\ Switch(MotRelay, TRUE) /\ state' = "DOME_S_MOVING" /\ statusAge' = 0
               /\ UNCHANGED <<oldstate, faulted>>
      <4>1. DevTypeOK'
        BY <3>2, DevTypes, DeviceAssumption
      <4>2. faulted' \in BOOLEAN /\ (faulted' => Faults)
        BY <3>2
      <4> QED BY <3>2, <4>1, <4>2
    <3> QED BY <1>3, <3>1, <3>2 DEF MotorsOn
  <2>3. call' \in [Threads -> [pc : PCs, do : Commands, ret : Results, obeyed : BOOLEAN]]
    <3>1. Goto(t, "cmd") \/ Goto(t, "status")
      BY <1>3, Zenon DEF MotorsOn
    <3> QED BY <3>1 DEF Goto
  <2> QED BY <2>1, <2>2, <2>3
<1>4. ASSUME NEW t \in Threads, RunCmd(t) PROVE PollTypeOK'
  <2>1. call[t].do \in Commands
    OBVIOUS
  <2>2. ASSUME Effect(call[t].do) PROVE DevTypeOK' /\ order' \in Orders \cup {"none"}
    <3>1. CASE call[t].do.cmd \in RelayCmds
      BY <2>1, <2>2, <3>1, CommandShape, DevTypes DEF Effect
    <3>2. CASE call[t].do.cmd \notin RelayCmds
      <4>1. call[t].do.cmd \in Cmds
        BY <2>1, CommandShape
      <4>2. Obey(call[t].do.cmd, call[t].do.par) /\ order' = call[t].do.cmd
        BY <2>2, <3>2 DEF Effect
      <4>3. DevTypeOK'
        BY <4>1, <4>2, DevTypes
      <4>4. call[t].do.cmd # "DOME_POLL"
        BY <1>4 DEF RunCmd, CallInv
      <4> QED BY <3>2, <4>1, <4>2, <4>3, <4>4 DEF Cmds, Orders
    <3> QED BY <3>1, <3>2
  <2>3. DevTypeOK' /\ order' \in Orders \cup {"none"}
    BY <1>4, <2>2, DevTypes DEF RunCmd
  <2>4. paused' \in BOOLEAN /\ faulted' \in BOOLEAN /\ (faulted' => Faults)
    <3>1. paused' = (paused \/ (oldstate = "DOME_S_IDLE" /\ call[t].do.cmd \in MoveCmds))
          \/ paused' = paused
      BY <1>4, Zenon DEF RunCmd
    <3>2. UNCHANGED faulted \/ (Faults /\ faulted' = TRUE)
      BY <1>4, Zenon DEF RunCmd
    <3>3. paused' \in BOOLEAN
      BY <3>1
    <3>4. faulted' \in BOOLEAN /\ (faulted' => Faults)
      BY <3>2, FaultTypes
    <3> QED BY <3>3, <3>4
  <2>5. call' \in [Threads -> [pc : PCs, do : Commands, ret : Results, obeyed : BOOLEAN]]
    BY <1>4 DEF RunCmd, Goto
  <2> QED BY <1>4, <2>3, <2>4, <2>5 DEF RunCmd
<1>5. ASSUME NEW t \in Threads, Status(t) PROVE PollTypeOK'
  <2>1. DevTypeOK'
    BY <1>5, DevTypes DEF Status
  <2>2. oldstate' \in States /\ t0' \in 0..PowerStop /\ paused' \in BOOLEAN
    <3>1. CASE ChkRelay(t)
      <4>1. oldstate' \in States
        BY <3>1 DEF ChkRelay
      <4>2. t0' = t0 \/ t0' = 0
        BY <3>1, Zenon DEF ChkRelay
      <4>3. paused' = paused \/ paused' = FALSE
        BY <3>1, Zenon DEF ChkRelay
      <4>4. t0' \in 0..PowerStop
        BY <4>2
      <4>5. paused' \in BOOLEAN
        BY <4>3
      <4> QED BY <4>1, <4>4, <4>5
    <3>2. CASE UNCHANGED <<oldstate, t0, paused>>
      BY <3>2
    <3> QED BY <1>5, <3>1, <3>2 DEF Status
  <2>4. faulted' \in BOOLEAN /\ (faulted' => Faults)
    <3>1. UNCHANGED faulted \/ (Faults /\ faulted' = TRUE)
      BY <1>5, Zenon DEF Status
    <3> QED BY <3>1, FaultTypes
  <2>5. statusAge' \in 0..StatusIdle
    BY <1>5 DEF Status
  <2>3. call' \in [Threads -> [pc : PCs, do : Commands, ret : Results, obeyed : BOOLEAN]]
    BY <1>5 DEF Status, ChkRelay, Goto
  <2> QED BY <1>5, <2>1, <2>2, <2>3, <2>4, <2>5 DEF Status
<1>6. ASSUME NEW t \in Threads, PowerOff(t) PROVE PollTypeOK'
  <2>1. UNCHANGED <<t0, interval, order, paused, serialmutex>>
    BY <1>6 DEF PowerOff
  <2>2. /\ DevTypeOK' /\ statusAge' \in 0..StatusIdle /\ state' \in States
        /\ oldstate' \in States /\ faulted' \in BOOLEAN /\ (faulted' => Faults)
    <3>1. CASE RelayExchangeFails(FALSE)
      BY <3>1, RelayFailure
    <3>2. CASE /\ Switch(MotRelay, FALSE) /\ state' = "DOME_S_IDLE" /\ statusAge' = 0
               /\ oldstate' = "DOME_S_MOVING" /\ UNCHANGED faulted
      <4>1. DevTypeOK'
        BY <3>2, DevTypes, DeviceAssumption
      <4>2. faulted' \in BOOLEAN /\ (faulted' => Faults)
        BY <3>2
      <4> QED BY <3>2, <4>1, <4>2
    <3> QED BY <1>6, <3>1, <3>2 DEF PowerOff
  <2>3. call' \in [Threads -> [pc : PCs, do : Commands, ret : Results, obeyed : BOOLEAN]]
    BY <1>6, <2>2 DEF PowerOff
  <2> QED BY <2>1, <2>2, <2>3
<1>7. ASSUME NEW t \in Threads, Return(t) PROVE PollTypeOK'
  BY <1>7, DevTypes DEF Return, Goto
<1>8. ASSUME NEW t \in Threads, Take(t) PROVE PollTypeOK'
  BY <1>8, DevTypes DEF Take, NoCall
<1>9. CASE PollTick
  BY <1>9, DevTypes DEF PollTick, Older
<1>10. CASE RoofMoves
  BY <1>10, DevTypes DEF RoofMoves
<1>11. CASE PollRestart
  <2>1. call' \in [Threads -> [pc : PCs, do : Commands, ret : Results, obeyed : BOOLEAN]]
    BY <1>11 DEF PollRestart, NoCall
  <2>2. DevTypeOK'
    BY <1>11, DevTypes DEF PollRestart
  <2>3. faulted' = TRUE /\ Faults = TRUE /\ paused' = FALSE /\ order' = order
    BY <1>11, Zenon DEF PollRestart
  <2>4. faulted' \in BOOLEAN /\ (faulted' => Faults)
    BY <2>3
  <2>5. t0' \in 0..PowerStop /\ statusAge' \in 0..StatusIdle
    BY <1>11 DEF PollRestart
  <2> QED BY <1>11, <2>1, <2>2, <2>3, <2>4, <2>5 DEF PollRestart
<1>12. CASE UNCHANGED pollVars
  BY <1>12, DevTypes
<1> QED BY <1>1, <1>2, <1>3, <1>4, <1>5, <1>6, <1>7, <1>8, <1>9, <1>10, <1>11, <1>12
        DEF PollNext, InsideStep

-----------------------------------------------------------------------------
(* The calls: what each has done, and who has the line. *)

\* A step between lock and unlock is one of the holder's; the others stay where
\* they are, outside.
LEMMA OthersOutside ==
  ASSUME PollTypeOK, LineIsExclusive, NEW t \in Threads, InsideStep(t)
  PROVE  /\ serialmutex = t /\ call[t].pc \in Inside
         /\ \A u \in Threads \ {t} : call'[u] = call[u] /\ call[u].pc \notin Inside
<1>1. call[t].pc \in Inside
  BY DEF InsideStep, MotorsOn, RunCmd, Status, PowerOff, Return, Inside
<1>2. serialmutex = t /\ \A u \in Threads \ {t} : call[u].pc \notin Inside
  BY <1>1 DEF LineIsExclusive
<1>3. \A u \in Threads \ {t} : call'[u] = call[u]
  BY DEF InsideStep, MotorsOn, RunCmd, Status, ChkRelay, PowerOff, Return, Goto, PollTypeOK
<1> QED BY <1>1, <1>2, <1>3

LEMMA LineStep ==
  ASSUME PollTypeOK, LineIsExclusive, [PollNext]_pollVars PROVE LineIsExclusive'
<1> USE Bounds DEF Inside
<1>1. ASSUME NEW t \in Threads, NEW k \in Commands, Enter(t, k) PROVE LineIsExclusive'
  BY <1>1 DEF Enter, NoCall, LineIsExclusive, PollTypeOK
<1>2. ASSUME NEW t \in Threads, Lock(t) PROVE LineIsExclusive'
  BY <1>2 DEF Lock, Goto, LineIsExclusive, PollTypeOK
<1>3. ASSUME NEW t \in Threads, InsideStep(t) PROVE LineIsExclusive'
  <2>1. CASE Return(t)
    BY <2>1 DEF Return, Goto, LineIsExclusive, PollTypeOK
  <2>2. CASE MotorsOn(t) \/ RunCmd(t) \/ Status(t) \/ PowerOff(t)
    <3>1. UNCHANGED serialmutex
      BY <2>2 DEF MotorsOn, RunCmd, Status, PowerOff
    <3>2. call'[t].pc \in Inside
      <4>1. CASE MotorsOn(t)
        BY <4>1 DEF MotorsOn, Goto, PollTypeOK
      <4>2. CASE RunCmd(t)
        BY <4>2 DEF RunCmd, Goto, PollTypeOK
      <4>3. CASE Status(t)
        BY <4>3 DEF Status, ChkRelay, Goto, PollTypeOK
      <4>4. CASE PowerOff(t)
        BY <4>4 DEF PowerOff, PollTypeOK
      <4> QED BY <2>2, <4>1, <4>2, <4>3, <4>4
    <3> QED BY <1>3, <3>1, <3>2, OthersOutside DEF LineIsExclusive
  <2> QED BY <1>3, <2>1, <2>2 DEF InsideStep
<1>4. ASSUME NEW t \in Threads, Take(t) PROVE LineIsExclusive'
  BY <1>4 DEF Take, NoCall, LineIsExclusive, PollTypeOK
<1>5. CASE PollTick \/ RoofMoves \/ UNCHANGED pollVars
  BY <1>5 DEF PollTick, RoofMoves, LineIsExclusive
<1>6. CASE PollRestart
  BY <1>6 DEF PollRestart, NoCall, LineIsExclusive
<1> QED BY <1>1, <1>2, <1>3, <1>4, <1>5, <1>6 DEF PollNext

LEMMA CallInvStep ==
  ASSUME PollTypeOK, LineIsExclusive, CallInv, [PollNext]_pollVars PROVE CallInv'
<1> SUFFICES ASSUME NEW x \in Threads PROVE CallInv!(x)'
  BY DEF CallInv
<1> DEFINE Call == [pc : PCs, do : Commands, ret : Results, obeyed : BOOLEAN]
<1>0. call \in [Threads -> Call] /\ CallInv!(x)
  BY DEF PollTypeOK, CallInv
<1>1. ASSUME NEW t \in Threads, NEW k \in Commands, Enter(t, k) PROVE CallInv!(x)'
  BY <1>0, <1>1 DEF Enter, NoCall
<1>2. ASSUME NEW t \in Threads, Lock(t) PROVE CallInv!(x)'
  <2>1. x = t => (call[x].do = Poll <=> call[x].do.cmd = "DOME_POLL")
    BY <1>0, CommandShape
  <2> QED BY <1>0, <1>2, <2>1 DEF Lock, Goto, MoveCmds
<1>3. ASSUME NEW t \in Threads, InsideStep(t) PROVE CallInv!(x)'
  <2>1. CASE x # t
    <3>1. call'[x] = call[x] /\ call[x].pc \notin Inside
      BY <1>3, <2>1, OthersOutside
    <3>2. faulted => faulted'
      BY <1>3, Zenon DEF InsideStep, MotorsOn, RelayExchangeFails, RunCmd, Status, PowerOff, Return
    <3> QED BY <1>0, <3>1, <3>2 DEF Inside
  <2>2. CASE x = t
    <3>1. CASE MotorsOn(t)
      <4>1. CASE Switch(MotRelay, TRUE) /\ Goto(t, "cmd")
        <5>1. relay'[MotRelay]
          BY <4>1, DeviceAssumption DEF Switch, PollTypeOK, DevTypeOK
        <5>2. call'[x] = [call[x] EXCEPT !.pc = "cmd"]
          BY <1>0, <2>2, <4>1 DEF Goto
        <5>3. call[x].pc = "motors"
          BY <2>2, <3>1 DEF MotorsOn
        <5> QED BY <1>0, <5>1, <5>2, <5>3
      <4>2. CASE RelayExchangeFails(TRUE) /\ Goto(t, "status")
        <5>1. faulted' = TRUE
          BY <4>2 DEF RelayExchangeFails
        <5>2. call'[x] = [call[x] EXCEPT !.pc = "status"]
          BY <1>0, <2>2, <4>2 DEF Goto
        <5> QED BY <1>0, <5>1, <5>2
      <4> QED BY <3>1, <4>1, <4>2 DEF MotorsOn
    <3>2. CASE RunCmd(t)
      <4>1. CASE call'[x] = [call[x] EXCEPT !.pc = "status", !.obeyed = TRUE]
        BY <1>0, <4>1
      <4>2. CASE faulted' = TRUE /\ call'[x] = [call[x] EXCEPT !.pc = "status"]
        BY <1>0, <4>2
      <4> QED BY <1>0, <2>2, <3>2, <4>1, <4>2 DEF RunCmd, Goto
    <3>3. CASE Status(t)
      <4>1. call[x].pc = "status"
        BY <2>2, <3>3 DEF Status
      <4>2. CASE ChkRelay(t) /\ UNCHANGED faulted
        <5>1. PICK pc \in {"ret", "poweroff"} :
                call'[x] = [call[x] EXCEPT !.pc = pc, !.ret = state]
          BY <1>0, <2>2, <4>2 DEF ChkRelay
        <5>2. state # "DOME_S_ERROR"
          BY DEF PollTypeOK, States
        <5> QED BY <1>0, <4>1, <4>2, <5>1, <5>2
      <4>3. CASE faulted' = TRUE /\ Goto(t, "ret")
        BY <1>0, <2>2, <4>3 DEF Goto
      <4> QED BY <3>3, <4>2, <4>3 DEF Status
    <3>4. CASE PowerOff(t)
      <4>1. call[x].pc = "poweroff"
        BY <2>2, <3>4 DEF PowerOff
      <4>2. call'[x] = [call[x] EXCEPT !.pc = "ret", !.ret = state']
        BY <1>0, <2>2, <3>4 DEF PowerOff
      <4>3. state' # "DOME_S_ERROR" /\ (faulted => faulted')
        BY <3>4 DEF PowerOff, RelayExchangeFails, PollTypeOK, States
      <4> QED BY <1>0, <4>1, <4>2, <4>3
    <3>5. CASE Return(t)
      BY <1>0, <2>2, <3>5 DEF Return, Goto
    <3> QED BY <1>3, <3>1, <3>2, <3>3, <3>4, <3>5 DEF InsideStep
  <2> QED BY <2>1, <2>2
<1>4. ASSUME NEW t \in Threads, Take(t) PROVE CallInv!(x)'
  BY <1>0, <1>4 DEF Take, NoCall
<1>5. CASE PollTick \/ RoofMoves \/ UNCHANGED pollVars
  BY <1>0, <1>5 DEF PollTick, DevTick, RoofMoves, Travel
<1>6. CASE PollRestart
  BY <1>6 DEF PollRestart, NoCall
<1> QED BY <1>1, <1>2, <1>3, <1>4, <1>5, <1>6 DEF PollNext

-----------------------------------------------------------------------------
(* The machine, the motor relay and the covers. *)

\* What a call of runcmd can do to the roof: an order that moves covers, one that
\* only stops some, or a relay.
LEMMA EffectShape ==
  ASSUME PollTypeOK, CallInv, NEW t \in Threads, call[t].pc = "cmd", Effect(call[t].do)
  PROVE  \/ /\ call[t].do.cmd \in MoveCmds /\ relay[MotRelay]
            /\ UNCHANGED <<cover, relay>>
         \/ /\ call[t].do.cmd = "DOME_STOP"
            /\ \A c \in Covers : drive'[c] \in {"none", drive[c]}
            /\ lagging' = lagging \ {c \in Covers : drive'[c] # drive[c]}
            /\ UNCHANGED <<cover, relay>>
         \/ /\ call[t].do.cmd \in RelayCmds /\ call[t].do.par \in Relays
            /\ Switch(call[t].do.par, call[t].do.cmd = "DOME_RELAY_ON")
            /\ UNCHANGED order
<1>1. call[t].do \in Commands /\ call[t].do.cmd # "DOME_POLL" /\ DevTypeOK
  BY DEF PollTypeOK, CallInv
<1>2. call[t].do.cmd \in Cmds /\ (call[t].do.cmd \in RelayCmds => call[t].do.par \in Relays)
  BY <1>1, CommandShape
<1>3. CASE call[t].do.cmd \in RelayCmds
  BY <1>2, <1>3 DEF Effect
<1>4. CASE call[t].do.cmd \in MoveCmds
  <2>1. call[t].do.cmd \notin RelayCmds
    BY <1>4 DEF MoveCmds, RelayCmds
  <2>2. relay[MotRelay]
    BY <1>4 DEF CallInv
  <2> QED BY <1>4, <2>1, <2>2 DEF Effect, Obey
<1>5. CASE call[t].do.cmd = "DOME_STOP"
  <2>1. call[t].do.cmd \notin RelayCmds /\ call[t].do.cmd \notin MoveCmds
    BY <1>5 DEF MoveCmds, RelayCmds
  <2>2. Obey(call[t].do.cmd, call[t].do.par)
    BY <2>1 DEF Effect
  <2>3. \A c \in Covers : drive'[c] \in {"none", drive[c]}
    BY <1>1, <1>2, <2>1, <2>2, DriveShape DEF Obey
  <2> QED BY <1>5, <2>2, <2>3 DEF Obey
<1> QED BY <1>1, <1>2, <1>3, <1>4, <1>5 DEF Cmds

LEMMA PauseOnlyStep ==
  ASSUME PauseOnlyWhileMoving, [PollNext]_pollVars PROVE PauseOnlyWhileMoving'
<1> USE DEF PauseOnlyWhileMoving
<1>1. ASSUME NEW t \in Threads,
             (\E k \in Commands : Enter(t, k)) \/ Lock(t) \/ Take(t) \/ RunCmd(t) \/ Return(t)
      PROVE  PauseOnlyWhileMoving'
  BY <1>1 DEF Enter, Lock, Take, RunCmd, Return
<1>2. ASSUME NEW t \in Threads, MotorsOn(t) PROVE PauseOnlyWhileMoving'
  BY <1>2 DEF MotorsOn, RelayExchangeFails
<1>3. ASSUME NEW t \in Threads, Status(t) PROVE PauseOnlyWhileMoving'
  BY <1>3 DEF Status, ChkRelay
<1>4. ASSUME NEW t \in Threads, PowerOff(t) PROVE PauseOnlyWhileMoving'
  BY <1>4 DEF PowerOff, RelayExchangeFails
<1>5. CASE PollTick \/ RoofMoves \/ UNCHANGED pollVars
  BY <1>5 DEF PollTick, RoofMoves
<1>6. CASE PollRestart
  BY <1>6 DEF PollRestart
<1> QED BY <1>1, <1>2, <1>3, <1>4, <1>5, <1>6 DEF PollNext, InsideStep

LEMMA PoweredStep ==
  ASSUME PollTypeOK, CallInv, Powered, [PollNext]_pollVars PROVE Powered'
<1> USE DeviceAssumption DEF Powered
<1>0. DevTypeOK
  BY DEF PollTypeOK
<1>a. ASSUME NEW r \in Relays, NEW on \in BOOLEAN, Switch(r, on) PROVE Powered'
  BY <1>0, <1>a DEF Switch, DevTypeOK
<1>b. ASSUME UNCHANGED devVars PROVE Powered'
  BY <1>b
<1>1. ASSUME NEW t \in Threads,
             (\E k \in Commands : Enter(t, k)) \/ Lock(t) \/ Take(t) \/ Status(t) \/ Return(t)
      PROVE  Powered'
  BY <1>1, <1>b DEF Enter, Lock, Take, Status, Return
<1>2. ASSUME NEW t \in Threads, MotorsOn(t) \/ PowerOff(t) PROVE Powered'
  <2>1. (\E on \in BOOLEAN : Switch(MotRelay, on)) \/ UNCHANGED devVars
    BY <1>2 DEF MotorsOn, PowerOff, RelayExchangeFails
  <2> QED BY <1>a, <1>b, <2>1
<1>3. ASSUME NEW t \in Threads, RunCmd(t) PROVE Powered'
  <2>1. CASE call[t].pc = "cmd" /\ Effect(call[t].do)
    BY <1>a, <2>1, EffectShape
  <2>2. CASE UNCHANGED devVars
    BY <1>b, <2>2
  <2> QED BY <1>3, <2>1, <2>2 DEF RunCmd
<1>4. CASE PollTick
  BY <1>4 DEF PollTick, DevTick
<1>5. CASE RoofMoves
  BY <1>0, <1>5 DEF RoofMoves, Travel, DevTypeOK
<1>6. CASE PollRestart \/ UNCHANGED pollVars
  BY <1>6, <1>b DEF PollRestart
<1> QED BY <1>1, <1>2, <1>3, <1>4, <1>5, <1>6 DEF PollNext, InsideStep

LEMMA StateMatchesStep ==
  ASSUME PollTypeOK, CallInv, StateMatchesRelay, [PollNext]_pollVars
  PROVE  StateMatchesRelay'
<1> SUFFICES ASSUME ~faulted', ~MotRelayByHand
             PROVE  (state = "DOME_S_MOVING" <=> relay[MotRelay])'
  BY DEF StateMatchesRelay, MotRelayByHand
<1> USE DeviceAssumption DEF StateMatchesRelay
<1>0. DevTypeOK
  BY DEF PollTypeOK
<1>1. ASSUME NEW t \in Threads,
             (\E k \in Commands : Enter(t, k)) \/ Lock(t) \/ Take(t) \/ Return(t)
      PROVE  (state = "DOME_S_MOVING" <=> relay[MotRelay])'
  BY <1>1 DEF Enter, Lock, Take, Return
<1>2. ASSUME NEW t \in Threads, MotorsOn(t)
      PROVE  (state = "DOME_S_MOVING" <=> relay[MotRelay])'
  BY <1>0, <1>2 DEF MotorsOn, RelayExchangeFails, Switch, DevTypeOK
<1>3. ASSUME NEW t \in Threads, RunCmd(t)
      PROVE  (state = "DOME_S_MOVING" <=> relay[MotRelay])'
  <2>1. UNCHANGED <<state, faulted>> /\ call[t].pc = "cmd" /\ Effect(call[t].do)
    BY <1>3 DEF RunCmd
  <2>2. CASE UNCHANGED relay
    BY <2>1, <2>2
  <2>3. CASE /\ call[t].do.cmd \in RelayCmds
             /\ Switch(call[t].do.par, call[t].do.cmd = "DOME_RELAY_ON")
    <3>1. call[t].do.par # MotRelay
      BY <2>3 DEF MotRelayByHand, PollTypeOK
    <3> QED BY <1>0, <2>1, <2>3, <3>1 DEF Switch, DevTypeOK
  <2> QED BY <2>1, <2>2, <2>3, EffectShape
<1>4. ASSUME NEW t \in Threads, Status(t)
      PROVE  (state = "DOME_S_MOVING" <=> relay[MotRelay])'
  BY <1>4 DEF Status
<1>5. ASSUME NEW t \in Threads, PowerOff(t)
      PROVE  (state = "DOME_S_MOVING" <=> relay[MotRelay])'
  BY <1>0, <1>5 DEF PowerOff, RelayExchangeFails, Switch, DevTypeOK
<1>6. CASE PollTick \/ RoofMoves \/ UNCHANGED pollVars
  BY <1>6 DEF PollTick, DevTick, RoofMoves, Travel
<1>7. CASE PollRestart
  BY <1>7 DEF PollRestart
<1> QED BY <1>1, <1>2, <1>3, <1>4, <1>5, <1>6, <1>7 DEF PollNext, InsideStep

-----------------------------------------------------------------------------
(* The pause and the power. *)

\* A relay that is switched starts no cover: one that is driven has power.
LEMMA SwitchStartsNone ==
  ASSUME PollTypeOK, Powered, NEW r \in Relays, NEW on \in BOOLEAN, Switch(r, on)
  PROVE  \A c \in Covers : Starting(c)' => Starting(c) /\ (c \in lagging => c \in lagging')
<1> USE DeviceAssumption
<1>1. DevTypeOK
  BY DEF PollTypeOK
<1>2. CASE r = MotRelay /\ ~on
  BY <1>2 DEF Switch, Starting
<1>3. CASE ~(r = MotRelay /\ ~on)
  <2>1. UNCHANGED <<cover, drive, lagging>>
    BY <1>3 DEF Switch
  <2> QED BY <2>1 DEF Starting, Powered
<1> QED BY <1>2, <1>3

LEMMA PauseStep ==
  ASSUME PollTypeOK, CallInv, Powered, PauseInv, [PollNext]_pollVars PROVE PauseInv'
<1> USE Bounds, DeviceAssumption
<1>a. ASSUME UNCHANGED <<oldstate, paused, t0>>,
             \A c \in Covers : Starting(c)' => Starting(c) /\ (c \in lagging => c \in lagging')
      PROVE  PauseInv'
  BY <1>a DEF PauseInv
<1>b. ASSUME UNCHANGED <<devVars, oldstate, paused, t0>> PROVE PauseInv'
  BY <1>b DEF PauseInv, Starting
<1>1. ASSUME NEW t \in Threads,
             (\E k \in Commands : Enter(t, k)) \/ Lock(t) \/ Take(t) \/ Return(t)
      PROVE  PauseInv'
  BY <1>1, <1>b DEF Enter, Lock, Take, Return
<1>2. ASSUME NEW t \in Threads, MotorsOn(t) PROVE PauseInv'
  <2>1. Switch(MotRelay, TRUE) \/ UNCHANGED devVars
    BY <1>2 DEF MotorsOn, RelayExchangeFails
  <2>2. UNCHANGED <<oldstate, paused, t0>>
    BY <1>2 DEF MotorsOn, RelayExchangeFails
  <2> QED BY <1>a, <1>b, <2>1, <2>2, SwitchStartsNone
<1>3. ASSUME NEW t \in Threads, RunCmd(t) PROVE PauseInv'
  <2>1. UNCHANGED <<oldstate, t0>>
    BY <1>3 DEF RunCmd
  <2>2. CASE UNCHANGED <<devVars, paused>>
    BY <1>b, <2>1, <2>2
  <2>3. CASE /\ call[t].pc = "cmd" /\ Effect(call[t].do)
             /\ paused' = (paused \/ (oldstate = "DOME_S_IDLE" /\ call[t].do.cmd \in MoveCmds))
    <3>1. CASE call[t].do.cmd \in MoveCmds
      BY <2>1, <2>3, <3>1 DEF PauseInv
    <3>2. CASE call[t].do.cmd \notin MoveCmds
      <4>1. paused' = paused
        BY <2>3, <3>2 DEF PollTypeOK
      <4>2. CASE \E r \in Relays, on \in BOOLEAN : Switch(r, on)
        BY <1>a, <2>1, <4>1, <4>2, SwitchStartsNone
      <4>3. CASE /\ \A c \in Covers : drive'[c] \in {"none", drive[c]}
                 /\ lagging' = lagging \ {c \in Covers : drive'[c] # drive[c]}
                 /\ UNCHANGED <<cover, relay>>
        <5>1. \A c \in Covers :
                Starting(c)' => Starting(c) /\ (c \in lagging => c \in lagging')
          BY <4>3 DEF Starting
        <5> QED BY <1>a, <2>1, <4>1, <5>1
      <4>4. ASSUME call[t].do.par \in Relays,
                   Switch(call[t].do.par, call[t].do.cmd = "DOME_RELAY_ON")
            PROVE  \E r \in Relays, on \in BOOLEAN : Switch(r, on)
        <5>1. (call[t].do.cmd = "DOME_RELAY_ON") \in BOOLEAN
          OBVIOUS
        <5> QED BY <4>4, <5>1, Zenon
      <4>5. \/ /\ \A c \in Covers : drive'[c] \in {"none", drive[c]}
               /\ lagging' = lagging \ {c \in Covers : drive'[c] # drive[c]}
               /\ UNCHANGED <<cover, relay>>
            \/ \E r \in Relays, on \in BOOLEAN : Switch(r, on)
        BY <2>3, <3>2, <4>4, EffectShape
      <4> QED BY <4>2, <4>3, <4>5
    <3> QED BY <3>1, <3>2
  <2> QED BY <1>3, <2>2, <2>3 DEF RunCmd
<1>4. ASSUME NEW t \in Threads, Status(t) PROVE PauseInv'
  <2>1. UNCHANGED devVars
    BY <1>4 DEF Status
  <2>2. \/ UNCHANGED <<oldstate, t0, paused>>
        \/ oldstate' = "DOME_S_MOVING"
        \/ t0' = 0
    BY <1>4 DEF Status, ChkRelay
  <2> QED BY <1>b, <2>1, <2>2 DEF PauseInv
<1>5. ASSUME NEW t \in Threads, PowerOff(t) PROVE PauseInv'
  <2>1. Switch(MotRelay, FALSE) \/ UNCHANGED devVars
    BY <1>5 DEF PowerOff, RelayExchangeFails
  <2>2. oldstate' = "DOME_S_MOVING" \/ UNCHANGED oldstate
    BY <1>5 DEF PowerOff, RelayExchangeFails
  <2>3. UNCHANGED <<paused, t0>>
    BY <1>5 DEF PowerOff
  <2>4. CASE oldstate' = "DOME_S_MOVING"
    BY <2>4 DEF PauseInv
  <2> QED BY <1>a, <1>b, <2>1, <2>2, <2>3, <2>4, SwitchStartsNone
<1>6. CASE PollTick
  <2>1. /\ \A c \in lagging : ~Starting(c)
        /\ lagging' = {c \in Covers : Starting(c)}
        /\ \A c \in Covers : Starting(c)' = Starting(c)
        /\ UNCHANGED <<oldstate, paused>>
    BY <1>6 DEF PollTick, DevTick, Starting
  <2>2. t0 \in 0..PowerStop /\ t0' = IF t0 < PowerStop THEN t0 + 1 ELSE t0
    BY <1>6 DEF PollTick, Older, PollTypeOK
  <2>3. t0' >= 1 => \A c \in Covers : Starting(c)' => c \in lagging'
    BY <2>1
  <2>4. t0' >= 2 => t0 >= 1
    BY <2>2
  <2> QED BY <2>1, <2>3, <2>4 DEF PauseInv
<1>7. CASE RoofMoves
  <2>1. UNCHANGED <<oldstate, paused, t0>>
    BY <1>7 DEF RoofMoves
  <2>2. PICK c \in Covers : Travel(c)
    BY <1>7 DEF RoofMoves
  <2>3. DevTypeOK
    BY DEF PollTypeOK
  <2>4. ~Starting(c)'
    BY <2>2, <2>3 DEF Travel, Starting, DevTypeOK
  <2>5. \A d \in Covers \ {c} : Starting(d)' = Starting(d) /\ (d \in lagging => d \in lagging')
    BY <2>2, <2>3 DEF Travel, Starting, DevTypeOK
  <2> QED BY <1>a, <2>1, <2>4, <2>5
<1>8. CASE PollRestart
  BY <1>8 DEF PollRestart, PauseInv
<1>9. CASE UNCHANGED pollVars
  BY <1>b, <1>9
<1> QED BY <1>1, <1>2, <1>3, <1>4, <1>5, <1>6, <1>7, <1>8, <1>9 DEF PollNext, InsideStep

LEMMA PowerOffStep ==
  ASSUME PollTypeOK, LineIsExclusive, Powered, PauseInv, PowerOffInv, [PollNext]_pollVars
  PROVE  PowerOffInv'
<1> SUFFICES ASSUME NEW x \in Threads, call'[x].pc = "poweroff"
             PROVE  state' = "DOME_S_MOVING" /\ (AtRest' \/ paused')
  BY DEF PowerOffInv
<1> USE Bounds
<1>a. ASSUME call[x].pc = "poweroff", UNCHANGED <<state, paused, drive>>
      PROVE  state' = "DOME_S_MOVING" /\ (AtRest' \/ paused')
  BY <1>a DEF PowerOffInv, AtRest
<1>1. ASSUME NEW t \in Threads, NEW k \in Commands, Enter(t, k)
      PROVE  state' = "DOME_S_MOVING" /\ (AtRest' \/ paused')
  BY <1>1, <1>a DEF Enter, NoCall, PollTypeOK
<1>2. ASSUME NEW t \in Threads, Lock(t)
      PROVE  state' = "DOME_S_MOVING" /\ (AtRest' \/ paused')
  BY <1>2, <1>a DEF Lock, Goto, PollTypeOK
<1>3. ASSUME NEW t \in Threads, InsideStep(t)
      PROVE  state' = "DOME_S_MOVING" /\ (AtRest' \/ paused')
  <2>1. x = t
    BY <1>3, OthersOutside DEF Inside
  <2>2. Status(t) /\ ChkRelay(t)
    BY <1>3, <2>1 DEF InsideStep, MotorsOn, RunCmd, Status, PowerOff, Return, Goto, PollTypeOK
  <2>3. /\ state = "DOME_S_MOVING" /\ ~StillMoving /\ oldstate = "DOME_S_IDLE"
        /\ ~(t0 < PowerStop) /\ UNCHANGED <<paused, drive, state>>
    BY <2>1, <2>2 DEF Status, ChkRelay, PollTypeOK
  <2>4. t0 >= 2
    BY <2>3 DEF PollTypeOK
  <2>5. paused \/ \A c \in Covers : ~Starting(c)
    BY <2>3, <2>4 DEF PauseInv
  <2>6. AtRest \/ paused
    BY <2>3, <2>5 DEF StillMoving, Starting, Powered, AtRest
  <2> QED BY <2>3, <2>6 DEF AtRest
<1>4. ASSUME NEW t \in Threads, Take(t)
      PROVE  state' = "DOME_S_MOVING" /\ (AtRest' \/ paused')
  BY <1>4, <1>a DEF Take, NoCall, PollTypeOK
<1>5. CASE PollTick \/ UNCHANGED pollVars
  BY <1>5, <1>a DEF PollTick, DevTick
<1>6. CASE RoofMoves
  <2>1. call[x].pc = "poweroff" /\ UNCHANGED <<state, paused>>
    BY <1>6 DEF RoofMoves
  <2>2. ~AtRest
    BY <1>6 DEF RoofMoves, Travel, AtRest
  <2> QED BY <2>1, <2>2 DEF PowerOffInv
<1>7. CASE PollRestart
  BY <1>7 DEF PollRestart, NoCall
<1> QED BY <1>1, <1>2, <1>3, <1>4, <1>5, <1>6, <1>7 DEF PollNext

-----------------------------------------------------------------------------
(* The inductive invariant and what it implies. *)

LEMMA InvInit == ASSUME PollInit PROVE IInv
<1> USE Bounds DEF PollInit, NoCall
<1>1. PollTypeOK
  BY PollTypeInit
<1>2. LineIsExclusive /\ PauseOnlyWhileMoving
  BY DEF LineIsExclusive, Inside, PauseOnlyWhileMoving
<1>3. CallInv /\ PauseInv /\ PowerOffInv
  BY DEF CallInv, PauseInv, PowerOffInv
<1>4. Powered /\ StateMatchesRelay
  BY DeviceAssumption DEF DevInit, Powered, StateMatchesRelay
<1> QED BY <1>1, <1>2, <1>3, <1>4 DEF IInv

LEMMA InvStep == ASSUME IInv, [PollNext]_pollVars PROVE IInv'
<1> USE DEF IInv
<1>1. PollTypeOK' /\ LineIsExclusive' /\ CallInv'
  BY PollTypeStep, LineStep, CallInvStep
<1>2. PauseOnlyWhileMoving' /\ StateMatchesRelay'
  BY PauseOnlyStep, StateMatchesStep
<1>3. Powered' /\ PauseInv' /\ PowerOffInv'
  BY PoweredStep, PauseStep, PowerOffStep
<1> QED BY <1>1, <1>2, <1>3

LEMMA Invariance == PollSpec => []IInv
<1>1. PollInit => IInv
  BY InvInit
<1>2. IInv /\ [PollNext]_pollVars => IInv'
  BY InvStep
<1> QED BY <1>1, <1>2, PTL DEF PollSpec

\* Every variable of dome.c keeps its set of values: the machine never enters
\* DOME_S_ERROR, whatever fails.
THEOREM PollTypes == PollSpec => []PollTypeOK
<1>1. IInv => PollTypeOK
  BY DEF IInv
<1> QED BY <1>1, Invariance, PTL

\* serialmutex gives the serial line to one call of dome_poll at a time.
THEOREM ExclusiveLine == PollSpec => []LineIsExclusive
<1>1. IInv => LineIsExclusive
  BY DEF IInv
<1> QED BY <1>1, Invariance, PTL

\* The statics of chkrelay say "pause running" only while the machine is MOVING.
THEOREM PauseBelongsToMotion == PollSpec => []PauseOnlyWhileMoving
<1>1. IInv => PauseOnlyWhileMoving
  BY DEF IInv
<1> QED BY <1>1, Invariance, PTL

\* Without failed exchanges, and with the motor relay left to dome.c, the machine
\* is MOVING exactly while that relay is on.
THEOREM StateIsRelay == PollSpec => []StateMatchesRelay
<1>1. IInv => StateMatchesRelay
  BY DEF IInv
<1> QED BY <1>1, Invariance, PTL

\* A call of dome_poll that reports no error had its command obeyed, unless an
\* exchange has failed.
THEOREM Obeyed == PollSpec => []SuccessMeansObeyed
<1>1. IInv => SuccessMeansObeyed
  BY DEF IInv, CallInv, SuccessMeansObeyed
<1> QED BY <1>1, Invariance, PTL

\* chkrelay takes the power only from a roof at rest, unless a motion was ordered
\* during the pause before.
THEOREM PowerCut == PollSpec => CutOnlyAtRestOrPaused
<1>1. IInv /\ [PollNext]_pollVars => [Cut => AtRest \/ paused]_pollVars
  BY DEF IInv, PowerOffInv, Cut
<1> QED BY <1>1, Invariance, PTL DEF PollSpec, CutOnlyAtRestOrPaused

-----------------------------------------------------------------------------
(* The roof does what it was last told. *)

\* Every cover follows the last order.
Settled ==
  /\ order = "DOME_OPEN"  => \A c \in Covers : Follows(c, "opening")
  /\ order = "DOME_CLOSE" => \A c \in Covers : Follows(c, "closing")
  /\ order = "DOME_STOP"  => AtRest

\* The motors are off, or they were turned on again for an order that is about to
\* be sent.
BetweenOrders ==
  \/ state = "DOME_S_IDLE"
  \/ \E t \in Threads : call[t].pc = "cmd" /\ call[t].do.cmd \in MoveCmds

\* Only a cut in the pause of an earlier motion leaves a cover on its way, and then
\* the machine does nothing more before the next order.
ObeyInv ==
  ~faulted /\ ~MotRelayByHand => Settled \/ (paused /\ BetweenOrders)

\* motors_on() is called for motions only.
MotorsInv == \A t \in Threads : call[t].pc = "motors" => call[t].do.cmd \in MoveCmds

LEMMA MotorsInvStep ==
  ASSUME PollTypeOK, MotorsInv, [PollNext]_pollVars PROVE MotorsInv'
<1> USE DEF MotorsInv, PollTypeOK
<1>1. ASSUME NEW t \in Threads, NEW k \in Commands, Enter(t, k) PROVE MotorsInv'
  BY <1>1 DEF Enter, NoCall
<1>2. ASSUME NEW t \in Threads, Lock(t) PROVE MotorsInv'
  BY <1>2 DEF Lock, Goto
<1>3. ASSUME NEW t \in Threads, InsideStep(t) PROVE MotorsInv'
  <2>1. CASE MotorsOn(t)
    BY <2>1 DEF MotorsOn, Goto
  <2>2. CASE RunCmd(t)
    BY <2>2 DEF RunCmd, Goto
  <2>3. CASE Status(t)
    BY <2>3 DEF Status, ChkRelay, Goto
  <2>4. CASE PowerOff(t)
    BY <2>4 DEF PowerOff, Goto
  <2>5. CASE Return(t)
    BY <2>5 DEF Return, Goto
  <2> QED BY <1>3, <2>1, <2>2, <2>3, <2>4, <2>5 DEF InsideStep
<1>4. ASSUME NEW t \in Threads, Take(t) PROVE MotorsInv'
  BY <1>4 DEF Take, NoCall
<1>5. CASE PollTick \/ RoofMoves \/ UNCHANGED pollVars
  BY <1>5 DEF PollTick, RoofMoves
<1>6. CASE PollRestart
  BY <1>6 DEF PollRestart, NoCall
<1> QED BY <1>1, <1>2, <1>3, <1>4, <1>5, <1>6 DEF PollNext

\* A step that leaves the covers, their drives and the power of the motors alone,
\* or that only gives them power, lets them follow the order as before.
LEMMA StaySettled ==
  ASSUME Settled, UNCHANGED <<cover, drive, order>>, relay[MotRelay] => relay'[MotRelay]
  PROVE  Settled'
<1>1. \A c \in Covers, d \in Drives : Follows(c, d) => Follows(c, d)'
  BY DEF Follows
<1> QED BY <1>1 DEF Settled, AtRest, Drives

\* A cover that travels goes where it was sent.
LEMMA TravelSettles ==
  ASSUME DevTypeOK, Settled, UNCHANGED order, NEW c \in Covers, Travel(c)
  PROVE  Settled'
<1>1. \A x \in Covers \ {c} : cover'[x] = cover[x] /\ drive'[x] = drive[x]
  BY DEF Travel, DevTypeOK
<1>2. ASSUME NEW d \in {"opening", "closing"}, NEW x \in Covers, Follows(x, d)
      PROVE  Follows(x, d)'
  <2>1. CASE x # c
    BY <1>1, <1>2, <2>1 DEF Follows, Travel
  <2>2. CASE x = c
    <3>1. drive[c] = d /\ UNCHANGED relay /\ relay[MotRelay]
      BY <1>2, <2>2 DEF Follows, Travel
    <3>2. drive'[c] = IF cover'[c] = Target(d) THEN "none" ELSE d
      BY <3>1 DEF Travel, DevTypeOK
    <3> QED BY <2>2, <3>1, <3>2 DEF Follows
  <2> QED BY <2>1, <2>2
<1>3. order # "DOME_STOP"
  BY DEF Travel, Settled, AtRest
<1> QED BY <1>2, <1>3 DEF Settled

\* An order for the whole roof that is obeyed settles it.
LEMMA ObeySettles ==
  ASSUME DevTypeOK, NEW cmd \in Orders, NEW par, Obey(cmd, par), order' = cmd,
         cmd \in MoveCmds => relay[MotRelay]
  PROVE  Settled'
<1>1. UNCHANGED <<cover, relay>> /\ drive' = DriveAfter(cmd, par)
  BY DEF Obey
<1>2. CASE cmd = "DOME_OPEN"
  <2>1. \A c \in Covers : drive'[c] = Towards(c, "opening")
    BY <1>1, <1>2 DEF DriveAfter
  <2> QED BY <1>1, <1>2, <2>1 DEF Settled, Follows, Towards, Target, MoveCmds
<1>3. CASE cmd = "DOME_CLOSE"
  <2>1. \A c \in Covers : drive'[c] = Towards(c, "closing")
    BY <1>1, <1>3 DEF DriveAfter
  <2> QED BY <1>1, <1>3, <2>1 DEF Settled, Follows, Towards, Target, MoveCmds
<1>4. CASE cmd = "DOME_STOP"
  <2>1. \A c \in Covers : drive'[c] = "none"
    BY <1>1, <1>4 DEF DriveAfter
  <2> QED BY <1>4, <2>1 DEF Settled, AtRest
<1>5. CASE cmd \in {"DOME_OPEN_ONE", "DOME_CLOSE_ONE"}
  BY <1>5 DEF Settled
<1> QED BY <1>2, <1>3, <1>4, <1>5 DEF Orders, MoveCmds

LEMMA ObeyStep ==
  ASSUME IInv, MotorsInv, ObeyInv, [PollNext]_pollVars PROVE ObeyInv'
<1> SUFFICES ASSUME ~faulted', ~MotRelayByHand
             PROVE  Settled' \/ (paused' /\ BetweenOrders')
  BY DEF ObeyInv, MotRelayByHand
<1> USE DeviceAssumption, Bounds
<1>0. /\ DevTypeOK /\ PollTypeOK /\ LineIsExclusive /\ CallInv /\ PowerOffInv
      /\ call \in [Threads -> [pc : PCs, do : Commands, ret : Results, obeyed : BOOLEAN]]
  BY DEF IInv, PollTypeOK
<1>a. ASSUME ~faulted PROVE Settled \/ (paused /\ BetweenOrders)
  BY <1>a DEF ObeyInv
\* A step of a call outside the lock, or of none.
<1>b. ASSUME UNCHANGED <<cover, drive, order, relay, paused, state, faulted>>,
             \A t \in Threads : call[t].pc = "cmd" => call'[t] = call[t]
      PROVE  Settled' \/ (paused' /\ BetweenOrders')
  BY <1>a, <1>b, StaySettled DEF BetweenOrders
<1>1. ASSUME NEW t \in Threads, NEW k \in Commands, Enter(t, k)
      PROVE  Settled' \/ (paused' /\ BetweenOrders')
  BY <1>0, <1>1, <1>b DEF Enter
<1>2. ASSUME NEW t \in Threads, Lock(t) \/ Take(t) \/ Return(t)
      PROVE  Settled' \/ (paused' /\ BetweenOrders')
  BY <1>0, <1>2, <1>b DEF Lock, Take, Return, Goto
<1>3. ASSUME NEW t \in Threads, MotorsOn(t)
      PROVE  Settled' \/ (paused' /\ BetweenOrders')
  <2>1. Switch(MotRelay, TRUE) /\ Goto(t, "cmd") /\ UNCHANGED <<faulted, paused, order>>
    BY <1>3 DEF MotorsOn, RelayExchangeFails
  <2>2. call'[t].pc = "cmd" /\ call'[t].do.cmd \in MoveCmds
    BY <1>0, <1>3, <2>1 DEF MotorsOn, Goto, MotorsInv
  <2>3. UNCHANGED <<cover, drive>> /\ relay'[MotRelay]
    BY <1>0, <2>1 DEF Switch, DevTypeOK
  <2> QED BY <1>a, <2>1, <2>2, <2>3, StaySettled DEF BetweenOrders
<1>4. ASSUME NEW t \in Threads, RunCmd(t)
      PROVE  Settled' \/ (paused' /\ BetweenOrders')
  <2>1. /\ call[t].pc = "cmd" /\ Effect(call[t].do) /\ UNCHANGED <<faulted, state>>
        /\ call[t].do \in Commands /\ call[t].do.cmd # "DOME_POLL"
    BY <1>0, <1>4 DEF RunCmd, CallInv
  <2>2. CASE call[t].do.cmd \in RelayCmds
    <3>1. call[t].do.par \in Relays \ {MotRelay}
      BY <2>1, <2>2, CommandShape DEF MotRelayByHand
    <3>2. Switch(call[t].do.par, call[t].do.cmd = "DOME_RELAY_ON") /\ UNCHANGED order
      BY <2>1, <2>2 DEF Effect
    <3>3. UNCHANGED <<cover, drive>> /\ relay'[MotRelay] = relay[MotRelay]
      BY <1>0, <3>1, <3>2 DEF Switch, DevTypeOK
    <3>4. call[t].do.cmd \notin MoveCmds
      BY <2>2 DEF RelayCmds, MoveCmds
    <3>5. paused' = paused
      BY <1>0, <1>4, <2>1, <3>4 DEF RunCmd, PollTypeOK
    <3>6. \A u \in Threads : call[u].pc = "cmd" => u = t
      BY <1>0, <2>1 DEF LineIsExclusive, Inside
    <3>7. ~(\E u \in Threads : call[u].pc = "cmd" /\ call[u].do.cmd \in MoveCmds)
      BY <3>4, <3>6
    <3> QED BY <1>a, <2>1, <3>2, <3>3, <3>5, <3>7, StaySettled DEF BetweenOrders
  <2>3. CASE call[t].do.cmd \notin RelayCmds
    <3>1. call[t].do.cmd \in Orders
      BY <2>1, <2>3, CommandShape DEF Cmds, Orders
    <3>2. Obey(call[t].do.cmd, call[t].do.par) /\ order' = call[t].do.cmd
      BY <2>1, <2>3 DEF Effect
    <3>3. call[t].do.cmd \in MoveCmds => relay[MotRelay]
      BY <1>0, <2>1 DEF CallInv
    <3> QED BY <1>0, <3>1, <3>2, <3>3, ObeySettles
  <2> QED BY <2>2, <2>3
<1>5. ASSUME NEW t \in Threads, Status(t)
      PROVE  Settled' \/ (paused' /\ BetweenOrders')
  <2>1. ChkRelay(t) /\ call[t].pc = "status" /\ UNCHANGED <<devVars, order, faulted, state>>
    BY <1>5 DEF Status
  <2>2. \A u \in Threads : call[u].pc # "cmd"
    BY <1>0, <2>1 DEF LineIsExclusive, Inside
  <2>3. CASE Settled
    BY <2>1, <2>3, StaySettled
  <2>4. CASE paused /\ state = "DOME_S_IDLE"
    <3>1. UNCHANGED paused
      BY <2>1, <2>4 DEF ChkRelay
    <3> QED BY <2>1, <2>4, <3>1 DEF BetweenOrders
  <2> QED BY <1>a, <2>1, <2>2, <2>3, <2>4 DEF BetweenOrders
<1>6. ASSUME NEW t \in Threads, PowerOff(t)
      PROVE  Settled' \/ (paused' /\ BetweenOrders')
  <2>1. /\ Switch(MotRelay, FALSE) /\ state' = "DOME_S_IDLE"
        /\ UNCHANGED <<faulted, paused, order>>
    BY <1>6 DEF PowerOff, RelayExchangeFails
  <2>2. CASE paused
    BY <2>1, <2>2 DEF BetweenOrders
  <2>3. CASE ~paused
    <3>1. AtRest /\ Settled
      BY <1>0, <1>6, <1>a, <2>1, <2>3 DEF PowerOff, PowerOffInv
    <3>2. UNCHANGED cover /\ \A c \in Covers : drive'[c] = "none"
      BY <2>1 DEF Switch
    <3> QED BY <2>1, <3>1, <3>2 DEF Settled, AtRest, Follows
  <2> QED BY <2>2, <2>3
<1>7. CASE PollTick
  BY <1>7, <1>b DEF PollTick, DevTick
<1>8. CASE RoofMoves
  <2>1. PICK c \in Covers : Travel(c)
    BY <1>8 DEF RoofMoves
  <2>2. UNCHANGED <<order, paused, state, call, faulted>>
    BY <1>8 DEF RoofMoves
  <2>3. CASE Settled
    BY <1>0, <2>1, <2>2, <2>3, TravelSettles
  <2>4. CASE paused /\ BetweenOrders
    BY <2>2, <2>4 DEF BetweenOrders
  <2> QED BY <1>a, <2>2, <2>3, <2>4
<1>9. CASE PollRestart
  BY <1>9 DEF PollRestart
<1>10. CASE UNCHANGED pollVars
  BY <1>10, <1>b
<1> QED BY <1>1, <1>2, <1>3, <1>4, <1>5, <1>6, <1>7, <1>8, <1>9, <1>10 DEF PollNext, InsideStep

\* The roof does what it was last told, but for a failed exchange, the motor relay
\* switched by hand, and the cut of power that the pause of chkrelay allows.
THEOREM RoofDoesAsTold == PollSpec => []RoofObeys
<1>1. PollInit => MotorsInv /\ ObeyInv
  BY DEF PollInit, NoCall, MotorsInv, ObeyInv, Settled
<1>2. IInv /\ MotorsInv /\ ObeyInv /\ [PollNext]_pollVars => MotorsInv' /\ ObeyInv'
  BY MotorsInvStep, ObeyStep DEF IInv
<1>3. ObeyInv => RoofObeys
  BY DEF ObeyInv, Settled, RoofObeys
<1> QED BY <1>1, <1>2, <1>3, Invariance, PTL DEF PollSpec

-----------------------------------------------------------------------------
(* dome_poll implements DomeCall. *)

Requests == [t \in Threads |-> Abstract(call[t])]

LEMMA PromiseInit == ASSUME PollInit PROVE Promise!CallInit
BY DEF PollInit, NoCall, Abstract, Stage, Poll, NoThread,
       Promise!CallInit, Promise!Idle, Promise!Poll, Promise!NoThread

CallRecords == [pc : PCs, do : Commands, ret : Results, obeyed : BOOLEAN]
RequestRecords == [pc : {"out", "wait", "held", "sent", "done"}, do : Commands,
                   ok : BOOLEAN, obeyed : BOOLEAN]

\* r is what the callers see of the call k.
Shows(r, k) ==
  /\ r.pc = Stage(k.pc) /\ r.do = k.do /\ r.obeyed = k.obeyed
  /\ r.ok <=> k.pc = "done" /\ k.ret # "DOME_S_ERROR"

\* Two requests with the same fields are the same.
LEMMA SameRequest ==
  ASSUME NEW r \in RequestRecords, NEW s \in RequestRecords,
         r.pc = s.pc, r.do = s.do, r.ok = s.ok, r.obeyed = s.obeyed
  PROVE  r = s
BY DEF RequestRecords

LEMMA RequestTypes == ASSUME PollTypeOK PROVE \A t \in Threads : Requests[t] \in RequestRecords
BY DEF PollTypeOK, PCs, Requests, Abstract, Stage, RequestRecords

\* What a call that becomes k makes of the requests.
LEMMA RequestOf ==
  ASSUME PollTypeOK, NEW t \in Threads,
         NEW k \in CallRecords, call' = [call EXCEPT ![t] = k],
         NEW r \in RequestRecords, Shows(r, k)
  PROVE  Requests' = [Requests EXCEPT ![t] = r]
<1>1. Abstract(k) \in RequestRecords
  BY DEF Abstract, Stage, CallRecords, RequestRecords, PCs
<1>2. Abstract(k) = r
  <2>1. /\ Abstract(k).pc = r.pc /\ Abstract(k).do = r.do
        /\ Abstract(k).ok = r.ok /\ Abstract(k).obeyed = r.obeyed
    BY DEF Abstract, RequestRecords, Shows
  <2> QED BY <1>1, <2>1, SameRequest
<1>3. Requests' = [Requests EXCEPT ![t] = Abstract(k)]
  BY DEF PollTypeOK, Requests
<1> QED BY <1>2, <1>3

\* A step that leaves what the callers see as it was.
LEMMA Stutters ==
  ASSUME UNCHANGED <<serialmutex, Requests, order, faulted>>
  PROVE  UNCHANGED Promise!callVars
BY DEF Promise!callVars, Requests

\* The command of a call that holds the lock reaches the device, or fails.
LEMMA SendRefined ==
  ASSUME NEW t \in Threads, NEW reached \in BOOLEAN, NEW failed \in BOOLEAN,
         reached \/ failed, failed => Faults, faulted' = (faulted \/ failed),
         Requests[t].pc = "held",
         order' = IF reached /\ call[t].do.cmd \in Orders THEN call[t].do.cmd ELSE order,
         Requests' = [Requests EXCEPT ![t].pc = "sent", ![t].obeyed = ~failed],
         UNCHANGED serialmutex
  PROVE  Promise!CallNext
<1>1. Requests[t].do = call[t].do
  BY DEF Requests, Abstract
<1>2. Promise!Send(t)
  BY <1>1 DEF Promise!Send, Promise!Blame, Promise!Orders, Promise!MoveCmds,
              Orders, MoveCmds, Requests
<1> QED BY <1>2 DEF Promise!CallNext, Promise!CallStep

\* An exchange behind the command fails.
LEMMA StumbleRefined ==
  ASSUME serialmutex # NoThread, Faults, faulted' = TRUE,
         UNCHANGED <<serialmutex, Requests, order>>
  PROVE  Promise!CallNext
BY DEF Promise!CallNext, Promise!Stumble, Promise!Blame, Promise!NoThread, NoThread, Requests

LEMMA PromiseStep ==
  ASSUME IInv, [PollNext]_pollVars PROVE [Promise!CallNext]_(Promise!callVars)
<1> USE Bounds
<1>0. PollTypeOK /\ LineIsExclusive /\ CallInv /\ call \in [Threads -> CallRecords]
  BY DEF IInv, PollTypeOK, CallRecords
<1>1. ASSUME NEW t \in Threads, NEW k \in Commands, Enter(t, k) PROVE Promise!CallNext
  <2>1. Requests[t].pc = "out"
    BY <1>1 DEF Enter, Requests, Abstract, Stage
  <2>2. CASE call' = [call EXCEPT ![t] = [NoCall EXCEPT !.pc = "wait", !.do = k]]
    <3>1. Requests' = [Requests EXCEPT ![t] = [Promise!Idle EXCEPT !.pc = "wait", !.do = k]]
      <4> DEFINE c == [NoCall EXCEPT !.pc = "wait", !.do = k]
                 r == [Promise!Idle EXCEPT !.pc = "wait", !.do = k]
      <4>1. c \in CallRecords /\ r \in RequestRecords
        BY DEF CallRecords, NoCall, PCs, Results, RequestRecords, Promise!Idle
      <4>2. Shows(r, c)
        BY DEF Shows, NoCall, Stage, Promise!Idle
      <4> HIDE DEF r, c
      <4>3. call' = [call EXCEPT ![t] = c]
        BY <2>2 DEF c
      <4>4. Requests' = [Requests EXCEPT ![t] = r]
        BY <1>0, <4>1, <4>2, <4>3, RequestOf
      <4> QED BY <4>4 DEF r
    <3>2. Promise!Enter(t, k)
      BY <1>1, <2>1, <3>1 DEF Enter, Promise!Enter, Requests
    <3> QED BY <3>2 DEF Promise!CallNext
  <2>3. CASE TooEarly(k) /\ call' = [call EXCEPT ![t] =
                                       [NoCall EXCEPT !.pc = "done", !.ret = state]]
    <3>1. state # "DOME_S_ERROR"
      BY <1>0 DEF PollTypeOK, States
    <3>2. Requests' = [Requests EXCEPT ![t] = [Promise!Idle EXCEPT !.pc = "done", !.ok = TRUE]]
      <4> DEFINE c == [NoCall EXCEPT !.pc = "done", !.ret = state]
                 r == [Promise!Idle EXCEPT !.pc = "done", !.ok = TRUE]
      <4>1. c \in CallRecords /\ r \in RequestRecords
        BY <1>0 DEF CallRecords, NoCall, PCs, Results, PollTypeOK, RequestRecords, Promise!Idle, Poll, Promise!Poll
      <4>2. Shows(r, c)
        BY <3>1 DEF Shows, NoCall, Stage, Promise!Idle, Poll, Promise!Poll
      <4> HIDE DEF r, c
      <4>3. call' = [call EXCEPT ![t] = c]
        BY <2>3 DEF c
      <4>4. Requests' = [Requests EXCEPT ![t] = r]
        BY <1>0, <4>1, <4>2, <4>3, RequestOf
      <4> QED BY <4>4 DEF r
    <3>3. Promise!Enter(t, k)
      BY <1>1, <2>1, <2>3, <3>2 DEF Enter, TooEarly, Promise!Enter, Requests
    <3> QED BY <3>3 DEF Promise!CallNext
  <2> QED BY <1>1, <2>2, <2>3 DEF Enter
<1>2. ASSUME NEW t \in Threads, Lock(t) PROVE Promise!CallNext
  <2>1. PICK pc \in {"motors", "cmd", "status"} :
          /\ call' = [call EXCEPT ![t].pc = pc]
          /\ pc = "status" <=> call[t].do.cmd = "DOME_POLL"
    BY <1>2 DEF Lock, Goto, MoveCmds
  <2>2. call[t].pc = "wait" /\ serialmutex = NoThread /\ serialmutex' = t
        /\ UNCHANGED <<order, faulted>>
    BY <1>2 DEF Lock
  <2>3. /\ Requests[t].pc = "wait" /\ Requests[t].do = call[t].do
        /\ Requests' = [Requests EXCEPT ![t].pc =
             IF Requests[t].do.cmd = "DOME_POLL" THEN "sent" ELSE "held"]
    BY <1>0, <2>1, <2>2 DEF CallRecords, PCs, Requests, Abstract, Stage
  <2>4. Promise!Lock(t)
    BY <2>2, <2>3 DEF Promise!Lock, Promise!NoThread, NoThread, Requests
  <2> QED BY <2>4 DEF Promise!CallNext, Promise!CallStep
<1>3. ASSUME NEW t \in Threads, MotorsOn(t) PROVE [Promise!CallNext]_(Promise!callVars)
  <2>1. call[t].pc = "motors" /\ ~call[t].obeyed /\ UNCHANGED <<serialmutex, order>>
    BY <1>0, <1>3 DEF MotorsOn, CallInv
  <2>2. CASE Goto(t, "cmd") /\ UNCHANGED faulted
    <3>1. UNCHANGED Requests
      BY <1>0, <2>1, <2>2 DEF Goto, Requests, Abstract, Stage
    <3> QED BY <2>1, <2>2, <3>1, Stutters
  <2>3. CASE RelayExchangeFails(TRUE) /\ Goto(t, "status")
    <3>1. Requests[t].pc = "held"
          /\ Requests' = [Requests EXCEPT ![t].pc = "sent", ![t].obeyed = FALSE]
      <4> DEFINE c == [call[t] EXCEPT !.pc = "status"]
                 r == [Requests[t] EXCEPT !.pc = "sent", !.obeyed = FALSE]
      <4>1. Requests[t] \in RequestRecords /\ Requests[t].pc = "held"
        BY <1>0, <2>1, RequestTypes DEF Requests, Abstract, Stage
      <4>2. c \in CallRecords /\ r \in RequestRecords
        BY <1>0, <4>1 DEF CallRecords, PCs, RequestRecords
      <4>3. Shows(r, c)
        BY <1>0, <2>1, <4>1 DEF CallRecords, PCs, Shows, Requests, Abstract, Stage, RequestRecords
      <4>4. call' = [call EXCEPT ![t] = c]
        BY <2>3 DEF Goto
      <4> HIDE DEF r, c
      <4>5. Requests' = [Requests EXCEPT ![t] = r]
        BY <1>0, <4>2, <4>3, <4>4, RequestOf
      <4> QED BY <4>1, <4>5 DEF r
    <3>2. Faults /\ faulted' = TRUE
      BY <1>0, <2>3, RelayFailure
    <3> QED BY <2>1, <3>1, <3>2, SendRefined
  <2> QED BY <1>3, <2>2, <2>3 DEF MotorsOn
<1>4. ASSUME NEW t \in Threads, RunCmd(t) PROVE Promise!CallNext
  <2>1. /\ call[t].pc = "cmd" /\ ~call[t].obeyed /\ UNCHANGED serialmutex
        /\ call[t].do.cmd \in Cmds /\ call[t].do.cmd # "DOME_POLL"
    BY <1>0, <1>4, CommandShape DEF CallRecords, RunCmd, CallInv
  <2>2. ASSUME NEW failed \in BOOLEAN, call' = [call EXCEPT ![t].pc = "status", ![t].obeyed = ~failed]
        PROVE  /\ Requests[t].pc = "held"
               /\ Requests' = [Requests EXCEPT ![t].pc = "sent", ![t].obeyed = ~failed]
    <3> DEFINE c == [call[t] EXCEPT !.pc = "status", !.obeyed = ~failed]
               r == [Requests[t] EXCEPT !.pc = "sent", !.obeyed = ~failed]
    <3>1. Requests[t] \in RequestRecords /\ Requests[t].pc = "held"
      BY <1>0, <2>1, RequestTypes DEF Requests, Abstract, Stage
    <3>2. c \in CallRecords /\ r \in RequestRecords
      <4>1. PICK obeyed \in BOOLEAN : obeyed = ~failed
        OBVIOUS
      <4>2. [call[t] EXCEPT !.pc = "status", !.obeyed = obeyed] \in CallRecords
        BY <1>0 DEF CallRecords, PCs
      <4>3. [Requests[t] EXCEPT !.pc = "sent", !.obeyed = obeyed] \in RequestRecords
        BY <3>1 DEF RequestRecords
      <4> QED BY <4>1, <4>2, <4>3
    <3>3. Shows(r, c)
      BY <1>0, <2>1, <3>1 DEF CallRecords, PCs, Shows, Requests, Abstract, Stage, RequestRecords
    <3>4. call' = [call EXCEPT ![t] = c]
      BY <2>2
    <3> HIDE DEF r, c
    <3>5. Requests' = [Requests EXCEPT ![t] = r]
      BY <1>0, <3>2, <3>3, <3>4, RequestOf
    <3> QED BY <3>1, <3>5 DEF r
  <2>3. ASSUME Goto(t, "status")
        PROVE  call' = [call EXCEPT ![t].pc = "status", ![t].obeyed = ~TRUE]
    BY <1>0, <2>1, <2>3 DEF CallRecords, Goto
  <2>4. ASSUME Effect(call[t].do)
        PROVE  order' = IF call[t].do.cmd \in Orders THEN call[t].do.cmd ELSE order
    BY <2>1, <2>4 DEF Effect, Orders, MoveCmds, RelayCmds, Cmds
  <2>5. CASE /\ Effect(call[t].do) /\ UNCHANGED faulted
             /\ call' = [call EXCEPT ![t].pc = "status", ![t].obeyed = ~FALSE]
    <3>1. faulted' = (faulted \/ FALSE)
      BY <1>0, <2>5 DEF PollTypeOK
    <3> QED BY <2>1, <2>2, <2>4, <2>5, <3>1, SendRefined
  <2>6. CASE /\ Faults /\ faulted' = TRUE /\ Goto(t, "status")
             /\ Effect(call[t].do) \/ UNCHANGED order
    <3>1. /\ Requests[t].pc = "held"
          /\ Requests' = [Requests EXCEPT ![t].pc = "sent", ![t].obeyed = ~TRUE]
      BY <2>2, <2>3, <2>6
    <3>2. CASE Effect(call[t].do)
      BY <2>1, <2>4, <2>6, <3>1, <3>2, SendRefined
    <3>3. CASE UNCHANGED order
      BY <2>1, <2>6, <3>1, <3>3, SendRefined
    <3> QED BY <2>6, <3>2, <3>3
  <2> QED BY <1>4, <2>5, <2>6 DEF RunCmd
<1>5. ASSUME NEW t \in Threads, Status(t) \/ PowerOff(t)
      PROVE  [Promise!CallNext]_(Promise!callVars)
  <2>1. call[t].pc \in {"status", "poweroff"} /\ UNCHANGED <<serialmutex, order>>
    BY <1>5 DEF Status, PowerOff
  <2>2. serialmutex = t /\ t # NoThread
    BY <1>0, <2>1 DEF LineIsExclusive, Inside
  <2>3. \E pc \in {"ret", "poweroff"}, ret \in Results :
          call' = [call EXCEPT ![t].pc = pc, ![t].ret = ret]
    <3>1. CASE Status(t) /\ ChkRelay(t)
      <4>1. state \in Results
        BY <1>0 DEF PollTypeOK, Results
      <4> QED BY <3>1, <4>1 DEF ChkRelay
    <3>2. CASE Status(t) /\ Goto(t, "ret")
      <4>1. call' = [call EXCEPT ![t].pc = "ret", ![t].ret = call[t].ret] /\ call[t].ret \in Results
        BY <1>0, <3>2 DEF CallRecords, Goto
      <4> QED BY <4>1
    <3>3. CASE PowerOff(t)
      <4>1. state' \in Results
        BY <1>0, <3>3 DEF PowerOff, RelayExchangeFails, PollTypeOK, Results, States
      <4> QED BY <3>3, <4>1 DEF PowerOff
    <3> QED BY <1>5, <3>1, <3>2, <3>3 DEF Status
  <2>4. UNCHANGED Requests
    BY <1>0, <2>1, <2>3 DEF Requests, Abstract, Stage
  <2>5. UNCHANGED faulted \/ (Faults /\ faulted' = TRUE)
    BY <1>5, Zenon DEF Status, PowerOff, RelayExchangeFails
  <2> QED BY <2>1, <2>2, <2>4, <2>5, Stutters, StumbleRefined
<1>6. ASSUME NEW t \in Threads, Return(t) PROVE Promise!CallNext
  <2>1. /\ call[t].pc = "ret" /\ call' = [call EXCEPT ![t].pc = "done"]
        /\ serialmutex' = NoThread /\ UNCHANGED <<order, faulted>>
    BY <1>6 DEF Return, Goto
  <2> DEFINE ok == call[t].ret # "DOME_S_ERROR"
  <2>2. ok \in BOOLEAN /\ (ok \/ faulted)
    BY <1>0, <2>1 DEF CallInv
  <2>3. Requests[t].pc = "sent"
        /\ Requests' = [Requests EXCEPT ![t].pc = "done", ![t].ok = ok]
    <3> DEFINE c == [call[t] EXCEPT !.pc = "done"]
               r == [Requests[t] EXCEPT !.pc = "done", !.ok = ok]
    <3>1. Requests[t] \in RequestRecords /\ Requests[t].pc = "sent"
      BY <1>0, <2>1, RequestTypes DEF Requests, Abstract, Stage
    <3>2. c \in CallRecords /\ r \in RequestRecords
      BY <1>0, <2>2, <3>1 DEF CallRecords, PCs, RequestRecords
    <3>3. Shows(r, c)
      BY <1>0, <2>1, <3>1 DEF CallRecords, PCs, Shows, Requests, Abstract, Stage, RequestRecords
    <3>4. call' = [call EXCEPT ![t] = c]
      BY <2>1
    <3> HIDE DEF r, c
    <3>5. Requests' = [Requests EXCEPT ![t] = r]
      BY <1>0, <3>2, <3>3, <3>4, RequestOf
    <3> QED BY <3>1, <3>5 DEF r
  <2> HIDE DEF ok
  <2>4. Promise!Answer(t)
    BY <2>1, <2>2, <2>3 DEF Promise!Answer, Promise!NoThread, NoThread, Requests
  <2> QED BY <2>4 DEF Promise!CallNext, Promise!CallStep
<1>7. ASSUME NEW t \in Threads, Take(t) PROVE Promise!CallNext
  <2>1. Requests[t].pc = "done" /\ Requests' = [Requests EXCEPT ![t] = Promise!Idle]
    <3>1. NoCall \in CallRecords /\ Promise!Idle \in RequestRecords
      BY DEF CallRecords, NoCall, PCs, Results, RequestRecords, Promise!Idle, Poll, Promise!Poll
    <3>2. Shows(Promise!Idle, NoCall)
      BY DEF Shows, NoCall, Stage, Promise!Idle, Poll, Promise!Poll
    <3>3. call[t].pc = "done" /\ call' = [call EXCEPT ![t] = NoCall]
      BY <1>7 DEF Take
    <3> QED BY <1>0, <3>1, <3>2, <3>3, RequestOf DEF Requests, Abstract, Stage
  <2>2. Promise!Take(t)
    BY <1>7, <2>1 DEF Take, Promise!Take, Requests
  <2> QED BY <2>2 DEF Promise!CallNext
<1>8. CASE PollTick \/ RoofMoves \/ UNCHANGED pollVars
  <2>1. UNCHANGED <<serialmutex, Requests, order, faulted>>
    BY <1>8 DEF PollTick, RoofMoves, Requests
  <2> QED BY <2>1, Stutters
<1>9. CASE PollRestart
  <2>1. Requests' = [t \in Threads |-> Promise!Idle]
    BY <1>9 DEF PollRestart, NoCall, Requests, Abstract, Stage, Promise!Idle, Poll, Promise!Poll
  <2>2. Promise!Reset
    BY <1>9, <2>1 DEF PollRestart, Promise!Reset, Promise!NoThread, NoThread, Requests
  <2> QED BY <2>2 DEF Promise!CallNext
<1> QED BY <1>1, <1>2, <1>3, <1>4, <1>5, <1>6, <1>7, <1>8, <1>9 DEF PollNext, InsideStep

\* dome_poll keeps what DomeCall promises to the main loop and the handlers.
THEOREM PromiseKept == PollSpec => KeepsPromise
<1>1. PollInit => Promise!CallInit
  BY PromiseInit
<1>2. IInv /\ [PollNext]_pollVars => [Promise!CallNext]_(Promise!callVars)
  BY PromiseStep
<1> QED BY <1>1, <1>2, Invariance, PTL DEF PollSpec, KeepsPromise, Promise!CallSpec
=============================================================================
