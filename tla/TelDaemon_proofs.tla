-------------------------- MODULE TelDaemon_proofs --------------------------
(***************************************************************************)
(* Proofs about teldaemon_astrosib, for any set of client commands and     *)
(* focuser slots and any limit of the weather's age.                       *)
(***************************************************************************)
EXTENDS TelDaemonProps, TLAPS

\* DEFs that every step needs.
USE DEF flagVars, skyVars, lineVars, telVars

-----------------------------------------------------------------------------
(* The inductive invariant. *)

\* From the moment the main loop begins to close for a ban, the ban is on unless a
\* flag went down.
FlagInv == (forbidden \/ mainpc = "closing") /\ ~lowered => Forbidden

\* A client that has passed the first half of CHKALLOWED in a noted ban is refused
\* by the second.
ClientInv ==
  forbidden /\ mainpc # "clear" /\ ~lowered /\ client = "weather?" => BadWeather

\* The copy lives from take to store, and while it does an accepted command is in
\* it, unless it raced.
CopyInv ==
  /\ mainpc \notin Working => tcmd = None
  /\ mainpc \in Working =>
       \/ accepted \in {None, tcmd}
       \/ raced \/ misled
       \/ accepted = "CMD_FOCSTOP" /\ faulted

\* A request in a slot, or a move about to be sent for it, was not answered yet.
MoveInv ==
  \A a \in {"Absmove", "Relmove"} :
    focus[a] = "in range" \/ mainpc = MoveOf(a) => fresh[a] \/ faulted

IInv ==
  /\ TelTypeOK /\ FlagInv /\ ClientInv /\ CopyInv /\ MoveInv
  /\ ShuttersStayClosed /\ OpenDiesInBan /\ AcceptedIsKept

-----------------------------------------------------------------------------
(* The types, in parts small enough for the provers. *)

CommandTypes ==
  /\ cmd \in TelCommands \cup {None} /\ tcmd \in TelCommands \cup {None}
  /\ accepted \in TelCommands \cup {None}
  /\ order \in {"none", "CMD_OPEN", "CMD_CLOSE"}
  /\ client \in {"idle", "forbid?", "weather?"}
  /\ mainpc \in MainPCs
FlagTypes ==
  /\ ForbidObservations \in BOOLEAN /\ BadWeather \in BOOLEAN
  /\ forbidden \in BOOLEAN /\ lowered \in BOOLEAN /\ raced \in BOOLEAN
FocusTypes ==
  /\ focus \in [{"Absmove", "Relmove"} -> Requests]
  /\ fresh \in [{"Absmove", "Relmove"} -> BOOLEAN]
SkyTypes ==
  /\ tweather \in 0..(WeatherLost + 1) /\ weatherAge \in 0..(WeatherLost + 1)
  /\ weather \in [there : BOOLEAN, bad : BOOLEAN]
LineTypes ==
  /\ belated \in BOOLEAN /\ misled \in BOOLEAN /\ faulted \in BOOLEAN
  /\ (misled => faulted) /\ (belated => misled) /\ (faulted => Faults)

\* Together they are the type invariant.
LEMMA TypeParts ==
  TelTypeOK <=> CommandTypes /\ FlagTypes /\ FocusTypes /\ SkyTypes /\ LineTypes
BY DEF TelTypeOK, CommandTypes, FlagTypes, FocusTypes, SkyTypes, LineTypes

\* What the constants are.
LEMMA Bounds == WeatherLost \in Nat /\ Faults \in BOOLEAN /\ Commands \subseteq TelCommands
                /\ Axes \subseteq {"Absmove", "Relmove"}
BY TelAssumption

-----------------------------------------------------------------------------
(* The initial state and every step. *)

\* Once misled, or faulty, always so.
LEMMA LineGrows == ASSUME NEW reached, NEW ok, Exchange(reached, ok)
                   PROVE  (misled => misled') /\ (faulted => faulted')
BY Zenon DEF Exchange

\* Every conjunct holds in a daemon that has just started.
LEMMA InvInit == TelInit => IInv
<1>1. TelInit => TelTypeOK
  <2> SUFFICES ASSUME TelInit
               PROVE  CommandTypes /\ FlagTypes /\ FocusTypes /\ SkyTypes /\ LineTypes
    BY TypeParts
  <2>1. CommandTypes
    BY DEF TelInit, CommandTypes, None, MainPCs
  <2>2. FlagTypes
    BY DEF TelInit, FlagTypes
  <2>3. FocusTypes
    BY DEF TelInit, FocusTypes, Requests
  <2>4. SkyTypes
    <3>1. weather \in [there : BOOLEAN, bad : BOOLEAN]
      BY DEF TelInit
    <3>2. tweather = WeatherLost + 1 /\ weatherAge = WeatherLost + 1
      BY DEF TelInit
    <3> QED BY <3>1, <3>2, Bounds DEF SkyTypes
  <2>5. LineTypes
    BY Bounds DEF TelInit, LineTypes
  <2> QED BY <2>1, <2>2, <2>3, <2>4, <2>5
<1>2. TelInit => FlagInv /\ ClientInv /\ CopyInv /\ MoveInv
  BY DEF TelInit, FlagInv, ClientInv, CopyInv, MoveInv, Working, MoveOf
<1>3. TelInit => ShuttersStayClosed /\ OpenDiesInBan /\ AcceptedIsKept
  BY DEF TelInit, ShuttersStayClosed, OpenDiesInBan, AcceptedIsKept
<1> QED BY <1>1, <1>2, <1>3 DEF IInv

\* One step per action, and under it one for each conjunct the action can disturb;
\* the last of these is for those it leaves alone.
LEMMA InvNext == ASSUME IInv PROVE [TelNext]_telVars => IInv'
<1>0. CommandTypes /\ FlagTypes /\ FocusTypes /\ SkyTypes /\ LineTypes
  BY TypeParts DEF IInv
<1>1. ASSUME NEW c \in Commands, Accept(c) PROVE IInv'
  <2>1. TelTypeOK'
    <3>1. CommandTypes'
      BY <1>0, <1>1, Bounds DEF CommandTypes, Accept, Leave, Unlocked
    <3>2. FlagTypes'
      BY <1>0, <1>1 DEF FlagTypes, Accept, Leave, Unlocked
    <3>3. FocusTypes'
      BY <1>0, <1>1 DEF FocusTypes, Requests, Accept, Leave, Unlocked
    <3>4. SkyTypes'
      BY <1>0, <1>1, Bounds DEF SkyTypes, Accept, Leave, Unlocked
    <3>5. LineTypes'
      BY <1>0, <1>1 DEF LineTypes, Accept, Leave, Unlocked
    <3> QED BY <3>1, <3>2, <3>3, <3>4, <3>5
            DEF TelTypeOK, CommandTypes, FlagTypes, FocusTypes, SkyTypes, LineTypes
  <2>2. CopyInv' /\ AcceptedIsKept'
    BY <1>1, Bounds DEF IInv, CopyInv, AcceptedIsKept, Working, None, TelTypeOK, Accept,
        Leave, Unlocked, TelCommands
  <2>3. OpenDiesInBan'
    BY <1>1, Bounds DEF IInv, OpenDiesInBan, ClientInv, CopyInv, Working, Forbidden, None,
        TelTypeOK, Accept, Leave, Unlocked, TelCommands
  <2>4. FlagInv' /\ ClientInv' /\ MoveInv' /\ ShuttersStayClosed'
    BY <1>1, Bounds DEF IInv, FlagInv, Forbidden, ClientInv, MoveInv, MoveOf,
        ShuttersStayClosed, TelTypeOK, Accept, Leave, Unlocked, TelCommands
  <2> QED BY <2>1, <2>2, <2>3, <2>4 DEF IInv
<1>2. ASSUME OpenLock PROVE IInv'
  <2>1. TelTypeOK'
    <3>1. CommandTypes'
      BY <1>0, <1>2 DEF CommandTypes, OpenLock, clientOnly, Unlocked
    <3>2. FlagTypes'
      BY <1>0, <1>2 DEF FlagTypes, OpenLock, clientOnly, Unlocked
    <3>3. FocusTypes'
      BY <1>0, <1>2 DEF FocusTypes, Requests, OpenLock, clientOnly, Unlocked
    <3>4. SkyTypes'
      BY <1>0, <1>2, Bounds DEF SkyTypes, OpenLock, clientOnly, Unlocked
    <3>5. LineTypes'
      BY <1>0, <1>2 DEF LineTypes, OpenLock, clientOnly, Unlocked
    <3> QED BY <3>1, <3>2, <3>3, <3>4, <3>5
            DEF TelTypeOK, CommandTypes, FlagTypes, FocusTypes, SkyTypes, LineTypes
  <2>2. ClientInv'
    BY <1>2, Bounds DEF IInv, ClientInv, FlagInv, Forbidden, TelTypeOK, OpenLock,
        clientOnly, Unlocked
  <2>3. /\ FlagInv' /\ CopyInv' /\ AcceptedIsKept' /\ MoveInv' /\ ShuttersStayClosed'
        /\ OpenDiesInBan'
    BY <1>2, Bounds DEF IInv, FlagInv, Forbidden, CopyInv, AcceptedIsKept, Working, None,
        MoveInv, MoveOf, ShuttersStayClosed, OpenDiesInBan, ClientInv, TelTypeOK, OpenLock,
        clientOnly, Unlocked
  <2> QED BY <2>1, <2>2, <2>3 DEF IInv
<1>3. ASSUME OpenForbid PROVE IInv'
  <2>1. TelTypeOK'
    <3>1. CommandTypes'
      BY <1>0, <1>3 DEF CommandTypes, OpenForbid, clientOnly
    <3>2. FlagTypes'
      BY <1>0, <1>3 DEF FlagTypes, OpenForbid, clientOnly
    <3>3. FocusTypes'
      BY <1>0, <1>3 DEF FocusTypes, Requests, OpenForbid, clientOnly
    <3>4. SkyTypes'
      BY <1>0, <1>3, Bounds DEF SkyTypes, OpenForbid, clientOnly
    <3>5. LineTypes'
      BY <1>0, <1>3 DEF LineTypes, OpenForbid, clientOnly
    <3> QED BY <3>1, <3>2, <3>3, <3>4, <3>5
            DEF TelTypeOK, CommandTypes, FlagTypes, FocusTypes, SkyTypes, LineTypes
  <2>2. ClientInv'
    BY <1>3, Bounds DEF IInv, ClientInv, FlagInv, Forbidden, TelTypeOK, OpenForbid,
        clientOnly
  <2>3. /\ FlagInv' /\ CopyInv' /\ AcceptedIsKept' /\ MoveInv' /\ ShuttersStayClosed'
        /\ OpenDiesInBan'
    BY <1>3, Bounds DEF IInv, FlagInv, Forbidden, CopyInv, AcceptedIsKept, Working, None,
        MoveInv, MoveOf, ShuttersStayClosed, OpenDiesInBan, ClientInv, TelTypeOK, OpenForbid,
        clientOnly
  <2> QED BY <2>1, <2>2, <2>3 DEF IInv
<1>4. ASSUME OpenWeather PROVE IInv'
  <2>1. TelTypeOK'
    <3>1. CommandTypes'
      BY <1>0, <1>4 DEF CommandTypes, TelCommands, None, OpenWeather, Leave
    <3>2. FlagTypes'
      <4>1. raced' \in BOOLEAN
        <5>1. CASE BadWeather
          BY <1>0, <1>4, <5>1 DEF FlagTypes, OpenWeather
        <5>2. CASE ~BadWeather /\ Leave("CMD_OPEN")
          BY <5>2 DEF Leave
        <5> QED BY <1>4, <5>1, <5>2 DEF OpenWeather
      <4> QED BY <1>0, <1>4, <4>1 DEF FlagTypes, OpenWeather
    <3>3. FocusTypes'
      BY <1>0, <1>4 DEF FocusTypes, Requests, OpenWeather, Leave
    <3>4. SkyTypes'
      BY <1>0, <1>4, Bounds DEF SkyTypes, OpenWeather, Leave
    <3>5. LineTypes'
      BY <1>0, <1>4 DEF LineTypes, OpenWeather, Leave
    <3> QED BY <3>1, <3>2, <3>3, <3>4, <3>5
            DEF TelTypeOK, CommandTypes, FlagTypes, FocusTypes, SkyTypes, LineTypes
  <2>2. ClientInv'
    BY <1>4, Bounds DEF IInv, ClientInv, FlagInv, Forbidden, TelTypeOK, OpenWeather, Leave
  <2>3. CopyInv' /\ AcceptedIsKept'
    BY <1>4, Bounds DEF IInv, CopyInv, AcceptedIsKept, Working, None, TelTypeOK,
        OpenWeather, Leave
  <2>4. OpenDiesInBan'
    BY <1>4, Bounds DEF IInv, OpenDiesInBan, ClientInv, CopyInv, Working, Forbidden, None,
        TelTypeOK, OpenWeather, Leave
  <2>5. FlagInv' /\ MoveInv' /\ ShuttersStayClosed'
    BY <1>4, Bounds DEF IInv, FlagInv, Forbidden, MoveInv, MoveOf, ShuttersStayClosed,
        TelTypeOK, OpenWeather, Leave
  <2> QED BY <2>1, <2>2, <2>3, <2>4, <2>5 DEF IInv
<1>5. ASSUME NEW a \in Axes, NEW r \in Requests, Request(a, r) PROVE IInv'
  <2>1. TelTypeOK'
    <3>1. CommandTypes'
      BY <1>0, <1>5 DEF CommandTypes, Request, Unlocked
    <3>2. FlagTypes'
      BY <1>0, <1>5 DEF FlagTypes, Request, Unlocked
    <3>3. FocusTypes'
      BY <1>0, <1>5 DEF FocusTypes, Requests, Request, Unlocked
    <3>4. SkyTypes'
      BY <1>0, <1>5, Bounds DEF SkyTypes, Request, Unlocked
    <3>5. LineTypes'
      BY <1>0, <1>5 DEF LineTypes, Request, Unlocked
    <3> QED BY <3>1, <3>2, <3>3, <3>4, <3>5
            DEF TelTypeOK, CommandTypes, FlagTypes, FocusTypes, SkyTypes, LineTypes
  <2>2. MoveInv'
    BY <1>5, Bounds DEF IInv, MoveInv, MoveOf, TelTypeOK, Request, Unlocked, Requests
  <2>3. /\ FlagInv' /\ ClientInv' /\ CopyInv' /\ AcceptedIsKept' /\ ShuttersStayClosed'
        /\ OpenDiesInBan'
    BY <1>5, Bounds DEF IInv, FlagInv, Forbidden, ClientInv, CopyInv, AcceptedIsKept,
        Working, None, ShuttersStayClosed, OpenDiesInBan, TelTypeOK, Request, Unlocked, Requests
  <2> QED BY <2>1, <2>2, <2>3 DEF IInv
<1>6. ASSUME MainTop PROVE IInv'
  <2>1. TelTypeOK'
    <3>1. CommandTypes'
      BY <1>0, <1>6 DEF CommandTypes, MainTop, MainPCs
    <3>2. FlagTypes'
      BY <1>0, <1>6 DEF FlagTypes, Forbidden, MainTop
    <3>3. FocusTypes'
      BY <1>0, <1>6 DEF FocusTypes, Requests, MainTop
    <3>4. SkyTypes'
      BY <1>0, <1>6, Bounds DEF SkyTypes, MainTop
    <3>5. LineTypes'
      BY <1>0, <1>6 DEF LineTypes, MainTop
    <3> QED BY <3>1, <3>2, <3>3, <3>4, <3>5
            DEF TelTypeOK, CommandTypes, FlagTypes, FocusTypes, SkyTypes, LineTypes
  <2>2. FlagInv'
    BY <1>6, Bounds DEF IInv, FlagInv, Forbidden, TelTypeOK, MainTop, MainPCs
  <2>3. ClientInv'
    BY <1>6, Bounds DEF IInv, ClientInv, FlagInv, Forbidden, TelTypeOK, MainTop, MainPCs
  <2>4. CopyInv' /\ AcceptedIsKept'
    BY <1>6, Bounds DEF IInv, CopyInv, AcceptedIsKept, Working, None, TelTypeOK, MainTop,
        MainPCs
  <2>5. MoveInv'
    BY <1>6, Bounds DEF IInv, MoveInv, MoveOf, TelTypeOK, MainTop, MainPCs
  <2>6. OpenDiesInBan'
    BY <1>6, Bounds DEF IInv, OpenDiesInBan, ClientInv, CopyInv, Working, Forbidden, None,
        TelTypeOK, MainTop, MainPCs
  <2>7. ShuttersStayClosed'
    BY <1>6, Bounds DEF IInv, ShuttersStayClosed, TelTypeOK, MainTop, MainPCs
  <2> QED BY <2>1, <2>2, <2>3, <2>4, <2>5, <2>6, <2>7 DEF IInv
<1>7. ASSUME MainClose PROVE IInv'
  <2>1. TelTypeOK'
    <3>1. CommandTypes'
      BY <1>0, <1>7 DEF CommandTypes, MainClose, Exchange, Obeyed, MainPCs
    <3>2. FlagTypes'
      BY <1>0, <1>7 DEF FlagTypes, MainClose, Exchange, Obeyed
    <3>3. FocusTypes'
      BY <1>0, <1>7 DEF FocusTypes, Requests, MainClose, Exchange, Obeyed
    <3>4. SkyTypes'
      BY <1>0, <1>7, Bounds DEF SkyTypes, MainClose, Exchange, Obeyed
    <3>5. LineTypes'
      BY <1>0, <1>7 DEF LineTypes, MainClose, Exchange, Obeyed
    <3> QED BY <3>1, <3>2, <3>3, <3>4, <3>5
            DEF TelTypeOK, CommandTypes, FlagTypes, FocusTypes, SkyTypes, LineTypes
  <2>2. FlagInv'
    BY <1>7, Bounds DEF IInv, FlagInv, Forbidden, TelTypeOK, MainClose, Exchange, Obeyed,
        MainPCs, TelCommands
  <2>3. ClientInv'
    BY <1>7, Bounds DEF IInv, ClientInv, FlagInv, Forbidden, TelTypeOK, MainClose, Exchange,
        Obeyed, MainPCs, TelCommands
  <2>4. CopyInv' /\ AcceptedIsKept'
    BY <1>7, Bounds DEF IInv, CopyInv, AcceptedIsKept, Working, None, TelTypeOK, MainClose,
        Exchange, Obeyed, MainPCs, TelCommands
  <2>5. MoveInv'
    BY <1>7, Bounds DEF IInv, MoveInv, MoveOf, TelTypeOK, MainClose, Exchange, Obeyed,
        MainPCs, TelCommands
  <2>6. ShuttersStayClosed'
    BY <1>7, Bounds DEF IInv, ShuttersStayClosed, TelTypeOK, MainClose, Exchange, Obeyed,
        MainPCs, TelCommands
  <2>7. OpenDiesInBan'
    BY <1>7, Bounds DEF IInv, OpenDiesInBan, ClientInv, CopyInv, Working, Forbidden, None,
        TelTypeOK, MainClose, Exchange, Obeyed, MainPCs, TelCommands
  <2> QED BY <2>1, <2>2, <2>3, <2>4, <2>5, <2>6, <2>7 DEF IInv
<1>8. ASSUME MainClear PROVE IInv'
  <2>1. TelTypeOK'
    <3>1. CommandTypes'
      BY <1>0, <1>8 DEF CommandTypes, MainClear, Unlocked, MainPCs
    <3>2. FlagTypes'
      BY <1>0, <1>8 DEF FlagTypes, MainClear, Unlocked
    <3>3. FocusTypes'
      BY <1>0, <1>8 DEF FocusTypes, Requests, MainClear, Unlocked
    <3>4. SkyTypes'
      BY <1>0, <1>8, Bounds DEF SkyTypes, MainClear, Unlocked
    <3>5. LineTypes'
      BY <1>0, <1>8 DEF LineTypes, MainClear, Unlocked
    <3> QED BY <3>1, <3>2, <3>3, <3>4, <3>5
            DEF TelTypeOK, CommandTypes, FlagTypes, FocusTypes, SkyTypes, LineTypes
  <2>2. ClientInv'
    BY <1>8, Bounds DEF IInv, ClientInv, FlagInv, Forbidden, TelTypeOK, MainClear, Unlocked,
        MainPCs
  <2>3. CopyInv' /\ AcceptedIsKept'
    BY <1>8, Bounds DEF IInv, CopyInv, AcceptedIsKept, Working, None, TelTypeOK, MainClear,
        Unlocked, MainPCs
  <2>4. OpenDiesInBan'
    BY <1>8, Bounds DEF IInv, OpenDiesInBan, ClientInv, CopyInv, Working, Forbidden, None,
        TelTypeOK, MainClear, Unlocked, MainPCs
  <2>5. FlagInv' /\ MoveInv' /\ ShuttersStayClosed'
    BY <1>8, Bounds DEF IInv, FlagInv, Forbidden, MoveInv, MoveOf, ShuttersStayClosed,
        TelTypeOK, MainClear, Unlocked, MainPCs
  <2> QED BY <2>1, <2>2, <2>3, <2>4, <2>5 DEF IInv
<1>9. ASSUME MainWeather PROVE IInv'
  <2>1. TelTypeOK'
    <3>1. CommandTypes'
      BY <1>0, <1>9 DEF CommandTypes, MainWeather, Verdict, MainPCs
    <3>2. FlagTypes'
      BY <1>0, <1>9 DEF FlagTypes, MainWeather, Verdict
    <3>3. FocusTypes'
      BY <1>0, <1>9 DEF FocusTypes, Requests, MainWeather, Verdict
    <3>4. SkyTypes'
      BY <1>0, <1>9, Bounds DEF SkyTypes, MainWeather, Verdict
    <3>5. LineTypes'
      BY <1>0, <1>9 DEF LineTypes, MainWeather, Verdict
    <3> QED BY <3>1, <3>2, <3>3, <3>4, <3>5
            DEF TelTypeOK, CommandTypes, FlagTypes, FocusTypes, SkyTypes, LineTypes
  <2>2. FlagInv'
    BY <1>9, Bounds DEF IInv, FlagInv, Forbidden, TelTypeOK, MainWeather, Verdict, MainPCs
  <2>3. ClientInv'
    BY <1>9, Bounds DEF IInv, ClientInv, FlagInv, Forbidden, TelTypeOK, MainWeather,
        Verdict, MainPCs
  <2>4. CopyInv' /\ AcceptedIsKept' /\ MoveInv' /\ ShuttersStayClosed' /\ OpenDiesInBan'
    BY <1>9, Bounds DEF IInv, CopyInv, AcceptedIsKept, Working, None, MoveInv, MoveOf,
        ShuttersStayClosed, OpenDiesInBan, ClientInv, Forbidden, TelTypeOK, MainWeather,
        Verdict, MainPCs
  <2> QED BY <2>1, <2>2, <2>3, <2>4 DEF IInv
<1>10. ASSUME MainPoll PROVE IInv'
  <2>1. TelTypeOK'
    <3>1. CommandTypes'
      BY <1>0, <1>10 DEF CommandTypes, MainPoll, MainPCs
    <3>2. FlagTypes'
      BY <1>0, <1>10 DEF FlagTypes, MainPoll
    <3>3. FocusTypes'
      BY <1>0, <1>10 DEF FocusTypes, Requests, MainPoll
    <3>4. SkyTypes'
      BY <1>0, <1>10, Bounds DEF SkyTypes, MainPoll
    <3>5. LineTypes'
      <4>1. CASE UNCHANGED lineVars
        BY <1>0, <4>1 DEF LineTypes
      <4>2. CASE Faults /\ faulted' = TRUE /\ belated' \in BOOLEAN /\ misled' = (misled \/ belated')
        BY <1>0, <4>2 DEF LineTypes
      <4> QED BY <1>10, <4>1, <4>2 DEF MainPoll
    <3> QED BY <3>1, <3>2, <3>3, <3>4, <3>5
            DEF TelTypeOK, CommandTypes, FlagTypes, FocusTypes, SkyTypes, LineTypes
  <2>2. CopyInv' /\ AcceptedIsKept'
    BY <1>10, Bounds DEF IInv, CopyInv, AcceptedIsKept, Working, None, TelTypeOK, MainPoll,
        MainPCs
  <2>3. MoveInv'
    BY <1>10, Bounds DEF IInv, MoveInv, MoveOf, TelTypeOK, MainPoll, MainPCs
  <2>4. ShuttersStayClosed'
    BY <1>10, Bounds DEF IInv, ShuttersStayClosed, TelTypeOK, MainPoll, MainPCs
  <2>5. FlagInv' /\ ClientInv' /\ OpenDiesInBan'
    BY <1>10, Bounds DEF IInv, FlagInv, Forbidden, ClientInv, OpenDiesInBan, CopyInv,
        Working, None, TelTypeOK, MainPoll, MainPCs
  <2> QED BY <2>1, <2>2, <2>3, <2>4, <2>5 DEF IInv
<1>11. ASSUME MainTake PROVE IInv'
  <2>1. TelTypeOK'
    <3>1. CommandTypes'
      BY <1>0, <1>11 DEF CommandTypes, Working, MainTake, Unlocked, MainPCs
    <3>2. FlagTypes'
      BY <1>0, <1>11 DEF FlagTypes, MainTake, Unlocked
    <3>3. FocusTypes'
      BY <1>0, <1>11 DEF FocusTypes, Requests, MainTake, Unlocked
    <3>4. SkyTypes'
      BY <1>0, <1>11, Bounds DEF SkyTypes, MainTake, Unlocked
    <3>5. LineTypes'
      BY <1>0, <1>11 DEF LineTypes, MainTake, Unlocked
    <3> QED BY <3>1, <3>2, <3>3, <3>4, <3>5
            DEF TelTypeOK, CommandTypes, FlagTypes, FocusTypes, SkyTypes, LineTypes
  <2>2. CopyInv' /\ AcceptedIsKept'
    BY <1>11, Bounds DEF IInv, CopyInv, AcceptedIsKept, Working, None, TelTypeOK, MainTake,
        Unlocked, MainPCs
  <2>3. OpenDiesInBan'
    BY <1>11, Bounds DEF IInv, OpenDiesInBan, ClientInv, CopyInv, Working, Forbidden, None,
        TelTypeOK, MainTake, Unlocked, MainPCs
  <2>4. FlagInv' /\ ClientInv' /\ MoveInv' /\ ShuttersStayClosed'
    BY <1>11, Bounds DEF IInv, FlagInv, Forbidden, ClientInv, MoveInv, MoveOf,
        ShuttersStayClosed, TelTypeOK, MainTake, Unlocked, MainPCs
  <2> QED BY <2>1, <2>2, <2>3, <2>4 DEF IInv
<1>12. ASSUME MainWork PROVE IInv'
  <2>1. TelTypeOK'
    <3>1. CommandTypes'
      BY <1>0, <1>12 DEF CommandTypes, Working, MainWork, MainPCs
    <3>2. FlagTypes'
      BY <1>0, <1>12 DEF FlagTypes, MainWork
    <3>3. FocusTypes'
      BY <1>0, <1>12 DEF FocusTypes, Requests, MainWork
    <3>4. SkyTypes'
      BY <1>0, <1>12, Bounds DEF SkyTypes, MainWork
    <3>5. LineTypes'
      BY <1>0, <1>12 DEF LineTypes, MainWork
    <3> QED BY <3>1, <3>2, <3>3, <3>4, <3>5
            DEF TelTypeOK, CommandTypes, FlagTypes, FocusTypes, SkyTypes, LineTypes
  <2>2. CopyInv' /\ AcceptedIsKept'
    BY <1>12, Bounds DEF IInv, CopyInv, AcceptedIsKept, Working, None, TelTypeOK, MainWork,
        MainPCs
  <2>3. OpenDiesInBan'
    BY <1>12, Bounds DEF IInv, OpenDiesInBan, ClientInv, CopyInv, Working, Forbidden, None,
        TelTypeOK, MainWork, MainPCs
  <2>4. FlagInv' /\ ClientInv' /\ MoveInv' /\ ShuttersStayClosed'
    BY <1>12, Bounds DEF IInv, FlagInv, Forbidden, ClientInv, MoveInv, MoveOf,
        ShuttersStayClosed, TelTypeOK, MainWork, MainPCs
  <2> QED BY <2>1, <2>2, <2>3, <2>4 DEF IInv
<1>13. ASSUME MainSend PROVE IInv'
  <2>1. TelTypeOK'
    <3>1. CommandTypes'
      BY <1>0, <1>13 DEF CommandTypes, Working, MainSend, Exchange, Obeyed, MainPCs
    <3>2. FlagTypes'
      BY <1>0, <1>13 DEF FlagTypes, MainSend, Exchange, Obeyed
    <3>3. FocusTypes'
      BY <1>0, <1>13 DEF FocusTypes, Requests, MainSend, Exchange, Obeyed
    <3>4. SkyTypes'
      BY <1>0, <1>13, Bounds DEF SkyTypes, MainSend, Exchange, Obeyed
    <3>5. LineTypes'
      <4>1. PICK reached, ok \in BOOLEAN :
              \/ Exchange(reached, ok)
              \/ /\ belated' \in {FALSE, belated} /\ misled' = misled
                 /\ reached \/ Faults
                 /\ faulted' = (faulted \/ ~reached)
        BY <1>13, Zenon DEF MainSend
      <4>2. CASE Exchange(reached, ok)
        BY <1>0, <4>2 DEF LineTypes, Exchange
      <4>3. CASE /\ belated' \in {FALSE, belated} /\ misled' = misled
                 /\ reached \/ Faults
                 /\ faulted' = (faulted \/ ~reached)
        <5>1. belated' \in BOOLEAN /\ misled' \in BOOLEAN /\ faulted' \in BOOLEAN
          BY <1>0, <4>3 DEF LineTypes
        <5>2. (misled' => faulted') /\ (faulted' => Faults)
          BY <1>0, <4>3, Zenon DEF LineTypes
        <5>3. belated' => misled'
          BY <1>0, <4>3 DEF LineTypes
        <5> QED BY <5>1, <5>2, <5>3 DEF LineTypes
      <4> QED BY <4>1, <4>2, <4>3
    <3> QED BY <3>1, <3>2, <3>3, <3>4, <3>5
            DEF TelTypeOK, CommandTypes, FlagTypes, FocusTypes, SkyTypes, LineTypes
  <2>2. CopyInv' /\ AcceptedIsKept'
    <3> DEFINE Kept == \/ accepted \in {None, tcmd}
                       \/ raced \/ misled
                       \/ accepted = "CMD_FOCSTOP" /\ faulted
    <3> SUFFICES Kept'
      BY <1>13 DEF CopyInv, AcceptedIsKept, MainSend, Working
    <3>1. PICK reached, ok \in BOOLEAN :
            /\ Obeyed(tcmd, reached)
            /\ \/ /\ tcmd # "CMD_FOCSTOP"
                  /\ Exchange(reached, ok)
                  /\ tcmd' = IF ok THEN None ELSE tcmd
               \/ /\ tcmd = "CMD_FOCSTOP"
                  /\ faulted' = (faulted \/ ~reached)
                  /\ UNCHANGED misled
      BY <1>13, Zenon DEF MainSend
    <3>2. CASE accepted # tcmd
      <4>1. accepted' \in {accepted, None}
        BY <3>1, <3>2 DEF Obeyed
      <4>2. accepted = None \/ raced \/ misled \/ (accepted = "CMD_FOCSTOP" /\ faulted)
        BY <1>13, <3>2 DEF IInv, CopyInv, MainSend, Working
      <4>3. (misled => misled') /\ (faulted => faulted')
        <5>1. CASE Exchange(reached, ok)
          BY <5>1, LineGrows
        <5>2. CASE faulted' = (faulted \/ ~reached) /\ UNCHANGED misled
          BY <5>2, Zenon
        <5> QED BY <3>1, <5>1, <5>2, Zenon
      <4>4. raced' = raced
        BY <1>13 DEF MainSend
      <4> QED BY <4>1, <4>2, <4>3, <4>4
    <3>3. CASE accepted = tcmd /\ reached
      BY <3>1, <3>3 DEF Obeyed
    <3>4. CASE accepted = tcmd /\ ~reached /\ tcmd = "CMD_FOCSTOP"
      BY <3>1, <3>4 DEF Obeyed
    <3>5. CASE accepted = tcmd /\ ~reached /\ tcmd # "CMD_FOCSTOP"
      <4>1. ok => misled
        BY <3>1, <3>5 DEF Exchange, IInv, TelTypeOK
      <4>2. (misled => misled') /\ accepted' = accepted /\ (~ok => tcmd' = tcmd)
        BY <3>1, <3>5, LineGrows DEF Obeyed
      <4> QED BY <4>1, <4>2, <3>5
    <3> QED BY <3>1, <3>2, <3>3, <3>4, <3>5
  <2>3. MoveInv'
    BY <1>13, Bounds DEF IInv, MoveInv, MoveOf, TelTypeOK, MainSend, Exchange, Obeyed,
        MainPCs, TelCommands
  <2>4. ShuttersStayClosed'
    <3>1. PICK reached, ok \in BOOLEAN :
            Obeyed(tcmd, reached) /\ (Exchange(reached, ok) \/ UNCHANGED misled)
      BY <1>13, Zenon DEF MainSend
    <3>2. misled => misled'
      BY <3>1, LineGrows, Zenon
    <3>3. forbidden /\ ~lowered => tcmd # "CMD_OPEN"
      BY <1>13 DEF IInv, OpenDiesInBan, MainSend
    <3>4. order' \in {order, "CMD_CLOSE"} \/ tcmd = "CMD_OPEN"
      BY <3>1 DEF Obeyed
    <3>5. forbidden' = forbidden /\ lowered' = lowered
      BY <1>13 DEF MainSend
    <3> QED BY <3>2, <3>3, <3>4, <3>5 DEF IInv, ShuttersStayClosed
  <2>5. OpenDiesInBan'
    BY <1>13, Bounds DEF IInv, OpenDiesInBan, ClientInv, CopyInv, Working, Forbidden, None,
        TelTypeOK, MainSend, Exchange, Obeyed, MainPCs, TelCommands
  <2>6. FlagInv' /\ ClientInv'
    BY <1>13, Bounds DEF IInv, FlagInv, Forbidden, ClientInv, TelTypeOK, MainSend, Exchange,
        Obeyed, MainPCs, TelCommands
  <2> QED BY <2>1, <2>2, <2>3, <2>4, <2>5, <2>6 DEF IInv
<1>14. ASSUME MainStore PROVE IInv'
  <2>1. TelTypeOK'
    <3>1. CommandTypes'
      BY <1>0, <1>14 DEF CommandTypes, MainStore, Unlocked, MainPCs
    <3>2. FlagTypes'
      BY <1>0, <1>14 DEF FlagTypes, MainStore, Unlocked
    <3>3. FocusTypes'
      BY <1>0, <1>14 DEF FocusTypes, Requests, MainStore, Unlocked
    <3>4. SkyTypes'
      BY <1>0, <1>14, Bounds DEF SkyTypes, MainStore, Unlocked
    <3>5. LineTypes'
      BY <1>0, <1>14 DEF LineTypes, MainStore, Unlocked
    <3> QED BY <3>1, <3>2, <3>3, <3>4, <3>5
            DEF TelTypeOK, CommandTypes, FlagTypes, FocusTypes, SkyTypes, LineTypes
  <2>2. CopyInv' /\ AcceptedIsKept'
    BY <1>14, Bounds DEF IInv, CopyInv, AcceptedIsKept, Working, None, TelTypeOK, MainStore,
        Unlocked, MainPCs
  <2>3. OpenDiesInBan'
    BY <1>14, Bounds DEF IInv, OpenDiesInBan, ClientInv, CopyInv, Working, Forbidden, None,
        TelTypeOK, MainStore, Unlocked, MainPCs
  <2>4. FlagInv' /\ ClientInv' /\ MoveInv' /\ ShuttersStayClosed'
    BY <1>14, Bounds DEF IInv, FlagInv, Forbidden, ClientInv, MoveInv, MoveOf,
        ShuttersStayClosed, TelTypeOK, MainStore, Unlocked, MainPCs
  <2> QED BY <2>1, <2>2, <2>3, <2>4 DEF IInv
<1>15. ASSUME NEW a \in {"Absmove", "Relmove"}, MainFocus(a) PROVE IInv'
  <2>1. TelTypeOK'
    <3>1. CommandTypes'
      BY <1>0, <1>15 DEF CommandTypes, MainFocus, After, MoveOf, MainPCs
    <3>2. FlagTypes'
      BY <1>0, <1>15 DEF FlagTypes, MainFocus, After, MoveOf
    <3>3. FocusTypes'
      BY <1>0, <1>15 DEF FocusTypes, Requests, MainFocus, After, MoveOf
    <3>4. SkyTypes'
      BY <1>0, <1>15, Bounds DEF SkyTypes, MainFocus, After, MoveOf
    <3>5. LineTypes'
      BY <1>0, <1>15 DEF LineTypes, MainFocus, After, MoveOf
    <3> QED BY <3>1, <3>2, <3>3, <3>4, <3>5
            DEF TelTypeOK, CommandTypes, FlagTypes, FocusTypes, SkyTypes, LineTypes
  <2>2. MoveInv'
    BY <1>15, Bounds DEF IInv, MoveInv, MoveOf, TelTypeOK, MainFocus, After, MainPCs,
        Requests
  <2>3. /\ FlagInv' /\ ClientInv' /\ CopyInv' /\ AcceptedIsKept' /\ ShuttersStayClosed'
        /\ OpenDiesInBan'
    BY <1>15, Bounds DEF IInv, FlagInv, Forbidden, ClientInv, CopyInv, AcceptedIsKept,
        Working, None, ShuttersStayClosed, OpenDiesInBan, TelTypeOK, MainFocus, After, MoveOf,
        MainPCs, Requests
  <2> QED BY <2>1, <2>2, <2>3 DEF IInv
<1>16. ASSUME NEW a \in {"Absmove", "Relmove"}, MainMove(a) PROVE IInv'
  <2>1. TelTypeOK'
    <3>1. CommandTypes'
      BY <1>0, <1>16 DEF CommandTypes, MainMove, Exchange, After, MoveOf, MainPCs
    <3>2. FlagTypes'
      BY <1>0, <1>16 DEF FlagTypes, MainMove, Exchange, After, MoveOf
    <3>3. FocusTypes'
      <4>1. PICK reached, ok \in BOOLEAN :
              /\ fresh' = [fresh EXCEPT ![a] = @ /\ ~reached]
              /\ focus' = [focus EXCEPT ![a] = IF ok THEN "none" ELSE @]
        BY <1>16 DEF MainMove
      <4> QED BY <1>0, <1>16, <4>1 DEF FocusTypes, Requests
    <3>4. SkyTypes'
      BY <1>0, <1>16, Bounds DEF SkyTypes, MainMove, Exchange, After, MoveOf
    <3>5. LineTypes'
      BY <1>0, <1>16 DEF LineTypes, MainMove, Exchange, After, MoveOf
    <3> QED BY <3>1, <3>2, <3>3, <3>4, <3>5
            DEF TelTypeOK, CommandTypes, FlagTypes, FocusTypes, SkyTypes, LineTypes
  <2>2. CopyInv' /\ AcceptedIsKept'
    BY <1>16, Bounds DEF IInv, CopyInv, AcceptedIsKept, Working, None, TelTypeOK, MainMove,
        Exchange, After, MoveOf, MainPCs, Requests
  <2>3. MoveInv'
    <3>1. PICK reached, ok \in BOOLEAN :
            /\ Exchange(reached, ok)
            /\ fresh' = [fresh EXCEPT ![a] = @ /\ ~reached]
            /\ focus' = [focus EXCEPT ![a] = IF ok THEN "none" ELSE @]
      BY <1>16 DEF MainMove
    <3>2. mainpc' \in {"Relmove", "top"}
      BY <1>16 DEF MainMove, After
    <3>3. faulted' \/ (reached /\ ok /\ ~faulted)
      BY <3>1 DEF Exchange
    <3>4. CASE faulted'
      BY <3>4 DEF MoveInv
    <3>5. CASE reached /\ ok /\ ~faulted
      <4> SUFFICES ASSUME NEW b \in {"Absmove", "Relmove"}, focus'[b] = "in range"
                   PROVE  fresh'[b]
        BY <3>2 DEF MoveInv, MoveOf
      <4>1. b # a
        BY <3>1, <3>5 DEF IInv, TelTypeOK
      <4>2. focus'[b] = focus[b] /\ fresh'[b] = fresh[b]
        BY <3>1, <4>1 DEF IInv, TelTypeOK
      <4> QED BY <3>5, <4>2 DEF IInv, MoveInv
    <3> QED BY <3>3, <3>4, <3>5
  <2>4. ShuttersStayClosed'
    BY <1>16, Bounds DEF IInv, ShuttersStayClosed, TelTypeOK, MainMove, Exchange, After,
        MoveOf, MainPCs, Requests
  <2>5. FlagInv' /\ ClientInv' /\ OpenDiesInBan'
    BY <1>16, Bounds DEF IInv, FlagInv, Forbidden, ClientInv, OpenDiesInBan, CopyInv,
        Working, None, TelTypeOK, MainMove, Exchange, After, MoveOf, MainPCs, Requests
  <2> QED BY <2>1, <2>2, <2>3, <2>4, <2>5 DEF IInv
<1>17. ASSUME NEW F \in BOOLEAN, Signal(F) PROVE IInv'
  <2>1. TelTypeOK'
    <3>1. CommandTypes'
      BY <1>0, <1>17 DEF CommandTypes, Signal
    <3>2. FlagTypes'
      BY <1>0, <1>17 DEF FlagTypes, Signal
    <3>3. FocusTypes'
      BY <1>0, <1>17 DEF FocusTypes, Requests, Signal
    <3>4. SkyTypes'
      BY <1>0, <1>17, Bounds DEF SkyTypes, Signal
    <3>5. LineTypes'
      BY <1>0, <1>17 DEF LineTypes, Signal
    <3> QED BY <3>1, <3>2, <3>3, <3>4, <3>5
            DEF TelTypeOK, CommandTypes, FlagTypes, FocusTypes, SkyTypes, LineTypes
  <2>2. FlagInv'
    BY <1>17, Bounds DEF IInv, FlagInv, Forbidden, TelTypeOK, Signal
  <2>3. ClientInv'
    BY <1>17, Bounds DEF IInv, ClientInv, FlagInv, Forbidden, TelTypeOK, Signal
  <2>4. CopyInv' /\ AcceptedIsKept' /\ MoveInv' /\ ShuttersStayClosed' /\ OpenDiesInBan'
    BY <1>17, Bounds DEF IInv, CopyInv, AcceptedIsKept, Working, None, MoveInv, MoveOf,
        ShuttersStayClosed, OpenDiesInBan, ClientInv, Forbidden, TelTypeOK, Signal
  <2> QED BY <2>1, <2>2, <2>3, <2>4 DEF IInv
<1>18. ASSUME SkyChanges PROVE IInv'
  <2>1. TelTypeOK'
    <3>1. CommandTypes'
      BY <1>0, <1>18 DEF CommandTypes, SkyChanges
    <3>2. FlagTypes'
      BY <1>0, <1>18 DEF FlagTypes, SkyChanges
    <3>3. FocusTypes'
      BY <1>0, <1>18 DEF FocusTypes, Requests, SkyChanges
    <3>4. SkyTypes'
      <4>1. weather' \in [there : BOOLEAN, bad : BOOLEAN]
        BY <1>18 DEF SkyChanges
      <4>2. weatherAge' \in 0..(WeatherLost + 1) /\ tweather' = tweather
        <5>1. weatherAge' \in {0, WeatherLost + 1} /\ tweather' = tweather
          BY <1>18 DEF SkyChanges
        <5> QED BY <5>1, Bounds
      <4> QED BY <1>0, <4>1, <4>2 DEF SkyTypes
    <3>5. LineTypes'
      BY <1>0, <1>18 DEF LineTypes, SkyChanges
    <3> QED BY <3>1, <3>2, <3>3, <3>4, <3>5
            DEF TelTypeOK, CommandTypes, FlagTypes, FocusTypes, SkyTypes, LineTypes
  <2>2. /\ FlagInv' /\ ClientInv' /\ CopyInv' /\ AcceptedIsKept' /\ MoveInv'
        /\ ShuttersStayClosed' /\ OpenDiesInBan'
    BY <1>18, Bounds DEF IInv, FlagInv, Forbidden, ClientInv, CopyInv, AcceptedIsKept,
        Working, None, MoveInv, MoveOf, ShuttersStayClosed, OpenDiesInBan, TelTypeOK, SkyChanges
  <2> QED BY <2>1, <2>2 DEF IInv
<1>19. ASSUME Tick PROVE IInv'
  <2>1. TelTypeOK'
    <3>1. CommandTypes'
      BY <1>0, <1>19 DEF CommandTypes, Tick, Older
    <3>2. FlagTypes'
      BY <1>0, <1>19 DEF FlagTypes, Tick, Older
    <3>3. FocusTypes'
      BY <1>0, <1>19 DEF FocusTypes, Requests, Tick, Older
    <3>4. SkyTypes'
      BY <1>0, <1>19, Bounds DEF SkyTypes, Tick, Older
    <3>5. LineTypes'
      BY <1>0, <1>19 DEF LineTypes, Tick, Older
    <3> QED BY <3>1, <3>2, <3>3, <3>4, <3>5
            DEF TelTypeOK, CommandTypes, FlagTypes, FocusTypes, SkyTypes, LineTypes
  <2>2. MoveInv'
    BY <1>19, Bounds DEF IInv, MoveInv, MoveOf, TelTypeOK, Tick, Older, Requests
  <2>3. /\ FlagInv' /\ ClientInv' /\ CopyInv' /\ AcceptedIsKept' /\ ShuttersStayClosed'
        /\ OpenDiesInBan'
    BY <1>19, Bounds DEF IInv, FlagInv, Forbidden, ClientInv, CopyInv, AcceptedIsKept,
        Working, None, ShuttersStayClosed, OpenDiesInBan, TelTypeOK, Tick, Older, Requests
  <2> QED BY <2>1, <2>2, <2>3 DEF IInv
<1>20. ASSUME Restart PROVE IInv'
  <2>1. TelTypeOK'
    <3>1. CommandTypes'
      BY <1>0, <1>20 DEF CommandTypes, Restart, MainPCs
    <3>2. FlagTypes'
      BY <1>0, <1>20 DEF FlagTypes, Restart
    <3>3. FocusTypes'
      BY <1>0, <1>20 DEF FocusTypes, Requests, Restart
    <3>4. SkyTypes'
      BY <1>0, <1>20, Bounds DEF SkyTypes, Restart
    <3>5. LineTypes'
      BY <1>0, <1>20, Bounds DEF LineTypes, Restart
    <3> QED BY <3>1, <3>2, <3>3, <3>4, <3>5
            DEF TelTypeOK, CommandTypes, FlagTypes, FocusTypes, SkyTypes, LineTypes
  <2>2. FlagInv'
    BY <1>20, Bounds DEF IInv, FlagInv, Forbidden, TelTypeOK, Restart, MainPCs, Requests
  <2>3. ClientInv'
    BY <1>20, Bounds DEF IInv, ClientInv, FlagInv, Forbidden, TelTypeOK, Restart, MainPCs,
        Requests
  <2>4. CopyInv' /\ AcceptedIsKept'
    BY <1>20, Bounds DEF IInv, CopyInv, AcceptedIsKept, Working, None, TelTypeOK, Restart,
        MainPCs, Requests
  <2>5. MoveInv'
    BY <1>20, Bounds DEF IInv, MoveInv, MoveOf, TelTypeOK, Restart, MainPCs, Requests
  <2>6. ShuttersStayClosed'
    BY <1>20, Bounds DEF IInv, ShuttersStayClosed, TelTypeOK, Restart, MainPCs, Requests
  <2>7. OpenDiesInBan'
    BY <1>20, Bounds DEF IInv, OpenDiesInBan, ClientInv, CopyInv, Working, Forbidden, None,
        TelTypeOK, Restart, MainPCs, Requests
  <2> QED BY <2>1, <2>2, <2>3, <2>4, <2>5, <2>6, <2>7 DEF IInv
<1>21. CASE UNCHANGED telVars
  BY <1>21 DEF IInv, TelTypeOK, FlagInv, ClientInv, CopyInv, MoveInv, ShuttersStayClosed,
        OpenDiesInBan, AcceptedIsKept, Forbidden, Working, MoveOf
<1> QED BY <1>1, <1>2, <1>3, <1>4, <1>5, <1>6, <1>7, <1>8, <1>9, <1>10, <1>11, <1>12, <1>13,
           <1>14, <1>15, <1>16, <1>17, <1>18, <1>19, <1>20, <1>21
       DEF TelNext, ClientStep, MainStep

-----------------------------------------------------------------------------
(* The theorems. *)

\* The inductive invariant holds in every reachable state of the daemon.
THEOREM Invariant == TelSpec => []IInv
<1>1. IInv /\ [TelNext]_telVars => IInv'
  BY InvNext
<1> QED BY InvInit, <1>1, PTL DEF TelSpec

\* Type correctness of the daemon of socket.c, with what the history flags imply of
\* each other.
THEOREM TelTypes == TelSpec => []TelTypeOK
<1>1. IInv => TelTypeOK
  BY DEF IInv
<1> QED BY <1>1, Invariant, PTL

\* While a ban is noted as closed the shutters stay closed: no open that waited, or
\* was half accepted, when the ban began is executed in it (socket.c:329-334, 360-419).
THEOREM ShuttersClosed == TelSpec => []ShuttersStayClosed
<1>1. IInv => ShuttersStayClosed
  BY DEF IInv
<1> QED BY <1>1, Invariant, PTL

\* An open accepted before a ban does not wait for its end in telescope.cmd.
THEOREM NoOpenSurvives == TelSpec => []OpenDiesInBan
<1>1. IInv => OpenDiesInBan
  BY DEF IInv
<1> QED BY <1>1, Invariant, PTL

\* A command that failed is kept and tried again, but for the two cases in which the
\* write-back at the end of the round loses it.
THEOREM KeptUntilObeyed == TelSpec => []AcceptedIsKept
<1>1. IInv => AcceptedIsKept
  BY DEF IInv
<1> QED BY <1>1, Invariant, PTL

\* A request for the focuser is answered by at most one move, if nothing fails.
THEOREM MovesOnce == TelSpec => []MovesAnswerRequests
<1>1. IInv => MovesAnswerRequests
  BY DEF IInv, MoveInv, MovesAnswerRequests
<1> QED BY <1>1, Invariant, PTL

-----------------------------------------------------------------------------
(* The memory of the ban. *)

\* The close of a ban is due only if it was not done.
DueIfNotNoted == mainpc = "closing" => ~forbidden

\* A close that was done is forgotten only when no flag is up.
BanRemembered == forbidden /\ ~forbidden' => ~Forbidden'

LEMMA DueNext == ASSUME IInv, DueIfNotNoted, [TelNext]_telVars PROVE DueIfNotNoted' /\ BanRemembered
<1> USE DEF DueIfNotNoted, BanRemembered
<1>1. CASE MainTop
  <2>1. CASE Forbidden /\ ~forbidden
    <3>1. UNCHANGED forbidden
      BY <1>1, <2>1 DEF MainTop
    <3> QED BY <2>1, <3>1
  <2>2. CASE Forbidden => forbidden
    <3>1. mainpc' = "weather" /\ (forbidden' <=> Forbidden) /\ (Forbidden' <=> Forbidden)
      BY <1>1, <2>2 DEF MainTop, flagVars, Forbidden
    <3> QED BY <3>1
  <2> QED BY <2>1, <2>2
<1>2. CASE MainClose
  BY <1>2 DEF MainClose
<1>3. CASE Restart
  BY <1>3 DEF Restart, Forbidden
<1>4. CASE UNCHANGED <<mainpc, forbidden>>
  BY <1>4
<1>5. CASE mainpc' # "closing" /\ UNCHANGED forbidden
  BY <1>5
<1>6. ASSUME NEW a \in {"Absmove", "Relmove"}, MainFocus(a) \/ MainMove(a)
      PROVE  mainpc' # "closing" /\ UNCHANGED forbidden
  BY <1>6 DEF MainFocus, MainMove, After, MoveOf
<1>7. MainClear \/ MainWeather \/ MainPoll \/ MainTake \/ MainWork \/ MainSend \/ MainStore
        => mainpc' # "closing" /\ UNCHANGED forbidden
  BY DEF MainClear, MainWeather, MainPoll, MainTake, MainWork, MainSend, MainStore
<1>8. \/ UNCHANGED <<mainpc, forbidden>>
      \/ MainStep \/ Restart
  BY DEF TelNext, Accept, OpenLock, ClientStep, OpenForbid, OpenWeather, Request, Signal,
         SkyChanges, Tick, telVars, clientOnly
<1> QED BY <1>1, <1>2, <1>3, <1>4, <1>5, <1>6, <1>7, <1>8 DEF MainStep

\* A turn of the loop that finds no flag up, or a new process, which has none, is all
\* that forgets the close of a ban: the next ban is closed anew (socket.c:327-336).
THEOREM BanIsRemembered == TelSpec => [][BanRemembered]_telVars
<1>1. TelInit => DueIfNotNoted
  BY DEF TelInit, DueIfNotNoted
<1>2. IInv /\ DueIfNotNoted /\ [TelNext]_telVars => DueIfNotNoted' /\ [BanRemembered]_telVars
  BY DueNext
<1> QED BY <1>1, <1>2, Invariant, PTL DEF TelSpec
=============================================================================
