------------------------- MODULE WeatherLevel_proofs -------------------------
(* The properties of the common weather level, for any number of stations. *)
EXTENDS WeatherLevelProps, TLAPS

(* The type invariant in parts, and what else each step keeps. *)

LevelPart ==
  /\ level \in Levels /\ forced \in BOOLEAN /\ curlevel \in Levels /\ Forbidden \in BOOLEAN
AgePart ==
  /\ upd \in 0..Closed /\ ahtung \in 0..Old /\ calm \in 0..Old
  /\ lag \in [Stations -> 0..MaxLag]
PlacePart ==
  /\ pc \in [Stations -> {"idle", "field", "infield", "final", "infinal"}]
  /\ idx \in [Stations -> Nat]
  /\ \A s \in Stations : pc[s] \in {"field", "infield"} => idx[s] \in DOMAIN Fields[s]
ControlPart ==
  /\ datamutex \in Threads \cup Signals \cup {None}
  /\ station \in [Stations -> {"up", "dead", "killed"}]
  /\ IsMuted \subseteq Stations /\ hidden \subseteq Stations \X Nat
  /\ client \in {NoOrder} \cup [pc : {"wait", "in"}, order : Orders]
  /\ handlers \in Seq([sig : Signals, thread : Threads])
  /\ cycle \in Stations \cup {None} /\ events \in 0..MaxEvents

\* What the client waits to have done is a command of Obey.
Asked == client = NoOrder \/ client.order.op \in {"weathlevel", "forceoff", "forbid"}

\* Two handlers of one signal never run at once.
Distinct ==
  \A i, j \in DOMAIN handlers : handlers[i].sig = handlers[j].sig => i = j

\* Unless observations are forbidden, or a value as bad as the level waits in
\* the open window, the delay was restarted no earlier than the last event
\* that speaks against better weather, up to the length of a call.
CalmInv ==
  Forbidden \/ (curlevel >= level /\ curlevel > GOOD) \/ ahtung <= calm + MaxLag

LevelInv == LevelPart /\ AgePart /\ PlacePart /\ ControlPart /\ Asked /\ Distinct /\ CalmInv

\* The parts give the type invariant.
LEMMA PartsAreType == LevelInv => LevelTypeOK
BY DEF LevelInv, LevelPart, AgePart, PlacePart, ControlPart, LevelTypeOK

\* The elements of a sequence, and a sequence given by its elements.
LEMMA Element == ASSUME NEW S, NEW q \in Seq(S), NEW i \in DOMAIN q PROVE q[i] \in S
OBVIOUS

\* A place between a positive number and the length is one of the sequence.
LEMMA Within ==
  ASSUME NEW S, NEW q \in Seq(S), NEW i \in Nat \ {0}, NEW j \in i..Len(q)
  PROVE  j \in Nat /\ j \in DOMAIN q
<1>1. Len(q) \in Nat /\ DOMAIN q = 1..Len(q)
  OBVIOUS
<1> QED BY <1>1

LEMMA SeqOf == ASSUME NEW S, NEW n \in Nat, NEW q \in [1..n -> S] PROVE q \in Seq(S)
OBVIOUS

\* The bounds are numbers, in the order the code relies on.
LEMMA Bounds ==
  /\ Window \in Nat /\ Delay \in Nat /\ MaxLag \in Nat /\ Old \in Nat /\ Closed \in Nat
  /\ MaxLag <= Old /\ MaxLag <= Closed /\ Old = Delay + 1 + MaxLag /\ MaxEvents \in Nat
BY WeatherLevelAssumption, OrdersAssumption DEF Old, Closed

\* The levels are the four numbers.
LEMMA LevelNumbers == Levels = 0..3 /\ GOOD = 0 /\ TERRIBLE = 2 /\ PROHIBITED = 3
BY DEF Levels, GOOD, TERRIBLE, PROHIBITED

\* A thread is no signal, and neither is None.
LEMMA Owners ==
  /\ \A s \in Stations : s \in Threads /\ s \notin Signals /\ s # None
  /\ Client \in Threads /\ Client \notin Signals /\ Client # None
  /\ \A t \in Threads : t \notin Signals /\ t # None
  /\ \A sig \in Signals : sig # None
  /\ Hit \subseteq Threads
BY WeatherLevelAssumption, OrdersAssumption DEF Threads

\* An age that grows stays within its cap, and two that grow keep their order.
LEMMA OlderBound ==
  ASSUME NEW cap \in Nat, NEW a \in 0..cap
  PROVE  Older(a, cap) \in 0..cap /\ Older(a, cap) <= a + 1 /\ (a < cap => Older(a, cap) = a + 1)
         /\ (a = cap => Older(a, cap) = cap)
BY DEF Older

\* What chkweatherlevel says of a value is a level, or nothing.
LEMMA JudgedIsLevel ==
  ASSUME NEW v, NEW c PROVE Judged(v, c) \in Levels \cup {-1}
<1>1. NewLevel(v, c) \in Levels \cup {-1}
  BY DEF NewLevel, Levels, GOOD, BAD, TERRIBLE, PROHIBITED
<1> QED BY <1>1 DEF Judged, Levels, GOOD, PROHIBITED

\* The next field of refresh_sensval is one the station has.
LEMMA GoesTo ==
  ASSUME PlacePart, NEW s \in Stations, NEW i \in Nat \ {0}, GoTo(s, i)
  PROVE  PlacePart'
<1>1. CASE pc' = [pc EXCEPT ![s] = "final"] /\ UNCHANGED idx
  BY <1>1 DEF PlacePart
<1>2. ASSUME NEW j \in Shown(s, i), pc' = [pc EXCEPT ![s] = "field"], idx' = [idx EXCEPT ![s] = j]
      PROVE  PlacePart'
  <2>1. j \in i..Len(Fields[s])
    BY <1>2 DEF Shown
  <2>2. Fields[s] \in Seq([cond : [good : Int, bad : Int, terrible : Int,
          prohibited : Int, negflag : BOOLEAN, shtdnflag : BOOLEAN], samples : SUBSET Int])
    BY WeatherLevelAssumption
  <2>3. j \in Nat /\ j \in DOMAIN Fields[s]
    BY <2>1, <2>2, Within
  <2> QED BY <1>2, <2>3 DEF PlacePart
<1> QED BY <1>1, <1>2 DEF GoTo

-----------------------------------------------------------------------------
(* The initial state and the steps. *)

\* A daemon that starts has all of it.
LEMMA LevelInit == Init => LevelInv
<1> SUFFICES ASSUME Init PROVE LevelInv
  OBVIOUS
<1>1. LevelPart
  <2>1. level = 0 /\ curlevel = 0
    BY LevelNumbers DEF Init
  <2>2. forced \in BOOLEAN /\ Forbidden \in BOOLEAN
    BY DEF Init
  <2> QED BY <2>1, <2>2, LevelNumbers DEF LevelPart
<1>2. AgePart
  <2>1. upd = Closed /\ ahtung = Old /\ calm = Old /\ lag = [s \in Stations |-> 0]
    BY DEF Init
  <2> QED BY <2>1, Bounds DEF AgePart
<1>3. PlacePart
  BY DEF Init, PlacePart
<1>4. ControlPart
  <2>1. handlers \in Seq([sig : Signals, thread : Threads])
    BY DEF Init
  <2>2. events \in 0..MaxEvents
    BY Bounds DEF Init
  <2> QED BY <2>1, <2>2 DEF Init, ControlPart
<1>5. Distinct /\ Asked
  BY DEF Init, Distinct, Asked
<1>6. CalmInv
  BY Bounds DEF Init, CalmInv
<1> QED BY <1>1, <1>2, <1>3, <1>4, <1>5, <1>6 DEF LevelInv

\* The two steps of the window: the level goes where the worst value of the
\* window, the level before and the delay let it.
LEMMA Updated ==
  ASSUME LevelInv, ~Forbidden, NEW s \in Stations, UpdateLevel(s)
  PROVE  /\ LevelPart' /\ UNCHANGED Forbidden
         /\ upd' \in 0..MaxLag /\ ahtung' \in 0..Old /\ calm' \in 0..Old
         /\ ahtung' <= calm' + MaxLag
         /\ level' >= curlevel
         /\ Better => calm > Delay - MaxLag
<1>1. /\ level \in 0..3 /\ curlevel \in 0..3 /\ forced \in BOOLEAN /\ Forbidden \in BOOLEAN
      /\ lag[s] \in 0..MaxLag /\ ahtung \in 0..Old /\ calm \in 0..Old
  BY LevelNumbers DEF LevelInv, LevelPart, AgePart
<1>2. (curlevel >= level /\ curlevel > 0) \/ ahtung <= calm + MaxLag
  BY LevelNumbers DEF LevelInv, CalmInv
<1>3. upd' \in 0..MaxLag /\ curlevel' = 0 /\ Forbidden' = Forbidden
  BY <1>1, LevelNumbers DEF UpdateLevel
<1>4. CASE level > curlevel
  <2>1. Decrease(s)
    BY <1>4 DEF UpdateLevel
  <2>2. ahtung <= calm + MaxLag
    BY <1>1, <1>2, <1>4
  <2>3. CASE ahtung - lag[s] > Delay
    <3>1. ahtung' = lag[s] /\ calm' = 0
      BY <2>1, <2>3 DEF Decrease
    <3>2. CASE curlevel >= 2
      <4>1. level' = level - 1 /\ forced' = forced
        BY <2>1, <2>3, <3>2, LevelNumbers DEF Decrease
      <4>2. calm > Delay - MaxLag
        BY <1>1, <2>2, <2>3, Bounds
      <4> QED BY <1>1, <1>3, <1>4, <3>1, <3>2, <4>1, <4>2, Bounds, LevelNumbers DEF LevelPart
    <3>3. CASE ~(curlevel >= 2)
      <4>1. level' = (IF forced THEN 2 ELSE curlevel) /\ forced' = FALSE
        BY <2>1, <2>3, <3>3, LevelNumbers DEF Decrease
      <4>2. calm > Delay - MaxLag
        BY <1>1, <2>2, <2>3, Bounds
      <4>3. level' \in 0..3 /\ level' >= curlevel /\ curlevel' \in 0..3
        BY <1>1, <1>3, <3>3, <4>1
      <4>4. LevelPart'
        BY <1>1, <1>3, <4>1, <4>3, LevelNumbers DEF LevelPart
      <4> QED BY <1>1, <1>3, <3>1, <4>2, <4>3, <4>4, Bounds
    <3> QED BY <3>2, <3>3
  <2>4. CASE ~(ahtung - lag[s] > Delay)
    <3>1. UNCHANGED <<level, forced, ahtung, calm>>
      BY <2>1, <2>4 DEF Decrease
    <3> QED BY <1>1, <1>3, <1>4, <2>2, <3>1, Bounds, LevelNumbers DEF LevelPart, Better
  <2> QED BY <2>3, <2>4
<1>5. CASE ~(level > curlevel)
  <2>1. Increase(s)
    BY <1>5 DEF UpdateLevel
  <2>2. /\ level' = curlevel /\ ahtung' = IF curlevel > 0 THEN lag[s] ELSE ahtung
        /\ UNCHANGED <<forced, calm>>
    BY <2>1, LevelNumbers DEF Increase
  <2>3. ~Better
    BY <1>1, <1>5, <2>2 DEF Better
  <2> QED BY <1>1, <1>2, <1>3, <1>5, <2>2, <2>3, Bounds, LevelNumbers DEF LevelPart
<1> QED BY <1>4, <1>5

\* The final section of refresh_sensval.
LEMMA Finals ==
  ASSUME LevelInv, NEW s \in Stations, Final(s)
  PROVE  /\ LevelPart' /\ AgePart' /\ CalmInv'
         /\ curlevel' < curlevel => level' >= curlevel
         /\ Better => ~Forbidden /\ calm > Delay - MaxLag
<1>1. lag' = [lag EXCEPT ![s] = 0]
  BY DEF Final
<1>2. lag' \in [Stations -> 0..MaxLag]
  BY <1>1, Bounds DEF LevelInv, AgePart
<1>3. CASE Forbidden
  <2>1. level' = PROHIBITED /\ UNCHANGED <<forced, curlevel, upd, ahtung, Forbidden, calm>>
    BY <1>3 DEF Final
  <2>2. LevelPart' /\ ~Better /\ curlevel' = curlevel
    BY <2>1, LevelNumbers DEF LevelInv, LevelPart, Better
  <2>3. AgePart'
    BY <1>2, <2>1 DEF LevelInv, AgePart
  <2>4. CalmInv'
    BY <1>3, <2>1 DEF CalmInv
  <2>5. ~(curlevel' < curlevel)
    BY <2>2, LevelNumbers DEF LevelInv, LevelPart
  <2> QED BY <2>2, <2>3, <2>4, <2>5
<1>4. CASE ~Forbidden /\ upd - lag[s] >= Window
  <2>1. UpdateLevel(s)
    BY <1>4 DEF Final
  <2>2. AgePart'
    BY <1>2, <1>4, <2>1, Updated, Bounds DEF AgePart
  <2>3. CalmInv'
    BY <1>4, <2>1, Updated DEF CalmInv
  <2> QED BY <1>4, <2>1, <2>2, <2>3, Updated
<1>5. CASE ~Forbidden /\ ~(upd - lag[s] >= Window)
  <2>1. UNCHANGED <<levels, calm>>
    BY <1>5 DEF Final
  <2>2. LevelPart' /\ CalmInv' /\ ~Better
    BY <2>1, LevelNumbers DEF levels, LevelInv, LevelPart, CalmInv, Better
  <2>3. AgePart'
    BY <1>2, <2>1 DEF levels, LevelInv, AgePart
  <2>4. ~(curlevel' < curlevel)
    BY <2>1, LevelNumbers DEF levels, LevelInv, LevelPart
  <2> QED BY <2>2, <2>3, <2>4
<1> QED BY <1>3, <1>4, <1>5

\* A value of a field.
LEMMA FieldJudged ==
  ASSUME LevelInv, NEW s \in Stations, Field(s)
  PROVE  /\ LevelPart' /\ AgePart' /\ CalmInv'
         /\ ~(curlevel' < curlevel) /\ ~Better
<1>1. PICK v \in Fields[s][idx[s]].samples : Judge(v, Fields[s][idx[s]].cond)
  BY DEF Field
<1> DEFINE new == Judged(v, Fields[s][idx[s]].cond)
           down == Shutdown(v, Fields[s][idx[s]].cond)
<1>2. new \in -1..3
  BY JudgedIsLevel, LevelNumbers
<1>3. /\ curlevel' = IF new > curlevel THEN new ELSE curlevel
      /\ calm' = IF new > 0 /\ new >= level THEN 0 ELSE calm
  BY <1>1, LevelNumbers DEF Judge
<1>4. forced' = (forced \/ down)
  BY <1>1 DEF Judge
<1>5. UNCHANGED <<level, upd, ahtung, Forbidden, lag>>
  BY DEF Field
<1>6. level \in 0..3 /\ curlevel \in 0..3
  BY LevelNumbers DEF LevelInv, LevelPart
<1>7. forced' \in BOOLEAN /\ (forced => forced')
  BY <1>4, Zenon DEF LevelInv, LevelPart
<1>8. LevelPart'
  BY <1>2, <1>3, <1>5, <1>6, <1>7, LevelNumbers DEF LevelInv, LevelPart
<1>9. AgePart'
  <2>1. calm' \in {0, calm}
    BY <1>3, Zenon
  <2> QED BY <1>5, <2>1, Bounds DEF LevelInv, AgePart
<1>10. CalmInv'
  <2>1. CASE Forbidden
    BY <1>5, <2>1 DEF CalmInv
  <2>2. CASE curlevel >= level /\ curlevel > 0
    BY <1>2, <1>3, <1>5, <1>6, <2>2, LevelNumbers DEF CalmInv
  <2>3. CASE ahtung <= calm + MaxLag
    BY <1>2, <1>3, <1>5, <1>6, <2>3, LevelNumbers DEF CalmInv
  <2> QED BY <2>1, <2>2, <2>3, LevelNumbers DEF LevelInv, CalmInv
<1>11. ~(curlevel' < curlevel)
  BY <1>2, <1>3, <1>6
<1>12. ~Better
  BY <1>5, <1>6, <1>7 DEF Better
<1> QED BY <1>8, <1>9, <1>10, <1>11, <1>12

\* A command or a signal: both restart the delay.
LEMMA Obeyed ==
  ASSUME LevelInv, NEW o, Obey(o), UNCHANGED lag,
         o.op \in {"weathlevel", "forceoff", "forbid"}, o.op = "weathlevel" => o.par \in Levels,
         o.op \in {"forceoff", "forbid"} => o.par \in BOOLEAN
  PROVE  LevelPart' /\ AgePart' /\ CalmInv' /\ curlevel' = curlevel
<1>1. ahtung' = 0 /\ calm' = 0 /\ curlevel' = curlevel /\ upd' = upd
  BY DEF Obey, Event
<1>2. LevelPart'
  <2>1. CASE o.op = "weathlevel"
    BY <1>1, <2>1 DEF Obey, LevelInv, LevelPart
  <2>2. CASE o.op = "forceoff"
    BY <1>1, <2>2 DEF Obey, LevelInv, LevelPart
  <2>3. CASE o.op = "forbid"
    BY <1>1, <2>3 DEF Obey, LevelInv, LevelPart
  <2> QED BY <2>1, <2>2, <2>3
<1>3. AgePart'
  BY <1>1, Bounds DEF LevelInv, AgePart
<1>4. CalmInv'
  BY <1>1, Bounds DEF CalmInv
<1> QED BY <1>1, <1>2, <1>3, <1>4

\* A second passes.
LEMMA Ticks == ASSUME LevelInv, Tick PROVE AgePart' /\ CalmInv'
<1>1. upd' = Older(upd, Closed) /\ ahtung' = Older(ahtung, Old) /\ calm' = Older(calm, Old)
  BY DEF Tick
<1>2. upd \in 0..Closed /\ ahtung \in 0..Old /\ calm \in 0..Old
  BY DEF LevelInv, AgePart
<1>3. upd' \in 0..Closed /\ ahtung' \in 0..Old /\ calm' \in 0..Old
  BY <1>1, <1>2, Bounds, OlderBound
<1>4. lag' \in [Stations -> 0..MaxLag]
  <2>1. lag' = [s \in Stations |-> IF pc[s] = "idle" THEN 0 ELSE lag[s] + 1]
    BY DEF Tick
  <2>2. \A s \in Stations : pc[s] # "idle" => lag[s] < MaxLag
    BY DEF Tick
  <2> QED BY <2>1, <2>2, Bounds DEF LevelInv, AgePart
<1>5. CalmInv'
  <2>1. UNCHANGED <<level, curlevel, Forbidden>>
    BY DEF Tick
  <2>2. ASSUME ahtung <= calm + MaxLag PROVE ahtung' <= calm' + MaxLag
    BY <1>1, <1>2, <2>2, Bounds DEF Older
  <2> QED BY <2>1, <2>2 DEF LevelInv, CalmInv
<1> QED BY <1>3, <1>4, <1>5 DEF AgePart

\* What a step may not do to the level.
StepOK ==
  /\ curlevel' < curlevel => level' >= curlevel
  /\ Better /\ UNCHANGED client => ~Forbidden /\ calm > Delay - MaxLag

\* A step that leaves the levels alone.
LEMMA LevelsRest ==
  ASSUME LevelInv, UNCHANGED <<levels, calm>>, lag' \in [Stations -> 0..MaxLag]
  PROVE  LevelPart' /\ AgePart' /\ CalmInv' /\ StepOK
<1>1. UNCHANGED <<level, forced, curlevel, upd, ahtung, Forbidden, calm>>
  BY DEF levels
<1>2. ~(curlevel' < curlevel) /\ ~Better
  BY <1>1, LevelNumbers DEF LevelInv, LevelPart, Better
<1>3. LevelPart' /\ CalmInv'
  BY <1>1 DEF LevelInv, LevelPart, CalmInv
<1>4. AgePart'
  BY <1>1 DEF LevelInv, AgePart
<1> QED BY <1>2, <1>3, <1>4 DEF StepOK

\* The signal "forbid" or "allow" is a command.
LEMMA SignalObeyed ==
  ASSUME LevelInv, NEW i \in DOMAIN handlers, HandlerEnds(i)
  PROVE  LevelPart' /\ AgePart' /\ CalmInv' /\ StepOK
<1> DEFINE o == [op |-> "forbid", par |-> handlers[i].sig = "forbid"]
<1>1. Obey(o) /\ UNCHANGED lag
  BY DEF HandlerEnds, refresh
<1>2. o.op = "forbid" /\ o.par \in BOOLEAN
  OBVIOUS
<1>3. LevelPart' /\ AgePart' /\ CalmInv' /\ curlevel' = curlevel
  BY <1>1, <1>2, Obeyed
<1>4. UNCHANGED <<level, forced>>
  BY <1>1, <1>2 DEF Obey
<1>5. ~(curlevel' < curlevel) /\ ~Better
  BY <1>3, <1>4, LevelNumbers DEF LevelInv, LevelPart, Better
<1> QED BY <1>3, <1>5 DEF StepOK

\* The client's command.
LEMMA CommandObeyed ==
  ASSUME LevelInv, ClientObeyed
  PROVE  LevelPart' /\ AgePart' /\ CalmInv' /\ StepOK
<1>1. Obey(client.order) /\ UNCHANGED lag /\ client.pc = "in" /\ client' = NoOrder
  BY DEF ClientObeyed, refresh
<1>2. client # NoOrder
  BY <1>1 DEF NoOrder
<1>3. client.order \in Orders /\ client.order.op \in {"weathlevel", "forceoff", "forbid"}
  BY <1>2 DEF LevelInv, ControlPart, Asked
<1>4. LevelPart' /\ AgePart' /\ CalmInv' /\ curlevel' = curlevel
  BY <1>1, <1>3, Obeyed, OrdersAssumption
<1>5. ~(curlevel' < curlevel) /\ ~UNCHANGED client
  BY <1>1, <1>2, <1>4, LevelNumbers DEF LevelInv, LevelPart
<1> QED BY <1>4, <1>5 DEF StepOK

\* One step per action.
LEMMA LevelsNext ==
  ASSUME LevelInv, Next
  PROVE  LevelPart' /\ AgePart' /\ CalmInv' /\ StepOK
<1>1. ASSUME NEW s \in Stations, Begin(s) PROVE LevelPart' /\ AgePart' /\ CalmInv' /\ StepOK
  <2>1. lag' \in [Stations -> 0..MaxLag]
    BY <1>1, Bounds DEF Begin, LevelInv, AgePart
  <2>2. UNCHANGED <<levels, calm>>
    BY <1>1 DEF Begin
  <2> QED BY <2>1, <2>2, LevelsRest
<1>2. ASSUME NEW s \in Stations, Field(s) PROVE LevelPart' /\ AgePart' /\ CalmInv' /\ StepOK
  BY <1>2, FieldJudged DEF StepOK
<1>3. ASSUME NEW s \in Stations, Final(s) PROVE LevelPart' /\ AgePart' /\ CalmInv' /\ StepOK
  BY <1>3, Finals DEF StepOK
<1>4. CASE ClientObeyed
  BY <1>4, CommandObeyed
<1>5. ASSUME NEW i \in 1..Cardinality(Signals), HandlerEnds(i)
      PROVE  LevelPart' /\ AgePart' /\ CalmInv' /\ StepOK
  BY <1>5, SignalObeyed DEF HandlerEnds
<1>6. CASE Tick
  <2>1. UNCHANGED <<level, forced, curlevel, Forbidden>>
    BY <1>6 DEF Tick
  <2>2. LevelPart' /\ ~(curlevel' < curlevel) /\ ~Better
    BY <2>1, LevelNumbers DEF LevelInv, LevelPart, Better
  <2> QED BY <1>6, <2>2, Ticks DEF StepOK
<1>7. ASSUME UNCHANGED <<levels, calm>>, UNCHANGED lag
      PROVE  LevelPart' /\ AgePart' /\ CalmInv' /\ StepOK
  BY <1>7, LevelsRest DEF LevelInv, AgePart
<1>8. ASSUME NEW s \in Stations, LockField(s) \/ LockFinal(s) \/ Dies(s) \/ CycleTakes(s)
      PROVE  UNCHANGED <<levels, calm>> /\ UNCHANGED lag
  BY <1>8 DEF LockField, LockFinal, Dies, CycleTakes, refresh
<1>9. ASSUME ClientAsks \/ ClientLocks \/ ClientSets \/ CycleLooks
      PROVE  UNCHANGED <<levels, calm>> /\ UNCHANGED lag
  BY <1>9 DEF ClientAsks, ClientLocks, ClientSets, CycleLooks, refresh
<1>10. ASSUME NEW sig \in Signals, NEW t \in Hit, Signal(sig, t)
       PROVE  UNCHANGED <<levels, calm>> /\ UNCHANGED lag
  BY <1>10 DEF Signal, refresh
<1>11. ASSUME NEW i \in 1..Cardinality(Signals), HandlerLocks(i)
       PROVE  UNCHANGED <<levels, calm>> /\ UNCHANGED lag
  BY <1>11 DEF HandlerLocks, refresh
<1> QED BY <1>1, <1>2, <1>3, <1>4, <1>5, <1>6, <1>7, <1>8, <1>9, <1>10, <1>11
        DEF Next, Refresh, Handler

\* Where the stations are.
LEMMA PlacesNext == ASSUME LevelInv, Next PROVE PlacePart'
<1>1. ASSUME NEW s \in Stations, Begin(s) PROVE PlacePart'
  BY <1>1, GoesTo DEF Begin, LevelInv
<1>2. ASSUME NEW s \in Stations, Field(s) PROVE PlacePart'
  <2>1. GoTo(s, idx[s] + 1) /\ idx[s] + 1 \in Nat \ {0}
    BY <1>2 DEF Field, LevelInv, PlacePart
  <2> QED BY <2>1, GoesTo DEF LevelInv
<1>3. ASSUME NEW s \in Stations, LockField(s) PROVE PlacePart'
  BY <1>3 DEF LockField, LevelInv, PlacePart
<1>4. ASSUME NEW s \in Stations, LockFinal(s) \/ Final(s) PROVE PlacePart'
  BY <1>4 DEF LockFinal, Final, LevelInv, PlacePart
<1>5. ASSUME UNCHANGED <<pc, idx>> PROVE PlacePart'
  BY <1>5 DEF LevelInv, PlacePart
<1>6. ASSUME NEW s \in Stations, Dies(s) \/ CycleTakes(s) PROVE UNCHANGED <<pc, idx>>
  BY <1>6 DEF Dies, CycleTakes, refresh
<1>7. ASSUME ClientAsks \/ ClientLocks \/ ClientSets \/ CycleLooks \/ ClientObeyed \/ Tick
      PROVE  UNCHANGED <<pc, idx>>
  BY <1>7 DEF ClientAsks, ClientLocks, ClientSets, CycleLooks, ClientObeyed, Tick, refresh
<1>8. ASSUME NEW sig \in Signals, NEW t \in Hit, Signal(sig, t) PROVE UNCHANGED <<pc, idx>>
  BY <1>8 DEF Signal, refresh
<1>9. ASSUME NEW i \in 1..Cardinality(Signals), Handler(i) PROVE UNCHANGED <<pc, idx>>
  BY <1>9 DEF Handler, HandlerLocks, HandlerEnds, refresh
<1> QED BY <1>1, <1>2, <1>3, <1>4, <1>5, <1>6, <1>7, <1>8, <1>9 DEF Next, Refresh

\* The mutex is given to a thread or a signal, or back.
MutexOK == datamutex' \in Threads \cup Signals \cup {None}

\* The rest of the control, when a step touches none of it but the mutex.
LEMMA ControlRests ==
  ASSUME LevelInv, UNCHANGED control, MutexOK, events' \in 0..MaxEvents
  PROVE  ControlPart' /\ Asked' /\ Distinct'
BY DEF LevelInv, ControlPart, Asked, Distinct, control, MutexOK

\* Counting an event keeps to the bound.
LEMMA CountedBound == ASSUME LevelInv, Counted PROVE events' \in 0..MaxEvents
BY Bounds DEF LevelInv, ControlPart, Counted

\* The control, one step per action.
LEMMA ControlNext == ASSUME LevelInv, Next PROVE ControlPart' /\ Asked' /\ Distinct'
<1>0. /\ ControlPart /\ Asked /\ Distinct
      /\ events \in 0..MaxEvents /\ datamutex \in Threads \cup Signals \cup {None}
  BY DEF LevelInv, ControlPart
<1>1. ASSUME NEW s \in Stations, Begin(s) PROVE ControlPart' /\ Asked' /\ Distinct'
  BY <1>0, <1>1, ControlRests DEF Begin, MutexOK
<1>2. ASSUME NEW s \in Stations, Refresh(s) PROVE ControlPart' /\ Asked' /\ Distinct'
  <2>1. UNCHANGED control /\ events' = events
    BY <1>2 DEF Refresh, LockField, Field, LockFinal, Final
  <2>2. MutexOK
    BY <1>2, Owners DEF Refresh, LockField, Field, LockFinal, Final, Lock, Unlock, MutexOK
  <2> QED BY <1>0, <2>1, <2>2, ControlRests
<1>3. ASSUME NEW s \in Stations, Dies(s) PROVE ControlPart' /\ Asked' /\ Distinct'
  <2>1. station' \in [Stations -> {"up", "dead", "killed"}]
    BY <1>0, <1>3 DEF Dies, ControlPart
  <2> QED BY <1>0, <1>3, <2>1, CountedBound DEF Dies, ControlPart, Asked, Distinct
<1>4. ASSUME NEW s \in Stations, CycleTakes(s) PROVE ControlPart' /\ Asked' /\ Distinct'
  <2>1. cycle' \in Stations \cup {None}
    BY <1>4 DEF CycleTakes, get_plugin
  <2> QED BY <1>0, <1>4, <2>1 DEF CycleTakes, ControlPart, Asked, Distinct
<1>5. CASE ClientAsks
  <2>1. PICK o \in Orders : /\ o.op \in {"weathlevel", "forceoff", "forbid"}
                            /\ client' = [pc |-> "wait", order |-> o]
    BY <1>5 DEF ClientAsks
  <2>2. client' \in [pc : {"wait", "in"}, order : Orders] /\ client'.order = o
    BY <2>1
  <2>3. Asked'
    BY <2>1, <2>2 DEF Asked
  <2> QED BY <1>0, <1>5, <2>2, <2>3, CountedBound DEF ClientAsks, ControlPart, Distinct
<1>6. CASE ClientLocks
  <2>1. client \in [pc : {"wait", "in"}, order : Orders] /\ client # NoOrder
    BY <1>0, <1>6 DEF ClientLocks, ControlPart, NoOrder
  <2>2. client' \in [pc : {"wait", "in"}, order : Orders] /\ client'.order = client.order
    BY <1>6, <2>1 DEF ClientLocks
  <2>3. Asked'
    BY <1>0, <2>1, <2>2 DEF Asked
  <2>4. datamutex' \in Threads \cup Signals \cup {None}
    BY <1>6, Owners DEF ClientLocks, Lock
  <2> QED BY <1>0, <1>6, <2>2, <2>3, <2>4 DEF ClientLocks, ControlPart, Distinct
<1>7. CASE ClientObeyed
  BY <1>0, <1>7 DEF ClientObeyed, Unlock, ControlPart, Asked, Distinct
<1>8. CASE ClientSets
  <2>1. IsMuted' \subseteq Stations
    BY <1>0, <1>8, OrdersAssumption DEF ClientSets, ControlPart
  <2>2. hidden' \subseteq Stations \X Nat
    BY <1>0, <1>8, OrdersAssumption DEF ClientSets, ControlPart
  <2> QED BY <1>0, <1>8, <2>1, <2>2, CountedBound DEF ClientSets, ControlPart, Asked, Distinct
<1>9. ASSUME NEW sig \in Signals, NEW t \in Hit, Signal(sig, t)
      PROVE  ControlPart' /\ Asked' /\ Distinct'
  <2>1. /\ handlers \in Seq([sig : Signals, thread : Threads])
        /\ [sig |-> sig, thread |-> t] \in [sig : Signals, thread : Threads]
        /\ handlers' = Append(handlers, [sig |-> sig, thread |-> t])
        /\ \A i \in DOMAIN handlers : handlers[i].sig # sig
    BY <1>0, <1>9, Owners DEF Signal, ControlPart
  <2>2. handlers' \in Seq([sig : Signals, thread : Threads])
    BY <2>1
  <2>3. /\ DOMAIN handlers' = 1..Len(handlers) + 1
        /\ \A i \in DOMAIN handlers : handlers'[i] = handlers[i]
        /\ handlers'[Len(handlers) + 1].sig = sig
        /\ DOMAIN handlers = 1..Len(handlers) /\ Len(handlers) \in Nat
    BY <2>1
  <2>4. Distinct'
    BY <1>0, <2>1, <2>3 DEF Distinct
  <2> QED BY <1>0, <1>9, <2>2, <2>4, CountedBound DEF Signal, ControlPart, Asked
<1>10. ASSUME NEW i \in 1..Cardinality(Signals), HandlerLocks(i)
       PROVE  ControlPart' /\ Asked' /\ Distinct'
  <2>1. handlers[i].sig \in Signals
    <3>1. handlers \in Seq([sig : Signals, thread : Threads]) /\ i \in DOMAIN handlers
      BY <1>0, <1>10 DEF HandlerLocks, ControlPart
    <3>2. handlers[i] \in [sig : Signals, thread : Threads]
      BY <3>1, Element
    <3> QED BY <3>2
  <2>2. MutexOK /\ UNCHANGED control /\ events' = events
    BY <1>10, <2>1 DEF HandlerLocks, Lock, MutexOK
  <2> QED BY <1>0, <2>2, ControlRests
<1>11. ASSUME NEW i \in 1..Cardinality(Signals), HandlerEnds(i)
       PROVE  ControlPart' /\ Asked' /\ Distinct'
  <2> DEFINE other(j) == IF j < i THEN j ELSE j + 1
  <2>1. /\ i \in DOMAIN handlers /\ handlers \in Seq([sig : Signals, thread : Threads])
        /\ handlers' = [j \in 1..Len(handlers) - 1 |-> handlers[other(j)]]
    BY <1>0, <1>11 DEF HandlerEnds, ControlPart
  <2>2. Len(handlers) - 1 \in Nat /\ \A j \in 1..Len(handlers) - 1 : other(j) \in DOMAIN handlers
    BY <2>1
  <2>3. handlers' \in Seq([sig : Signals, thread : Threads])
    <3>1. \A j \in DOMAIN handlers : handlers[j] \in [sig : Signals, thread : Threads]
      BY <2>1, Element
    <3>2. handlers' \in [1..Len(handlers) - 1 -> [sig : Signals, thread : Threads]]
      BY <2>1, <2>2, <3>1
    <3> QED BY <2>2, <3>2, SeqOf
  <2>4. Distinct'
    <3>1. DOMAIN handlers' = 1..Len(handlers) - 1
      BY <2>1
    <3>2. SUFFICES ASSUME NEW j \in 1..Len(handlers) - 1, NEW k \in 1..Len(handlers) - 1,
                          handlers'[j].sig = handlers'[k].sig
                   PROVE  j = k
      BY <3>1 DEF Distinct
    <3>3. other(j) = other(k)
      BY <1>0, <2>1, <2>2, <3>2 DEF Distinct
    <3> QED BY <1>11, <3>3
  <2> QED BY <1>0, <1>11, <2>3, <2>4 DEF HandlerEnds, Unlock, ControlPart, Asked
<1>12. CASE CycleLooks
  <2>1. hidden' \subseteq Stations \X Nat
    BY <1>0, <1>12 DEF CycleLooks, ControlPart
  <2>2. station' \in [Stations -> {"up", "dead", "killed"}]
    BY <1>0, <1>12 DEF CycleLooks, ControlPart
  <2> QED BY <1>0, <1>12, <2>1, <2>2 DEF CycleLooks, ControlPart, Asked, Distinct
<1>13. CASE Tick
  BY <1>0, <1>13, ControlRests DEF Tick, MutexOK
<1> QED BY <1>1, <1>2, <1>3, <1>4, <1>5, <1>6, <1>7, <1>8, <1>9, <1>10, <1>11, <1>12, <1>13
        DEF Next, Handler

\* The invariant is inductive.
LEMMA LevelNext == ASSUME LevelInv PROVE [Next]_vars => LevelInv'
<1>1. ASSUME Next PROVE LevelInv'
  BY <1>1, LevelsNext, PlacesNext, ControlNext DEF LevelInv
<1>2. ASSUME UNCHANGED vars PROVE LevelInv'
  BY <1>2 DEF vars, levels, refresh, control, LevelInv, LevelPart, AgePart, PlacePart,
              ControlPart, Asked, Distinct, CalmInv
<1> QED BY <1>1, <1>2

-----------------------------------------------------------------------------
(* The theorems. *)

\* Every variable of the level keeps to its values.
THEOREM LevelTypes == Spec => []LevelTypeOK
<1>1. LevelInv /\ [Next]_vars => LevelInv'
  BY LevelNext
<1> QED BY LevelInit, <1>1, PartsAreType, PTL DEF Spec

\* The worst value of a window is forgotten only when the level is as bad.
THEOREM BadIsNeverLost == Spec => BadIsNotLost
<1>1. LevelInv /\ [Next]_vars => LevelInv'
  BY LevelNext
<1>2. LevelInv /\ [Next]_vars => [curlevel' < curlevel => level' >= curlevel]_vars
  BY LevelsNext DEF StepOK
<1> QED BY LevelInit, <1>1, <1>2, PTL DEF Spec, BadIsNotLost

\* The weather gets better only after ahtung_delay seconds without an event
\* that speaks against it, up to the length of one refresh_sensval.
THEOREM CalmComesFirst == Spec => CalmBeforeBetter
<1>1. LevelInv /\ [Next]_vars => LevelInv'
  BY LevelNext
<1>2. LevelInv /\ [Next]_vars =>
        [Better /\ UNCHANGED client => ~Forbidden /\ calm > Delay - MaxLag]_vars
  BY LevelsNext DEF StepOK
<1> QED BY LevelInit, <1>1, <1>2, PTL DEF Spec, CalmBeforeBetter

\* A mutex held by a thread below a signal handler, or by a handler below
\* another, stays where it is.
LEMMA StuckNext ==
  ASSUME LevelInv, Stuck, Next
  PROVE  Stuck' /\ UNCHANGED <<level, forced, Forbidden>>
<1>0. /\ datamutex # None
      /\ \A t \in Threads : Free(t) => datamutex # t
      /\ \A i \in DOMAIN handlers : Innermost(i) => datamutex # handlers[i].sig
  <2>1. handlers \in Seq([sig : Signals, thread : Threads]) /\ Distinct
    BY DEF LevelInv, ControlPart
  <2>2. \A i \in DOMAIN handlers : handlers[i].sig \in Signals
    <3>1. \A i \in DOMAIN handlers : handlers[i] \in [sig : Signals, thread : Threads]
      BY <2>1, Element
    <3> QED BY <3>1
  <2>3. CASE datamutex \in Threads /\ ~Free(datamutex)
    BY <2>2, <2>3, Owners
  <2>4. ASSUME NEW i \in DOMAIN handlers, handlers[i].sig = datamutex, ~Innermost(i)
        PROVE  /\ datamutex # None
               /\ \A t \in Threads : datamutex # t
               /\ \A j \in DOMAIN handlers : Innermost(j) => datamutex # handlers[j].sig
    BY <2>1, <2>2, <2>4, Owners DEF Distinct
  <2> QED BY <2>3, <2>4 DEF Stuck
<1>1. ASSUME UNCHANGED <<datamutex, handlers>> PROVE Stuck'
  BY <1>1 DEF Stuck, Free, Innermost
<1>2. ASSUME NEW s \in Stations, Begin(s) \/ Refresh(s) \/ Dies(s) \/ CycleTakes(s)
      PROVE  UNCHANGED <<datamutex, handlers>> /\ UNCHANGED <<level, forced, Forbidden>>
  <2>1. ~LockField(s) /\ ~Field(s) /\ ~LockFinal(s) /\ ~Final(s)
    BY <1>0, Owners DEF LockField, Field, LockFinal, Final, Lock, Unlock
  <2> QED BY <1>2, <2>1 DEF Refresh, Begin, Dies, CycleTakes, levels, control
<1>3. ASSUME ClientAsks \/ ClientLocks \/ ClientSets \/ CycleLooks \/ ClientObeyed \/ Tick
      PROVE  UNCHANGED <<datamutex, handlers>> /\ UNCHANGED <<level, forced, Forbidden>>
  <2>1. ~ClientLocks /\ ~ClientObeyed
    BY <1>0, Owners DEF ClientLocks, ClientObeyed, Lock, Unlock
  <2> QED BY <1>3, <2>1 DEF ClientAsks, ClientSets, CycleLooks, Tick, levels, control
<1>4. ASSUME NEW i \in 1..Cardinality(Signals), Handler(i) PROVE FALSE
  BY <1>0, <1>4 DEF Handler, HandlerLocks, HandlerEnds, Lock, Unlock
<1>5. ASSUME NEW sig \in Signals, NEW t \in Hit, Signal(sig, t)
      PROVE  Stuck' /\ UNCHANGED <<level, forced, Forbidden>>
  <2>1. UNCHANGED datamutex /\ UNCHANGED <<level, forced, Forbidden>>
    BY <1>5 DEF Signal, levels
  <2>2. /\ DOMAIN handlers \subseteq DOMAIN handlers'
        /\ \A i \in DOMAIN handlers : handlers'[i] = handlers[i]
    <3>1. handlers \in Seq([sig : Signals, thread : Threads])
      BY DEF LevelInv, ControlPart
    <3>2. handlers' = Append(handlers, [sig |-> sig, thread |-> t])
      BY <1>5 DEF Signal
    <3>3. [sig |-> sig, thread |-> t] \in [sig : Signals, thread : Threads]
      BY Owners
    <3> QED BY <3>1, <3>2, <3>3
  <2> QED BY <2>1, <2>2 DEF Stuck, Free, Innermost
<1> QED BY <1>1, <1>2, <1>3, <1>4, <1>5 DEF Next

\* Once a signal has hit the thread inside datamutex the weather never changes.
THEOREM StuckStays == Spec => StuckIsForever
<1>1. LevelInv /\ [Next]_vars => LevelInv'
  BY LevelNext
<1>2. LevelInv /\ [Next]_vars => [Stuck => Stuck' /\ UNCHANGED <<level, forced, Forbidden>>]_vars
  BY StuckNext
<1> QED BY LevelInit, <1>1, <1>2, PTL DEF Spec, StuckIsForever

\* Where pthread_kill tells that a thread has ended, get_plugin hides the
\* stations that the cycle should revive.
THEOREM DeadAreNotRevived == ASSUME DeathIsSeen PROVE Spec => DeadStationsStayDead
<1> DEFINE Stays == \A s \in Stations :
                      station[s] # "up" /\ cycle # s => station'[s] # "up" /\ cycle' # s
<1>1. LevelInv /\ [Next]_vars => LevelInv'
  BY LevelNext
<1>2. ASSUME LevelInv, Next PROVE Stays
  <2>0. station \in [Stations -> {"up", "dead", "killed"}]
    BY <1>2 DEF LevelInv, ControlPart
  <2>1. ASSUME UNCHANGED <<station, cycle>> PROVE Stays
    BY <2>1
  <2>2. ASSUME NEW t \in Stations, Dies(t) PROVE Stays
    BY <2>0, <2>2 DEF Dies
  <2>3. ASSUME NEW t \in Stations, CycleTakes(t) PROVE Stays
    <3>1. UNCHANGED station /\ cycle' = get_plugin(t)
      BY <2>3 DEF CycleTakes
    <3>2. \A s \in Stations : station[s] # "up" => ~Alive(s) /\ s # None
      BY DeathIsSeen, Owners DEF Alive
    <3> QED BY <3>1, <3>2 DEF get_plugin
  <2>4. CASE CycleLooks
    <3>1. cycle' = None /\ \A s \in Stations : s # cycle => station'[s] = station[s]
      BY <2>0, <2>4 DEF CycleLooks
    <3> QED BY <3>1, Owners
  <2>5. ASSUME NEW t \in Stations, Begin(t) \/ Refresh(t) PROVE UNCHANGED <<station, cycle>>
    BY <2>5 DEF Begin, Refresh, LockField, Field, LockFinal, Final, control
  <2>6. ASSUME ClientAsks \/ ClientLocks \/ ClientSets \/ ClientObeyed \/ Tick
        PROVE  UNCHANGED <<station, cycle>>
    BY <2>6 DEF ClientAsks, ClientLocks, ClientSets, ClientObeyed, Tick, control
  <2>7. ASSUME NEW sig \in Signals, NEW t \in Hit, Signal(sig, t) PROVE UNCHANGED <<station, cycle>>
    BY <2>7 DEF Signal
  <2>8. ASSUME NEW i \in 1..Cardinality(Signals), Handler(i) PROVE UNCHANGED <<station, cycle>>
    BY <2>8 DEF Handler, HandlerLocks, HandlerEnds, control
  <2> QED BY <1>2, <2>1, <2>2, <2>3, <2>4, <2>5, <2>6, <2>7, <2>8 DEF Next
<1>3. LevelInv /\ [Next]_vars => [Stays]_vars
  BY <1>2
<1> QED BY LevelInit, <1>1, <1>3, PTL DEF Spec, DeadStationsStayDead

-----------------------------------------------------------------------------
(* chkweatherlevel as an operator. *)

\* The limits as the program knows them, in any order, with any sign.
Conds == [good : Int, bad : Int, terrible : Int, prohibited : Int, negflag : BOOLEAN,
          shtdnflag : BOOLEAN]

\* w is not better than v.
NotBetter(v, w, c) == IF c.negflag THEN w <= v ELSE v <= w

\* What a value makes of the worst level so far (the end of chkweatherlevel).
Worst(worst, v, c) == IF Judged(v, c) > worst THEN Judged(v, c) ELSE worst

\* A value beyond a limit, of either sign.
Beyond(v, limit, c) == IF c.negflag THEN v < limit ELSE v > limit

\* The level of a value, one limit after the other.
LEMMA LevelOf ==
  ASSUME NEW c \in Conds, NEW v \in Int
  PROVE  LET high == c.prohibited > c.terrible /\ Beyond(v, c.prohibited, c)
         IN /\ high => NewLevel(v, c) = 3
            /\ ~high /\ Beyond(v, c.terrible, c) => NewLevel(v, c) = 2
            /\ ~high /\ ~Beyond(v, c.terrible, c) /\ Beyond(v, c.bad, c) => NewLevel(v, c) = 1
            /\ ~high /\ ~Beyond(v, c.terrible, c) /\ ~Beyond(v, c.bad, c)
                 => NewLevel(v, c) \in {-1, 0}
<1> DEFINE sign == IF c.negflag THEN -1 ELSE 1
           high == c.prohibited > c.terrible /\ Beyond(v, c.prohibited, c)
<1>1. \A l \in Int : sign * v > sign * l <=> Beyond(v, l, c)
  BY DEF Beyond
<1>2. c.prohibited \in Int /\ c.terrible \in Int /\ c.bad \in Int
  BY DEF Conds
<1>3. /\ c.prohibited > c.terrible /\ sign * v > sign * c.prohibited <=> high
      /\ sign * v > sign * c.terrible <=> Beyond(v, c.terrible, c)
      /\ sign * v > sign * c.bad <=> Beyond(v, c.bad, c)
  BY <1>1, <1>2
<1>4. NewLevel(v, c) =
        IF c.prohibited > c.terrible /\ sign * v > sign * c.prohibited THEN 3
        ELSE IF sign * v > sign * c.terrible THEN 2
        ELSE IF sign * v > sign * c.bad THEN 1
        ELSE IF sign * v < sign * c.good THEN 0
        ELSE -1
  BY DEF NewLevel, GOOD, BAD, TERRIBLE, PROHIBITED
<1> HIDE DEF sign
<1> QED BY <1>3, <1>4

\* A value that is not better is judged at least as bad, and shuts down whatever the
\* better one would.
LEMMA NotBetterNotLess ==
  ASSUME NEW c \in Conds, NEW v \in Int, NEW w \in Int, NotBetter(v, w, c)
  PROVE  /\ NewLevel(v, c) \in -1..3 /\ NewLevel(w, c) \in -1..3
         /\ NewLevel(v, c) >= 1 => NewLevel(w, c) >= NewLevel(v, c)
<1>1. \A l \in Int : Beyond(v, l, c) => Beyond(w, l, c)
  BY DEF NotBetter, Beyond
<1>2. c.prohibited \in Int /\ c.terrible \in Int /\ c.bad \in Int
  BY DEF Conds
<1>3. /\ Beyond(v, c.prohibited, c) => Beyond(w, c.prohibited, c)
      /\ Beyond(v, c.terrible, c) => Beyond(w, c.terrible, c)
      /\ Beyond(v, c.bad, c) => Beyond(w, c.bad, c)
  BY <1>1, <1>2
<1> QED BY <1>3, LevelOf

\* chkweatherlevel: a stronger wind, or a lower value where that is the worse, never
\* gives better weather, whatever the limits of the station and their order, and shuts
\* down whenever the better value would have.
THEOREM WorseIsNotBetter ==
  ASSUME NEW c \in Conds, NEW v \in Int, NEW w \in Int, NotBetter(v, w, c),
         NEW worst \in Levels
  PROVE  /\ Worst(worst, w, c) >= Worst(worst, v, c)
         /\ Shutdown(v, c) => Shutdown(w, c)
<1>1. /\ NewLevel(v, c) \in -1..3 /\ NewLevel(w, c) \in -1..3
      /\ NewLevel(v, c) >= 1 => NewLevel(w, c) >= NewLevel(v, c)
  BY NotBetterNotLess
<1>2. Shutdown(v, c) => Shutdown(w, c)
  BY <1>1 DEF Shutdown, TERRIBLE
<1>3. Judged(v, c) \in -1..3 /\ Judged(w, c) \in -1..3
  BY <1>1 DEF Judged, PROHIBITED
<1>4. Judged(v, c) >= 1 => Judged(w, c) >= Judged(v, c)
  BY <1>1, <1>2 DEF Judged, PROHIBITED
<1>5. worst \in 0..3
  BY LevelNumbers
<1> QED BY <1>2, <1>3, <1>4, <1>5 DEF Worst
=============================================================================
