---------------------------- MODULE WeatherLevel ----------------------------
(***************************************************************************)
(* weatherdaemon_multimeteo: the common weather level, made of the values  *)
(* of all stations, the signals of the operator and the commands of the    *)
(* local socket.  Every station has a thread that calls refresh_sensval;   *)
(* a client's commands run in a thread of the socket, the revival of dead  *)
(* stations in the main thread, a signal in whatever thread it hits.       *)
(* Moments are kept as ages in seconds, up to what the code compares.      *)
(***************************************************************************)
EXTENDS WeatherCond, Sequences, FiniteSets

CONSTANTS Stations,    \* their threads
          Client,      \* the thread of the local socket
          Main,        \* the main thread
          None,
          Fields,      \* Fields[s]: the values of a station, [cond, samples]
          Orders,      \* what the client may command, [op, par]
          Window,      \* 3 * tpoll
          Delay,       \* ahtung_delay
          MaxLag,      \* seconds a call of refresh_sensval may last
          DeathIsSeen, \* pthread_kill fails for a thread that has ended
          Hit,         \* threads the system may choose for a signal
          MaxEvents    \* signals, commands and lost stations in a behaviour

Threads == Stations \cup {Client, Main}
Signals == {"forbid", "allow"}
\* Ages beyond which the code makes no difference.
Old == Delay + 1 + MaxLag
Closed == Window + MaxLag

ASSUME WeatherLevelAssumption ==
  /\ Window \in Nat /\ Delay \in Nat /\ MaxLag \in Nat /\ Window <= Delay
  /\ None \notin Threads \cup Signals /\ Threads \cap Signals = {}
  /\ Fields \in [Stations -> Seq([cond : [good : Int, bad : Int, terrible : Int,
       prohibited : Int, negflag : BOOLEAN, shtdnflag : BOOLEAN], samples : SUBSET Int])]

ASSUME OrdersAssumption ==
  /\ Hit \subseteq Threads /\ MaxEvents \in Nat
  /\ \A o \in Orders :
       /\ o.op = "weathlevel" => o.par \in Levels
       /\ o.op \in {"forceoff", "forbid"} => o.par \in BOOLEAN
       /\ o.op \in {"mute", "unmute"} => o.par \in Stations
       /\ o.op = "setlevel" => o.par \in Stations \X Nat

VARIABLES
  level,      \* NCOMMWEATH
  forced,     \* NFORCEDSHTDN
  curlevel,   \* the worst level since the last update
  upd,        \* age of lasttupdate
  ahtung,     \* age of NLASTAHTUNG
  Forbidden,
  datamutex,  \* the thread, or the signal whose handler, is inside
  pc, idx,    \* where refresh_sensval is, and the field it is at
  lag,        \* age of its curtime
  station,    \* "up", "dead" (its thread has ended) or "killed" (and was released)
  IsMuted,
  hidden,     \* fields <<s, i>> whose sense is above VAL_RECOMMENDED
  client,     \* the command of the client: [pc, order]
  handlers,   \* signal handlers that run, the last is the innermost
  cycle,      \* the station the main thread has taken from get_plugin
  events,     \* how many of them there were
  calm        \* history: age of the last event that speaks against better weather

levels == <<level, forced, curlevel, upd, ahtung, Forbidden>>
refresh == <<pc, idx, lag>>
control == <<station, IsMuted, hidden, client, handlers, cycle>>
vars == <<levels, datamutex, refresh, control, events, calm>>

NoOrder == [pc |-> "idle", order |-> None]

Init ==
  /\ level = GOOD /\ forced = FALSE /\ curlevel = GOOD
  /\ upd = Closed /\ ahtung = Old
  /\ Forbidden = FALSE
  /\ datamutex = None
  /\ pc = [s \in Stations |-> "idle"]
  /\ idx = [s \in Stations |-> 1]
  /\ lag = [s \in Stations |-> 0]
  /\ station = [s \in Stations |-> "up"]
  /\ IsMuted = {} /\ hidden = {}
  /\ client = NoOrder
  /\ handlers = <<>>
  /\ cycle = None
  /\ events = 0
  /\ calm = Old

\* A thread goes on when no signal handler runs on top of it; so does a handler.
Free(t) == \A i \in DOMAIN handlers : handlers[i].thread # t
Innermost(i) == \A j \in DOMAIN handlers : j > i => handlers[j].thread # handlers[i].thread

\* Mutant: whoever asks gets the mutex.
LockAnyway(who) == datamutex' = who

Lock(who) == datamutex = None /\ datamutex' = who

Unlock(who) == datamutex = who /\ datamutex' = None

\* One of the bounded number of events.
Counted == events < MaxEvents /\ events' = events + 1

Older(age, cap) == IF age < cap THEN age + 1 ELSE age

-----------------------------------------------------------------------------
(* refresh_sensval, called by the thread of station s through dumpsensors. *)

\* Mutant: one field too many.
ShownAndOneMore(s, i) == {j \in i..Len(Fields[s]) + 1 : <<s, j>> \notin hidden}

\* The fields from i on that get_value gives and whose sense lets them count.
Shown(s, i) == {j \in i..Len(Fields[s]) : <<s, j>> \notin hidden}

\* The next field, or the final section.
GoTo(s, i) ==
  \/ /\ Shown(s, i) = {}
     /\ pc' = [pc EXCEPT ![s] = "final"] /\ UNCHANGED idx
  \/ \E j \in Shown(s, i) :
       /\ \A k \in Shown(s, i) : j <= k
       /\ pc' = [pc EXCEPT ![s] = "field"] /\ idx' = [idx EXCEPT ![s] = j]

Begin(s) ==
  /\ pc[s] = "idle" /\ station[s] = "up" /\ s \notin IsMuted /\ Free(s)
  /\ lag' = [lag EXCEPT ![s] = 0]
  /\ GoTo(s, 1)
  /\ UNCHANGED <<events, levels, datamutex, control, calm>>

LockField(s) ==
  /\ pc[s] = "field" /\ Free(s) /\ Lock(s)
  /\ pc' = [pc EXCEPT ![s] = "infield"]
  /\ UNCHANGED <<events, levels, idx, lag, control, calm>>

\* chkweatherlevel with a value of the field.
Judge(value, cond) ==
  LET new == Judged(value, cond)
  IN /\ forced' = (forced \/ Shutdown(value, cond))
     /\ curlevel' = IF new > curlevel THEN new ELSE curlevel
     /\ calm' = IF new > GOOD /\ new >= level THEN 0 ELSE calm

Field(s) ==
  /\ pc[s] = "infield" /\ Free(s) /\ Unlock(s)
  /\ LET f == Fields[s][idx[s]] IN \E v \in f.samples : Judge(v, f.cond)
  /\ GoTo(s, idx[s] + 1)
  /\ UNCHANGED <<events, level, upd, ahtung, Forbidden, lag, control>>

LockFinal(s) ==
  /\ pc[s] = "final" /\ Free(s) /\ Lock(s)
  /\ pc' = [pc EXCEPT ![s] = "infinal"]
  /\ UNCHANGED <<events, levels, idx, lag, control, calm>>

\* The worst values of the window are better than the level: it falls when
\* the delay has passed, by one while they are TERRIBLE, to TERRIBLE when the
\* forced shutdown is taken back, else at once.
Decrease(s) ==
  IF ahtung - lag[s] > Delay
    THEN /\ IF curlevel >= TERRIBLE THEN level' = level - 1 /\ UNCHANGED forced
            ELSE level' = (IF forced THEN TERRIBLE ELSE curlevel) /\ forced' = FALSE
         /\ ahtung' = lag[s]
         /\ calm' = 0
    ELSE UNCHANGED <<level, forced, ahtung, calm>>

\* Mutant: weather that stays as bad as it was does not restart the delay.
IncreaseIfWorse(s) ==
  /\ level' = curlevel
  /\ ahtung' = IF curlevel > level THEN lag[s] ELSE ahtung
  /\ UNCHANGED <<forced, calm>>

\* Otherwise it rises to them at once; any but GOOD restarts the delay.
Increase(s) ==
  /\ level' = curlevel
  /\ ahtung' = IF curlevel > GOOD THEN lag[s] ELSE ahtung
  /\ UNCHANGED <<forced, calm>>

\* Mutant: the window is closed before its values have been looked at.
UpdateLevelTooLate(s) ==
  /\ IF level > GOOD THEN Decrease(s) ELSE UNCHANGED <<level, forced, ahtung, calm>>
  /\ upd' = lag[s]
  /\ curlevel' = GOOD
  /\ UNCHANGED Forbidden

UpdateLevel(s) ==
  /\ IF level > curlevel THEN Decrease(s) ELSE Increase(s)
  /\ upd' = lag[s]
  /\ curlevel' = GOOD
  /\ UNCHANGED Forbidden

Final(s) ==
  /\ pc[s] = "infinal" /\ Free(s) /\ Unlock(s)
  /\ pc' = [pc EXCEPT ![s] = "idle"]
  /\ lag' = [lag EXCEPT ![s] = 0]
  /\ CASE Forbidden -> level' = PROHIBITED
            /\ UNCHANGED <<forced, curlevel, upd, ahtung, Forbidden, calm>>
       [] ~Forbidden /\ upd - lag[s] >= Window -> UpdateLevel(s)
       [] OTHER -> UNCHANGED <<levels, calm>>
  /\ UNCHANGED <<events, idx, control>>

-----------------------------------------------------------------------------
(* The local socket: one client at a time.                                 *)

Event == ahtung' = 0 /\ calm' = 0

\* weather_level, force_off, forbid_observations.
Obey(o) ==
  /\ Event
  /\ CASE o.op = "weathlevel" -> level' = o.par /\ UNCHANGED <<forced, Forbidden>>
       [] o.op = "forceoff" -> forced' = o.par /\ UNCHANGED <<level, Forbidden>>
       [] o.op = "forbid" -> Forbidden' = o.par /\ UNCHANGED <<level, forced>>
  /\ UNCHANGED <<curlevel, upd>>

ClientAsks ==
  /\ Counted
  /\ client = NoOrder /\ Free(Client)
  /\ \E o \in Orders :
       /\ o.op \in {"weathlevel", "forceoff", "forbid"}
       /\ client' = [pc |-> "wait", order |-> o]
  /\ UNCHANGED <<levels, datamutex, refresh, station, IsMuted, hidden, handlers, cycle, calm>>

ClientLocks ==
  /\ client.pc = "wait" /\ Free(Client) /\ Lock(Client)
  /\ client' = [client EXCEPT !.pc = "in"]
  /\ UNCHANGED <<events, levels, refresh, station, IsMuted, hidden, handlers, cycle, calm>>

ClientObeyed ==
  /\ client.pc = "in" /\ Free(Client) /\ Unlock(Client)
  /\ Obey(client.order)
  /\ client' = NoOrder
  /\ UNCHANGED <<events, refresh, station, IsMuted, hidden, handlers, cycle>>

\* sensor_alive; get_plugin gives a station that is alive and None for any other.
Alive(s) == station[s] = "up" \/ (station[s] = "dead" /\ ~DeathIsSeen)

\* Mutant: get_plugin gives any station.
AnyPlugin(s) == s
get_plugin(s) == IF Alive(s) THEN s ELSE None

\* mute, unmute, and setlevel for one field: no mutex.
ClientSets ==
  /\ Counted
  /\ client = NoOrder /\ Free(Client)
  /\ \E o \in Orders :
       \/ /\ o.op = "mute" /\ get_plugin(o.par) # None
          /\ IsMuted' = IsMuted \cup {o.par} /\ UNCHANGED hidden
       \/ /\ o.op = "unmute" /\ get_plugin(o.par) # None
          /\ IsMuted' = IsMuted \ {o.par} /\ UNCHANGED hidden
       \/ /\ o.op = "setlevel" /\ get_plugin(o.par[1]) # None
          /\ \/ hidden' = hidden \cup {o.par}
             \/ hidden' = hidden \ {o.par}
          /\ UNCHANGED IsMuted
  /\ UNCHANGED <<levels, datamutex, refresh, station, client, handlers, cycle, calm>>

-----------------------------------------------------------------------------
(* SIGUSR1 and SIGUSR2: signals() and forbid_observations in the thread hit. *)

\* While the handler of a signal runs, the same signal is ignored.
Signal(sig, t) ==
  /\ Counted
  /\ \A i \in DOMAIN handlers : handlers[i].sig # sig
  /\ t \in Stations => station[t] = "up"
  /\ handlers' = Append(handlers, [sig |-> sig, thread |-> t])
  /\ UNCHANGED <<levels, datamutex, refresh, station, IsMuted, hidden, client, cycle, calm>>

HandlerLocks(i) ==
  /\ i \in DOMAIN handlers /\ Innermost(i)
  /\ Lock(handlers[i].sig)
  /\ UNCHANGED <<events, levels, refresh, control, calm>>

HandlerEnds(i) ==
  /\ i \in DOMAIN handlers /\ Innermost(i)
  /\ Unlock(handlers[i].sig)
  /\ Obey([op |-> "forbid", par |-> handlers[i].sig = "forbid"])
  /\ handlers' = [j \in 1..Len(handlers) - 1 |-> handlers[IF j < i THEN j ELSE j + 1]]
  /\ UNCHANGED <<events, refresh, station, IsMuted, hidden, client, cycle>>

-----------------------------------------------------------------------------
(* Stations die, and the cycle of start_servers looks after them.          *)

\* The device is lost: the thread leaves its loop.
Dies(s) ==
  /\ Counted
  /\ pc[s] = "idle" /\ station[s] = "up" /\ Free(s)
  /\ station' = [station EXCEPT ![s] = "dead"]
  /\ UNCHANGED <<levels, datamutex, refresh, IsMuted, hidden, client, handlers, cycle, calm>>

CycleTakes(s) ==
  /\ cycle = None /\ Free(Main)
  /\ cycle' = get_plugin(s) /\ cycle' # None
  /\ UNCHANGED <<events, levels, datamutex, refresh, station, IsMuted, hidden, client, handlers, calm>>

\* A station that is not alive is killed and inited again, which may fail.
CycleLooks ==
  /\ cycle # None /\ Free(Main)
  /\ cycle' = None
  /\ IF Alive(cycle)
       THEN UNCHANGED <<station, hidden>>
       ELSE /\ \E r \in {"up", "killed"} : station' = [station EXCEPT ![cycle] = r]
            /\ hidden' = {f \in hidden : f[1] # cycle}
  /\ UNCHANGED <<events, levels, datamutex, refresh, IsMuted, client, handlers, calm>>

Tick ==
  /\ \A s \in Stations : pc[s] # "idle" => lag[s] < MaxLag
  /\ upd' = Older(upd, Closed) /\ ahtung' = Older(ahtung, Old) /\ calm' = Older(calm, Old)
  /\ lag' = [s \in Stations |-> IF pc[s] = "idle" THEN 0 ELSE lag[s] + 1]
  /\ UNCHANGED <<events, level, forced, curlevel, Forbidden, datamutex, pc, idx, control>>

-----------------------------------------------------------------------------
Refresh(s) == LockField(s) \/ Field(s) \/ LockFinal(s) \/ Final(s)

Handler(i) == HandlerLocks(i) \/ HandlerEnds(i)

Next ==
  \/ \E s \in Stations : Begin(s) \/ Refresh(s) \/ Dies(s) \/ CycleTakes(s)
  \/ ClientAsks \/ ClientLocks \/ ClientObeyed \/ ClientSets
  \/ \E sig \in Signals, t \in Hit : Signal(sig, t)
  \/ \E i \in 1..Cardinality(Signals) : Handler(i)
  \/ CycleLooks \/ Tick

Spec == Init /\ [][Next]_vars
=============================================================================
