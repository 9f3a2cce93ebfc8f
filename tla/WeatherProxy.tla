---------------------------- MODULE WeatherProxy ----------------------------
(***************************************************************************)
(* weather_proxy: a daemon asks the weather server for data and keeps the  *)
(* last answer in shared memory, under a named semaphore; other processes  *)
(* read it with get_weather_data.  The names of the memory and of the      *)
(* semaphore are removed when the daemon stops and are left behind when it *)
(* is killed; the guard process starts another one either way.             *)
(***************************************************************************)
EXTENDS Integers, Sequences

CONSTANTS Readers,    \* processes that call get_weather_data
          Objects,    \* memory and semaphore objects that may exist at once
          None,       \* no object
          Forecast,   \* Forecast[t] is the weather the server tells at time t
          MaxKills    \* processes killed in a behaviour

ASSUME NoneAssumption == None \notin Objects /\ "daemon" \notin Readers /\ MaxKills \in Nat

\* weather_condition_t; the zeros of a new memory read as GOOD.
GOOD == 0
BAD == 1
TERRIBLE == 2
PROHIBITED == 3
Levels == GOOD..PROHIBITED
Times == 1..Len(Forecast)

ASSUME ForecastAssumption == Forecast \in Seq(Levels) /\ Forecast # <<>>

\* weather_data_t, the level and the time standing for all the fields; and
\* what a copy is that met another write: some words of each, nothing certain.
Records == [weather : Levels, time : {0} \cup Times]
Zeros == [weather |-> GOOD, time |-> 0]
Torn == [weather |-> PROHIBITED + 1, time |-> 0]
Contents == Records \cup {Torn}

VARIABLES
  shm, sem,    \* what the names /weather_shm and /weather_sem stand for
  mem,         \* the contents of each memory object
  count,       \* the value of each semaphore
  pc,          \* where the daemon is
  pshm, psem,  \* the objects the daemon has open
  new,         \* new_data
  forbidden,
  sock,        \* the connection: "ok", "broken", or "none"
  inbox,       \* lines received and not yet read
  server,      \* "up" or "down"
  kills,       \* processes killed so far
  rpc,         \* where each reader is
  rshm, rsem,  \* the objects it has open
  raced,       \* the readers whose memory was written during their memcpy
  buf,         \* the record it was given, until its call is over
  value, zeroing, view, spoiled  \* history: see WeatherRegister

ipc == <<shm, sem, mem, count>>
proxy == <<pc, pshm, psem, new, forbidden>>
link == <<sock, inbox, server>>
readers == <<rpc, rshm, rsem, raced, buf>>
history == <<value, zeroing, view, spoiled>>
vars == <<ipc, proxy, link, kills, readers, history>>

Active == {r \in Readers : rpc[r] \notin {"idle", "post"}}

Init ==
  /\ shm = None /\ sem = None
  /\ mem = [o \in Objects |-> Zeros]
  /\ count = [o \in Objects |-> 1]
  /\ pc = "shm" /\ pshm = None /\ psem = None
  /\ new = Zeros /\ forbidden = FALSE
  /\ sock = "none" /\ inbox = <<>>
  /\ server \in {"up", "down"}
  /\ kills = 0
  /\ rpc = [r \in Readers |-> "idle"]
  /\ rshm = [r \in Readers |-> None] /\ rsem = [r \in Readers |-> None]
  /\ raced = {} /\ buf = [r \in Readers |-> Zeros]
  /\ value = Zeros /\ zeroing = FALSE /\ view = [r \in Readers |-> Zeros] /\ spoiled = {}

-----------------------------------------------------------------------------
(* The history: the published record, whether the memory is partly filled  *)
(* with zeros, what each call in progress ought to return, and the calls   *)
(* that overlap such a filling.                                            *)

\* The calls on the memory that has the name.
Attached == {r \in Active : rshm[r] = shm}

Publish(v) ==
  /\ value' = v
  /\ view' = [r \in Readers |-> IF r \in Attached THEN v ELSE view[r]]

Forget(r) ==
  /\ view' = [view EXCEPT ![r] = Zeros]
  /\ spoiled' = spoiled \ {r}
  /\ UNCHANGED <<value, zeroing>>

-----------------------------------------------------------------------------
(* Objects: the kernel frees one that has neither a name nor a user.       *)

MemoryInUse == {shm, pshm} \cup {rshm[r] : r \in Readers}
SemaphoresInUse == {sem, psem} \cup {rsem[r] : r \in Readers}

KeepMemory == mem' = [o \in Objects |-> IF o \in MemoryInUse' THEN mem[o] ELSE Zeros]
KeepSemaphores(c) == count' = [o \in Objects |-> IF o \in SemaphoresInUse' THEN c[o] ELSE 1]

\* Mutant: sem_wait does not wait.
DownAtOnce(s) == UNCHANGED count

\* sem_wait and sem_post.
Down(s) == count[s] > 0 /\ count' = [count EXCEPT ![s] = @ - 1]

\* Mutant: the semaphore is not posted.
PostedNot(s) == count

Posted(s) == [count EXCEPT ![s] = @ + 1]

-----------------------------------------------------------------------------
(* The daemon: init_ipc.                                                   *)

\* The object behind a name, or if there is none a new one, of zeros.
Named(name, inUse) ==
  IF name # None THEN name ELSE CHOOSE o \in Objects : o \notin inUse

\* shm_open.  Objects must be enough for the old memory and the new.
OpenMemory ==
  /\ pc = "shm" /\ (shm # None \/ ~(Objects \subseteq MemoryInUse))
  /\ shm' = Named(shm, MemoryInUse)
  /\ pshm' = shm'
  /\ pc' = "memset"
  /\ UNCHANGED <<sem, mem, count, psem, new, forbidden, link, kills, readers, history>>

\* A write to a memory object in two steps: whoever copies it meanwhile, and
\* whoever copies it between the two, gets a torn record.
Copying(o) == {r \in Readers : rpc[r] = "copy" /\ rshm[r] = o}
Write(o, v) ==
  /\ mem' = [mem EXCEPT ![o] = v]
  /\ raced' = raced \cup Copying(o)

\* memset(shared_data, 0, ...): without the semaphore.
Memset ==
  /\ \/ /\ pc = "memset" /\ pc' = "memset_end"
        /\ Write(pshm, Torn)
        /\ zeroing' = TRUE /\ UNCHANGED value
     \/ /\ pc = "memset_end" /\ pc' = "sem"
        /\ Write(pshm, Zeros)
        /\ zeroing' = FALSE /\ value' = Zeros
  /\ spoiled' = spoiled \cup Attached
  /\ UNCHANGED <<shm, sem, count, pshm, psem, new, forbidden, link, kills, rpc, rshm, rsem, buf,
                 view>>

\* Mutant: a semaphore left behind is replaced by a new one.
SemaphoreNew == CHOOSE o \in Objects : o \notin SemaphoresInUse

\* sem_open(O_CREAT, 1): an old semaphore keeps its value.
Semaphore == Named(sem, SemaphoresInUse)

OpenSemaphore ==
  /\ pc = "sem" /\ (sem # None \/ ~(Objects \subseteq SemaphoresInUse))
  /\ sem' = Semaphore
  /\ psem' = sem'
  /\ pc' = "connect"
  /\ UNCHANGED <<shm, mem, count, pshm, new, forbidden, link, kills, readers, history>>

-----------------------------------------------------------------------------
(* The daemon: run_daemon, update_shm, parse_line.                         *)

\* sl_sock_run_client; new_data starts as what the memory holds.
Connect ==
  /\ pc = "connect"
  /\ IF server = "down"
       THEN pc' = "unlink_sem" /\ UNCHANGED <<new, sock>>
       ELSE pc' = "loop" /\ new' = mem[pshm] /\ sock' = "ok"
  /\ UNCHANGED <<ipc, pshm, psem, forbidden, inbox, server, kills, readers, history>>

\* SIGTERM, SIGINT or the death of the parent has set running to 0: the loop
\* ends at its next turn and closes the connection.
LeaveLoop ==
  /\ pc = "loop"
  /\ pc' = "unlink_sem"
  /\ sock' = "none" /\ inbox' = <<>>
  /\ UNCHANGED <<ipc, pshm, psem, new, forbidden, server, kills, readers, history>>

\* Mutant: a lost server is not told to the readers.
LoseServerSilently ==
  sock' = "none" /\ new' = [new EXCEPT !.weather = TERRIBLE] /\ pc' = "loop"

LoseServer == sock' = "none" /\ new' = [new EXCEPT !.weather = TERRIBLE] /\ pc' = "wait"

\* Requests have failed for RECONN_TMOUT: a new connection, or the weather is
\* TERRIBLE.  (A request that succeeds, or fails before that, leaves only the
\* time of it; the lines still unread go with the old connection.)
Reconnect ==
  /\ pc = "loop" /\ sock # "ok"
  /\ inbox' = <<>>
  /\ IF server = "down"
       THEN LoseServer
       ELSE sock' = "ok" /\ pc' = "loop" /\ UNCHANGED new
  /\ UNCHANGED <<ipc, pshm, psem, forbidden, server, kills, readers, history>>

\* Mutant: the ban is forgotten.
LevelAsTold(level) == level

\* The level that goes to the readers.
Level(level) == IF forbidden THEN PROHIBITED ELSE level

\* Mutant: the level is published before its time has come.
LineWeatherPublished(val) == new' = [new EXCEPT !.weather = val] /\ pc' = "wait"

\* parse_line: the line of the weather, and the line of the time, which is
\* the last of an answer and has new_data published.
LineWeather(val) == new' = [new EXCEPT !.weather = val] /\ UNCHANGED pc
LineTime(val) == new' = [weather |-> Level(new.weather), time |-> val] /\ pc' = "wait"

ReadLine ==
  /\ pc = "loop" /\ inbox # <<>>
  /\ IF Head(inbox).key = "WEATHER" THEN LineWeather(Head(inbox).val)
                                   ELSE LineTime(Head(inbox).val)
  /\ inbox' = Tail(inbox)
  /\ UNCHANGED <<ipc, pshm, psem, forbidden, sock, server, kills, readers, history>>

\* update_shm: sem_wait and the beginning of the memcpy.
WaitSem ==
  /\ pc = "wait" /\ Down(psem)
  /\ Write(pshm, Torn)
  /\ pc' = "copy"
  /\ UNCHANGED <<shm, sem, pshm, psem, new, forbidden, link, kills, rpc, rshm, rsem, buf,
                 history>>

\* The end of the memcpy and sem_post.
PostSem ==
  /\ pc = "copy"
  /\ Write(pshm, new)
  /\ Publish(new)
  /\ count' = Posted(psem)
  /\ pc' = "loop"
  /\ UNCHANGED <<shm, sem, pshm, psem, new, forbidden, link, kills, rpc, rshm, rsem, buf,
                 zeroing, spoiled>>

-----------------------------------------------------------------------------
(* The daemon: cleanup_ipc, the guard, the signals.                        *)

UnlinkSem ==
  /\ pc = "unlink_sem"
  /\ sem' = None /\ psem' = None
  /\ pc' = "unlink_shm"
  /\ UNCHANGED <<shm, mem, pshm, new, forbidden, link, kills, readers, history>>
  /\ KeepSemaphores(count)

\* The child is gone, and its variables with it.
Exit ==
  /\ pc' = "dead" /\ pshm' = None /\ psem' = None
  /\ new' = Zeros /\ forbidden' = FALSE
  /\ sock' = "none" /\ inbox' = <<>>

UnlinkShm ==
  /\ pc = "unlink_shm"
  /\ shm' = None
  /\ Exit
  /\ value' = Zeros
  /\ UNCHANGED <<sem, count, server, kills, readers, zeroing, view, spoiled>>
  /\ KeepMemory

\* The guard forks a new child, whose variables are those of the parent.
Fork ==
  /\ pc = "dead"
  /\ pc' = "shm"
  /\ UNCHANGED <<ipc, pshm, psem, new, forbidden, link, kills, readers, history>>

\* SIGUSR1 and SIGUSR2.
Signal ==
  /\ pc # "dead"
  /\ forbidden' = ~forbidden
  /\ UNCHANGED <<ipc, pc, pshm, psem, new, link, kills, readers, history>>

\* The child dies at once, by SIGKILL or by a fault of its own.
Kill ==
  /\ pc # "dead" /\ kills < MaxKills
  /\ kills' = kills + 1
  /\ Exit
  /\ UNCHANGED <<shm, sem, server, readers, history>>
  /\ KeepMemory /\ KeepSemaphores(count)

-----------------------------------------------------------------------------
(* The weather server, as the proxy meets it.                              *)

\* The answer to a request, with the measurement of some time.
\* A server that hangs takes requests and does not answer: no fairness here.
Answer ==
  /\ server = "up" /\ sock = "ok" /\ inbox = <<>>
  /\ \E t \in Times :
       inbox' = <<[key |-> "WEATHER", val |-> Forecast[t]], [key |-> "TWEATH", val |-> t]>>
  /\ UNCHANGED <<ipc, proxy, sock, server, kills, readers, history>>

\* The server goes away; of the lines on their way some are lost.
ServerFails ==
  /\ server # "down"
  /\ server' = "down"
  /\ IF sock = "ok"
       THEN /\ sock' = "broken"
            /\ \E n \in 0..Len(inbox) : inbox' = SubSeq(inbox, 1, n)
       ELSE UNCHANGED <<sock, inbox>>
  /\ UNCHANGED <<ipc, proxy, kills, readers, history>>

ServerStarts ==
  /\ server = "down"
  /\ server' = "up"
  /\ UNCHANGED <<ipc, proxy, sock, inbox, kills, readers, history>>

-----------------------------------------------------------------------------
(* A reader: get_weather_data.                                             *)

\* The end of a call, its objects closed.
Close(r) ==
  /\ rpc' = [rpc EXCEPT ![r] = "idle"]
  /\ rshm' = [rshm EXCEPT ![r] = None]
  /\ rsem' = [rsem EXCEPT ![r] = None]
  /\ buf' = [buf EXCEPT ![r] = Zeros]
  /\ UNCHANGED <<shm, sem, proxy, link>>
  /\ KeepMemory

BeginRead(r) ==
  /\ rpc[r] = "idle" /\ shm # None
  /\ rshm' = [rshm EXCEPT ![r] = shm]
  /\ rpc' = [rpc EXCEPT ![r] = "sem"]
  /\ view' = [view EXCEPT ![r] = value]
  /\ spoiled' = IF zeroing THEN spoiled \cup {r} ELSE spoiled
  /\ UNCHANGED <<ipc, proxy, link, kills, rsem, raced, buf, value, zeroing>>

\* No semaphore: the call fails.
NoSemaphore(r) ==
  /\ rpc[r] = "sem" /\ sem = None
  /\ Close(r)
  /\ Forget(r)
  /\ UNCHANGED <<count, kills, raced>>

ReaderOpens(r) ==
  /\ rpc[r] = "sem" /\ sem # None
  /\ rsem' = [rsem EXCEPT ![r] = sem]
  /\ rpc' = [rpc EXCEPT ![r] = "wait"]
  /\ UNCHANGED <<ipc, proxy, link, kills, rshm, raced, buf, history>>

ReaderWaits(r) ==
  /\ rpc[r] = "wait" /\ Down(rsem[r])
  /\ rpc' = [rpc EXCEPT ![r] = "copy"]
  /\ UNCHANGED <<shm, sem, mem, proxy, link, kills, rshm, rsem, raced, buf, history>>

ReaderCopies(r) ==
  /\ rpc[r] = "copy"
  /\ buf' = [buf EXCEPT ![r] = IF r \in raced THEN Torn ELSE mem[rshm[r]]]
  /\ raced' = raced \ {r}
  /\ rpc' = [rpc EXCEPT ![r] = "post"]
  /\ Forget(r)
  /\ UNCHANGED <<ipc, proxy, link, kills, rshm, rsem>>

ReaderPosts(r) ==
  /\ rpc[r] = "post"
  /\ Close(r)
  /\ KeepSemaphores(Posted(rsem[r]))
  /\ UNCHANGED <<kills, raced, history>>

\* The reader dies in the middle of its call.
KillReader(r) ==
  /\ rpc[r] # "idle" /\ kills < MaxKills
  /\ kills' = kills + 1
  /\ raced' = raced \ {r}
  /\ Close(r)
  /\ KeepSemaphores(count)
  /\ Forget(r)

-----------------------------------------------------------------------------
Daemon ==
  \/ OpenMemory \/ Memset \/ OpenSemaphore \/ Connect \/ LeaveLoop
  \/ Reconnect \/ ReadLine \/ WaitSem \/ PostSem \/ UnlinkSem \/ UnlinkShm \/ Fork
  \/ Signal \/ Kill

Server == Answer \/ ServerFails \/ ServerStarts

Reader(r) ==
  \/ BeginRead(r) \/ NoSemaphore(r) \/ ReaderOpens(r) \/ ReaderWaits(r)
  \/ ReaderCopies(r) \/ ReaderPosts(r) \/ KillReader(r)

Next == Daemon \/ Server \/ \E r \in Readers : Reader(r)

Spec == Init /\ [][Next]_vars
=============================================================================
