------------------------- MODULE WeatherProxyProps -------------------------
(* What weather_proxy owes to the daemons that ask it whether to close.    *)
EXTENDS WeatherProxy

\* Every variable keeps to the values its field of the program has.
ProxyTypeOK ==
  /\ shm \in Objects \cup {None} /\ sem \in Objects \cup {None}
  /\ mem \in [Objects -> Contents] /\ count \in [Objects -> 0..1]
  /\ pc \in {"shm", "memset", "memset_end", "sem", "connect", "loop", "wait", "copy",
             "unlink_sem", "unlink_shm", "dead"}
  /\ pshm \in Objects \cup {None} /\ psem \in Objects \cup {None}
  /\ new \in Records
  /\ forbidden \in BOOLEAN
  /\ sock \in {"ok", "broken", "none"}
  /\ inbox \in Seq([key : {"WEATHER"}, val : Levels] \cup [key : {"TWEATH"}, val : Times])
  /\ server \in {"up", "down"} /\ kills \in Nat
  /\ rpc \in [Readers -> {"idle", "sem", "wait", "copy", "post"}]
  /\ rshm \in [Readers -> Objects \cup {None}] /\ rsem \in [Readers -> Objects \cup {None}]
  /\ raced \in SUBSET Readers /\ buf \in [Readers -> Contents]
  /\ value \in Records /\ zeroing \in BOOLEAN /\ view \in [Readers -> Records] /\ spoiled \in SUBSET Readers

Register == INSTANCE WeatherRegister WITH
  Records <- Contents, Zero <- Zeros, reading <- Active, attached <- Attached,
  answer <- [r \in Readers |-> IF r \in Active THEN Zeros ELSE buf[r]]

\* get_weather_data returns the record published last in the memory it
\* opened, whole, whatever daemon started, stopped or was killed meanwhile;
\* only a call that meets the memset of a new daemon may get a torn one.
ReadsAreCurrent == Register!Spec

\* A level that lets the domes open is, if it has a time, what the server
\* told at that time: neither an answer cut short nor a lost connection
\* puts the level of one measurement beside the time of another.
LevelIsHonest ==
  value.time > 0 /\ value.weather < TERRIBLE => value.weather = Forecast[value.time]

\* The ban by SIGUSR1 has reached the memory, and no better weather that was
\* read before the signal is on its way there.
Banned ==
  /\ forbidden /\ value.weather >= TERRIBLE
  /\ ~(pc \in {"wait", "copy"} /\ new.weather < TERRIBLE)

\* While the ban lasts nothing the server sends, and no loss of the server,
\* makes the published weather better; only a new daemon does, which starts
\* with zeros.
BanIsKept == [][Banned /\ forbidden' => Banned' \/ pc = "memset_end"]_vars

\* Without a connection to the server the published weather closes the
\* domes, until the next answer to a new connection has come.
LostServerIsPublished == pc = "loop" /\ sock = "none" => value.weather >= TERRIBLE

\* The processes between the sem_wait and the sem_post of semaphore s.
Holders(s) ==
  {r \in Readers : rpc[r] \in {"copy", "post"} /\ rsem[r] = s}
    \cup {d \in {"daemon"} : pc = "copy" /\ psem = s}

\* A semaphore is taken by one process at a time, and a taken one will be
\* free again: somebody holds it, or somebody was killed who did.
TakenIsHeld ==
  \A s \in Objects :
    \/ count[s] = 1 /\ Holders(s) = {}
    \/ count[s] = 0 /\ \E h \in Holders(s) : Holders(s) = {h}
    \/ count[s] = 0 /\ Holders(s) = {} /\ kills > 0
=============================================================================
