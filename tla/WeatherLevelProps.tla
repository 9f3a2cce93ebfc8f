-------------------------- MODULE WeatherLevelProps --------------------------
(* What the common weather level is relied upon for. *)
EXTENDS WeatherLevel

\* Every variable keeps to its values, no age passes the greatest the code
\* tells apart, and no thread is at a field it does not have.
LevelTypeOK ==
  /\ level \in Levels /\ forced \in BOOLEAN /\ curlevel \in Levels
  /\ upd \in 0..Closed /\ ahtung \in 0..Old /\ calm \in 0..Old
  /\ Forbidden \in BOOLEAN
  /\ datamutex \in Threads \cup Signals \cup {None}
  /\ pc \in [Stations -> {"idle", "field", "infield", "final", "infinal"}]
  /\ idx \in [Stations -> Nat] /\ lag \in [Stations -> 0..MaxLag]
  /\ \A s \in Stations : pc[s] \in {"field", "infield"} => idx[s] \in DOMAIN Fields[s]
  /\ station \in [Stations -> {"up", "dead", "killed"}]
  /\ IsMuted \subseteq Stations /\ hidden \subseteq Stations \X Nat
  /\ client \in {NoOrder} \cup [pc : {"wait", "in"}, order : Orders]
  /\ handlers \in Seq([sig : Signals, thread : Threads])
  /\ cycle \in Stations \cup {None} /\ events \in 0..MaxEvents

\* A station makes the published weather better, or takes the forced shutdown
\* back, only when nothing spoke against it for the last ahtung_delay seconds:
\* no value as bad as the level, no command or signal of the operator, no step
\* down before; up to the time that one refresh_sensval may take.
Better == level' < level \/ (forced /\ ~forced')
CalmBeforeBetter ==
  [][Better /\ UNCHANGED client => ~Forbidden /\ calm > Delay - MaxLag]_vars

\* A signal has hit the thread that is inside datamutex, whose handler waits
\* for that mutex.
Stuck ==
  \/ datamutex \in Threads /\ ~Free(datamutex)
  \/ \E i \in DOMAIN handlers : handlers[i].sig = datamutex /\ ~Innermost(i)

\* Then nobody gets the mutex again and the weather never changes.
StuckIsForever == [][Stuck => Stuck' /\ UNCHANGED <<level, forced, Forbidden>>]_vars

\* A station whose thread has ended is not handed to the cycle that should
\* revive it, for get_plugin hides it: one comes back only if it died between
\* get_plugin and the look at it.
DeadStationsStayDead ==
  [][\A s \in Stations : station[s] # "up" /\ cycle # s => station'[s] # "up" /\ cycle' # s]_vars

\* The worst value of a window is forgotten only when the published level is
\* as bad, whichever station closes the window and whenever.
BadIsNotLost == [][curlevel' < curlevel => level' >= curlevel]_vars
=============================================================================
