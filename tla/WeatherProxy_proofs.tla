------------------------- MODULE WeatherProxy_proofs -------------------------
(* The safety of weather_proxy, for any number of readers and objects. *)
EXTENDS WeatherProxyProps, TLAPS

(* The types in parts. *)

Lines == [key : {"WEATHER"}, val : Levels] \cup [key : {"TWEATH"}, val : Times]
PCs == {"shm", "memset", "memset_end", "sem", "connect", "loop", "wait", "copy",
        "unlink_sem", "unlink_shm", "dead"}

NameTypes ==
  /\ shm \in Objects \cup {None} /\ sem \in Objects \cup {None}
  /\ pshm \in Objects \cup {None} /\ psem \in Objects \cup {None}
  /\ pc \in PCs /\ kills \in Nat
DataTypes ==
  /\ mem \in [Objects -> Contents] /\ new \in Records /\ value \in Records
  /\ view \in [Readers -> Records] /\ buf \in [Readers -> Contents]
FlagTypes == forbidden \in BOOLEAN /\ zeroing \in BOOLEAN
LinkTypes ==
  sock \in {"ok", "broken", "none"} /\ server \in {"up", "down"} /\ inbox \in Seq(Lines)
ReaderTypes ==
  /\ rpc \in [Readers -> {"idle", "sem", "wait", "copy", "post"}]
  /\ rshm \in [Readers -> Objects \cup {None}] /\ rsem \in [Readers -> Objects \cup {None}]
  /\ raced \in SUBSET Readers /\ spoiled \in SUBSET Readers

\* What a process uses it has open.
Opened ==
  /\ pc \in {"memset", "memset_end", "sem", "connect", "loop", "wait", "copy"} => pshm \in Objects
  /\ pc \in {"connect", "loop", "wait", "copy"} => psem \in Objects
  /\ \A r \in Readers : rpc[r] # "idle" => rshm[r] \in Objects
  /\ \A r \in Readers : rpc[r] \in {"wait", "copy", "post"} => rsem[r] \in Objects

\* The memory is whole when the daemon reads it into new_data.
WholeAtStart == pc \in {"sem", "connect"} => mem[pshm] \in Records

(* The semaphores, without sets: who holds s, and what its value says. *)

ReaderHolds(r, s) == rpc[r] \in {"copy", "post"} /\ rsem[r] = s
DaemonHolds(s) == pc = "copy" /\ psem = s

SemOK(s) ==
  /\ count[s] \in {0, 1}
  /\ count[s] = 1 => ~DaemonHolds(s) /\ \A r \in Readers : ~ReaderHolds(r, s)
  /\ DaemonHolds(s) => \A r \in Readers : ~ReaderHolds(r, s)
  /\ \A r, q \in Readers : ReaderHolds(r, s) /\ ReaderHolds(q, s) => r = q
  /\ count[s] = 0 => DaemonHolds(s) \/ kills > 0 \/ \E r \in Readers : ReaderHolds(r, s)

Semaphores == count \in [Objects -> {0, 1}] /\ \A s \in Objects : SemOK(s)

(* The weather. *)

Honest(v) == v.time > 0 /\ v.weather < TERRIBLE => v.weather = Forecast[v.time]

Told(t) == [key |-> "WEATHER", val |-> Forecast[t]]
At(t) == [key |-> "TWEATH", val |-> t]

\* The lines not yet read are the rest of one answer, and after its first
\* line new_data holds the level of it.
OneAnswer ==
  \/ inbox = <<>>
  \/ \E t \in Times : inbox = <<Told(t)>> \/ inbox = <<Told(t), At(t)>>
  \/ \E t \in Times : inbox = <<At(t)>> /\ new.weather = Forecast[t]

\* What is published or about to be is honest, and closes the domes while
\* there is no connection.
HonestInv ==
  /\ Honest(value)
  /\ pc \in {"wait", "copy"} => Honest(new)
  /\ OneAnswer

LostInv ==
  /\ pc \notin {"loop", "wait", "copy"} => sock = "none"
  /\ sock = "none" => inbox = <<>>
  /\ pc \in {"wait", "copy"} /\ sock = "none" => new.weather >= TERRIBLE
  /\ pc = "loop" /\ sock = "none" => value.weather >= TERRIBLE

ProxyInv ==
  /\ NameTypes /\ DataTypes /\ FlagTypes /\ LinkTypes /\ ReaderTypes
  /\ Opened /\ WholeAtStart /\ Semaphores /\ HonestInv /\ LostInv

\* The levels, and what follows from the constants.
LEMMA Numbers ==
  /\ Levels = 0..3 /\ GOOD = 0 /\ TERRIBLE = 2 /\ PROHIBITED = 3
  /\ Forecast \in Seq(Levels) /\ Times = 1..Len(Forecast) /\ Len(Forecast) \in Nat
  /\ \A t \in Times : Forecast[t] \in Levels
BY ForecastAssumption DEF Levels, Times, GOOD, TERRIBLE, PROHIBITED

\* Zeros and torn records are contents of the memory; published ones are whole.
LEMMA RecordForms ==
  /\ Zeros \in Records /\ Torn \in Contents /\ Records \subseteq Contents /\ Zeros \in Contents
  /\ \A v \in Records : v.weather \in 0..3 /\ v.time \in Nat /\ v.time \in {0} \cup Times
  /\ \A v \in Records, l \in Levels : [v EXCEPT !.weather = l] \in Records
  /\ \A l \in Levels, t \in Times : [weather |-> l, time |-> t] \in Records
BY Numbers DEF Records, Zeros, Torn, Contents

\* The parts give the type invariant.
LEMMA PartsAreTypes == ProxyInv => ProxyTypeOK
<1> SUFFICES ASSUME ProxyInv PROVE ProxyTypeOK
  OBVIOUS
<1>1. count \in [Objects -> 0..1]
  <2>1. count \in [Objects -> {0, 1}] /\ {0, 1} = 0..1
    BY DEF ProxyInv, Semaphores
  <2> QED BY <2>1
<1> QED BY <1>1 DEF ProxyInv, NameTypes, DataTypes, FlagTypes, LinkTypes, ReaderTypes, Lines, PCs,
            ProxyTypeOK

\* The semaphores are taken by one process at a time.
LEMMA SemIsHeld == ProxyInv => TakenIsHeld
<1> SUFFICES ASSUME ProxyInv, NEW s \in Objects
             PROVE  \/ count[s] = 1 /\ Holders(s) = {}
                    \/ count[s] = 0 /\ \E h \in Holders(s) : Holders(s) = {h}
                    \/ count[s] = 0 /\ Holders(s) = {} /\ kills > 0
  BY DEF TakenIsHeld
<1>1. SemOK(s)
  BY DEF ProxyInv, Semaphores
<1>2. \A h : h \in Holders(s) <=> (h \in Readers /\ ReaderHolds(h, s)) \/ (h = "daemon" /\ DaemonHolds(s))
  BY DEF Holders, ReaderHolds, DaemonHolds
<1>3. CASE count[s] = 1
  BY <1>1, <1>2, <1>3 DEF SemOK
<1>4. CASE count[s] = 0 /\ DaemonHolds(s)
  <2>1. Holders(s) = {"daemon"}
    BY <1>1, <1>2, <1>4 DEF SemOK
  <2> QED BY <1>4, <2>1
<1>5. ASSUME count[s] = 0, ~DaemonHolds(s), NEW r \in Readers, ReaderHolds(r, s)
      PROVE  count[s] = 0 /\ \E h \in Holders(s) : Holders(s) = {h}
  <2>1. Holders(s) = {r}
    BY <1>1, <1>2, <1>5 DEF SemOK
  <2> QED BY <1>5, <2>1
<1>6. CASE count[s] = 0 /\ ~DaemonHolds(s) /\ \A r \in Readers : ~ReaderHolds(r, s)
  <2>1. Holders(s) = {}
    BY <1>2, <1>6
  <2> QED BY <1>1, <1>6, <2>1 DEF SemOK
<1> QED BY <1>1, <1>3, <1>4, <1>5, <1>6 DEF SemOK


\* The object behind a name, old or new, is an object.
LEMMA NamedIsObject ==
  ASSUME NEW n \in Objects \cup {None}, NEW u, n # None \/ ~(Objects \subseteq u)
  PROVE  Named(n, u) \in Objects
BY DEF Named

(* A step at a time: the types. *)

\* The names, the objects the daemon has open and where it is.
LEMMA NamesNext == ASSUME ProxyInv, Next PROVE NameTypes'
<1>1. ASSUME OpenMemory PROVE NameTypes'
  BY <1>1, NamedIsObject DEF OpenMemory, ProxyInv, NameTypes, PCs, ipc, proxy, link, readers, history
<1>2. ASSUME Memset PROVE NameTypes'
  BY <1>2 DEF Memset, ProxyInv, NameTypes, PCs, ipc, proxy, link, readers, history
<1>3. ASSUME OpenSemaphore PROVE NameTypes'
  BY <1>3, NamedIsObject DEF OpenSemaphore, Semaphore, ProxyInv, NameTypes, PCs, ipc, proxy, link, readers, history
<1>4. ASSUME Connect PROVE NameTypes'
  BY <1>4 DEF Connect, ProxyInv, NameTypes, PCs, ipc, proxy, link, readers, history
<1>5. ASSUME LeaveLoop PROVE NameTypes'
  BY <1>5 DEF LeaveLoop, ProxyInv, NameTypes, PCs, ipc, proxy, link, readers, history
<1>6. ASSUME Reconnect PROVE NameTypes'
  BY <1>6 DEF Reconnect, LoseServer, ProxyInv, NameTypes, PCs, ipc, proxy, link, readers, history
<1>7. ASSUME ReadLine PROVE NameTypes'
  BY <1>7 DEF ReadLine, LineWeather, LineTime, ProxyInv, NameTypes, PCs, ipc, proxy, link, readers, history
<1>8. ASSUME WaitSem PROVE NameTypes'
  BY <1>8 DEF WaitSem, ProxyInv, NameTypes, PCs, ipc, proxy, link, readers, history
<1>9. ASSUME PostSem PROVE NameTypes'
  BY <1>9 DEF PostSem, ProxyInv, NameTypes, PCs, ipc, proxy, link, readers, history
<1>10. ASSUME UnlinkSem PROVE NameTypes'
  BY <1>10 DEF UnlinkSem, ProxyInv, NameTypes, PCs, ipc, proxy, link, readers, history
<1>11. ASSUME UnlinkShm PROVE NameTypes'
  BY <1>11 DEF UnlinkShm, Exit, ProxyInv, NameTypes, PCs, ipc, proxy, link, readers, history
<1>12. ASSUME Fork PROVE NameTypes'
  BY <1>12 DEF Fork, ProxyInv, NameTypes, PCs, ipc, proxy, link, readers, history
<1>13. ASSUME Signal PROVE NameTypes'
  BY <1>13 DEF Signal, ProxyInv, NameTypes, PCs, ipc, proxy, link, readers, history
<1>14. ASSUME Kill PROVE NameTypes'
  BY <1>14 DEF Kill, Exit, ProxyInv, NameTypes, PCs, ipc, proxy, link, readers, history
<1>15. ASSUME Answer PROVE NameTypes'
  BY <1>15 DEF Answer, ProxyInv, NameTypes, PCs, ipc, proxy, link, readers, history
<1>16. ASSUME ServerFails PROVE NameTypes'
  BY <1>16 DEF ServerFails, ProxyInv, NameTypes, PCs, ipc, proxy, link, readers, history
<1>17. ASSUME ServerStarts PROVE NameTypes'
  BY <1>17 DEF ServerStarts, ProxyInv, NameTypes, PCs, ipc, proxy, link, readers, history
<1>18. ASSUME NEW r \in Readers, BeginRead(r) PROVE NameTypes'
  BY <1>18 DEF BeginRead, ProxyInv, NameTypes, PCs, ipc, proxy, link, readers, history
<1>19. ASSUME NEW r \in Readers, NoSemaphore(r) PROVE NameTypes'
  BY <1>19 DEF NoSemaphore, Close, ProxyInv, NameTypes, PCs, ipc, proxy, link, readers, history
<1>20. ASSUME NEW r \in Readers, ReaderOpens(r) PROVE NameTypes'
  BY <1>20 DEF ReaderOpens, ProxyInv, NameTypes, PCs, ipc, proxy, link, readers, history
<1>21. ASSUME NEW r \in Readers, ReaderWaits(r) PROVE NameTypes'
  BY <1>21 DEF ReaderWaits, ProxyInv, NameTypes, PCs, ipc, proxy, link, readers, history
<1>22. ASSUME NEW r \in Readers, ReaderCopies(r) PROVE NameTypes'
  BY <1>22 DEF ReaderCopies, ProxyInv, NameTypes, PCs, ipc, proxy, link, readers, history
<1>23. ASSUME NEW r \in Readers, ReaderPosts(r) PROVE NameTypes'
  BY <1>23 DEF ReaderPosts, Close, ProxyInv, NameTypes, PCs, ipc, proxy, link, readers, history
<1>24. ASSUME NEW r \in Readers, KillReader(r) PROVE NameTypes'
  BY <1>24 DEF KillReader, Close, ProxyInv, NameTypes, PCs, ipc, proxy, link, readers, history
<1> QED BY <1>1, <1>2, <1>3, <1>4, <1>5, <1>6, <1>7, <1>8, <1>9, <1>10, <1>11, <1>12, <1>13,
        <1>14, <1>15, <1>16, <1>17, <1>18, <1>19, <1>20, <1>21, <1>22, <1>23, <1>24 DEF Next,
        Daemon, Server, Reader

\* The first line of the inbox, and a beginning of it.
LEMMA HeadIsLine == ASSUME NEW q \in Seq(Lines), q # <<>> PROVE Head(q) \in Lines
OBVIOUS

LEMMA Prefix ==
  ASSUME NEW q \in Seq(Lines), NEW n \in 0..Len(q)
  PROVE  SubSeq(q, 1, n) \in Seq(Lines)
OBVIOUS

\* The records: in the memory, on their way and in the readers.
LEMMA DataNext == ASSUME ProxyInv, Next PROVE DataTypes'
<1>1. ASSUME OpenMemory PROVE DataTypes'
  BY <1>1 DEF OpenMemory, ProxyInv, DataTypes, ipc, proxy, link, readers, history
<1>2. ASSUME Memset PROVE DataTypes'
  BY <1>2, RecordForms DEF Memset, Write, ProxyInv, DataTypes, ipc, proxy, link, readers, history
<1>3. ASSUME OpenSemaphore PROVE DataTypes'
  BY <1>3 DEF OpenSemaphore, ProxyInv, DataTypes, ipc, proxy, link, readers, history
<1>4. ASSUME Connect PROVE DataTypes'
  BY <1>4 DEF Connect, WholeAtStart, ProxyInv, DataTypes, ipc, proxy, link, readers, history
<1>5. ASSUME LeaveLoop PROVE DataTypes'
  BY <1>5 DEF LeaveLoop, ProxyInv, DataTypes, ipc, proxy, link, readers, history
<1>6. ASSUME Reconnect PROVE DataTypes'
  <2>1. [new EXCEPT !.weather = TERRIBLE] \in Records
    <3>1. TERRIBLE \in Levels
      BY Numbers
    <3> QED BY <3>1, RecordForms, Zenon DEF ProxyInv, DataTypes
  <2>2. new' \in Records
    BY <1>6, <2>1 DEF Reconnect, LoseServer, ProxyInv, DataTypes
  <2> QED BY <1>6, <2>2 DEF Reconnect, ProxyInv, DataTypes, ipc, proxy, link, readers, history
<1>7. ASSUME ReadLine PROVE DataTypes'
  <2>1. PICK line \in Lines : line = Head(inbox)
    BY <1>7, HeadIsLine DEF ReadLine, ProxyInv, LinkTypes
  <2>2. line.key = "WEATHER" => [new EXCEPT !.weather = line.val] \in Records
    BY <2>1, RecordForms DEF ProxyInv, DataTypes, Lines
  <2>3. Level(new.weather) \in Levels
    BY RecordForms, Numbers DEF Level, ProxyInv, DataTypes
  <2>4. line.key # "WEATHER" => [weather |-> Level(new.weather), time |-> line.val] \in Records
    BY <2>1, <2>3, RecordForms DEF Lines
  <2>5. new' \in Records
    BY <1>7, <2>1, <2>2, <2>4 DEF ReadLine, LineWeather, LineTime
  <2> QED BY <1>7, <2>5 DEF ReadLine, ProxyInv, DataTypes, ipc, proxy, link, readers, history
<1>8. ASSUME WaitSem PROVE DataTypes'
  BY <1>8, RecordForms DEF WaitSem, Write, ProxyInv, DataTypes, ipc, proxy, link, readers, history
<1>9. ASSUME PostSem PROVE DataTypes'
  BY <1>9, RecordForms DEF PostSem, Write, Publish, ProxyInv, DataTypes, ipc, proxy, link, readers, history
<1>10. ASSUME UnlinkSem PROVE DataTypes'
  BY <1>10 DEF UnlinkSem, ProxyInv, DataTypes, ipc, proxy, link, readers, history
<1>11. ASSUME UnlinkShm PROVE DataTypes'
  BY <1>11, RecordForms DEF UnlinkShm, Exit, KeepMemory, ProxyInv, DataTypes, ipc, proxy, link, readers, history
<1>12. ASSUME Fork PROVE DataTypes'
  BY <1>12 DEF Fork, ProxyInv, DataTypes, ipc, proxy, link, readers, history
<1>13. ASSUME Signal PROVE DataTypes'
  BY <1>13 DEF Signal, ProxyInv, DataTypes, ipc, proxy, link, readers, history
<1>14. ASSUME Kill PROVE DataTypes'
  BY <1>14, RecordForms DEF Kill, Exit, KeepMemory, ProxyInv, DataTypes, ipc, proxy, link, readers, history
<1>15. ASSUME Answer PROVE DataTypes'
  BY <1>15 DEF Answer, ProxyInv, DataTypes, ipc, proxy, link, readers, history
<1>16. ASSUME ServerFails PROVE DataTypes'
  BY <1>16 DEF ServerFails, ProxyInv, DataTypes, ipc, proxy, link, readers, history
<1>17. ASSUME ServerStarts PROVE DataTypes'
  BY <1>17 DEF ServerStarts, ProxyInv, DataTypes, ipc, proxy, link, readers, history
<1>18. ASSUME NEW r \in Readers, BeginRead(r) PROVE DataTypes'
  BY <1>18 DEF BeginRead, ProxyInv, DataTypes, ipc, proxy, link, readers, history
<1>19. ASSUME NEW r \in Readers, NoSemaphore(r) PROVE DataTypes'
  BY <1>19, RecordForms DEF NoSemaphore, Close, Forget, KeepMemory, ProxyInv, DataTypes, ipc, proxy, link, readers, history
<1>20. ASSUME NEW r \in Readers, ReaderOpens(r) PROVE DataTypes'
  BY <1>20 DEF ReaderOpens, ProxyInv, DataTypes, ipc, proxy, link, readers, history
<1>21. ASSUME NEW r \in Readers, ReaderWaits(r) PROVE DataTypes'
  BY <1>21 DEF ReaderWaits, ProxyInv, DataTypes, ipc, proxy, link, readers, history
<1>22. ASSUME NEW r \in Readers, ReaderCopies(r) PROVE DataTypes'
  BY <1>22, RecordForms DEF ReaderCopies, Forget, Opened, ProxyInv, DataTypes, ipc, proxy, link, readers, history
<1>23. ASSUME NEW r \in Readers, ReaderPosts(r) PROVE DataTypes'
  BY <1>23, RecordForms DEF ReaderPosts, Close, KeepMemory, ProxyInv, DataTypes, ipc, proxy, link, readers, history
<1>24. ASSUME NEW r \in Readers, KillReader(r) PROVE DataTypes'
  BY <1>24, RecordForms DEF KillReader, Close, Forget, KeepMemory, ProxyInv, DataTypes, ipc, proxy, link, readers, history
<1> QED BY <1>1, <1>2, <1>3, <1>4, <1>5, <1>6, <1>7, <1>8, <1>9, <1>10, <1>11, <1>12, <1>13,
        <1>14, <1>15, <1>16, <1>17, <1>18, <1>19, <1>20, <1>21, <1>22, <1>23, <1>24 DEF Next,
        Daemon, Server, Reader

\* The flags.
LEMMA FlagsNext == ASSUME ProxyInv, Next PROVE FlagTypes'
<1>1. ASSUME OpenMemory PROVE FlagTypes'
  BY <1>1 DEF OpenMemory, ProxyInv, FlagTypes, ipc, proxy, link, readers, history
<1>2. ASSUME Memset PROVE FlagTypes'
  BY <1>2 DEF Memset, ProxyInv, FlagTypes, ipc, proxy, link, readers, history
<1>3. ASSUME OpenSemaphore PROVE FlagTypes'
  BY <1>3 DEF OpenSemaphore, ProxyInv, FlagTypes, ipc, proxy, link, readers, history
<1>4. ASSUME Connect PROVE FlagTypes'
  BY <1>4 DEF Connect, ProxyInv, FlagTypes, ipc, proxy, link, readers, history
<1>5. ASSUME LeaveLoop PROVE FlagTypes'
  BY <1>5 DEF LeaveLoop, ProxyInv, FlagTypes, ipc, proxy, link, readers, history
<1>6. ASSUME Reconnect PROVE FlagTypes'
  BY <1>6 DEF Reconnect, ProxyInv, FlagTypes, ipc, proxy, link, readers, history
<1>7. ASSUME ReadLine PROVE FlagTypes'
  BY <1>7 DEF ReadLine, ProxyInv, FlagTypes, ipc, proxy, link, readers, history
<1>8. ASSUME WaitSem PROVE FlagTypes'
  BY <1>8 DEF WaitSem, ProxyInv, FlagTypes, ipc, proxy, link, readers, history
<1>9. ASSUME PostSem PROVE FlagTypes'
  BY <1>9 DEF PostSem, ProxyInv, FlagTypes, ipc, proxy, link, readers, history
<1>10. ASSUME UnlinkSem PROVE FlagTypes'
  BY <1>10 DEF UnlinkSem, ProxyInv, FlagTypes, ipc, proxy, link, readers, history
<1>11. ASSUME UnlinkShm PROVE FlagTypes'
  BY <1>11 DEF UnlinkShm, Exit, ProxyInv, FlagTypes, ipc, proxy, link, readers, history
<1>12. ASSUME Fork PROVE FlagTypes'
  BY <1>12 DEF Fork, ProxyInv, FlagTypes, ipc, proxy, link, readers, history
<1>13. ASSUME Signal PROVE FlagTypes'
  BY <1>13 DEF Signal, ProxyInv, FlagTypes, ipc, proxy, link, readers, history
<1>14. ASSUME Kill PROVE FlagTypes'
  BY <1>14 DEF Kill, Exit, ProxyInv, FlagTypes, ipc, proxy, link, readers, history
<1>15. ASSUME Answer PROVE FlagTypes'
  BY <1>15 DEF Answer, ProxyInv, FlagTypes, ipc, proxy, link, readers, history
<1>16. ASSUME ServerFails PROVE FlagTypes'
  BY <1>16 DEF ServerFails, ProxyInv, FlagTypes, ipc, proxy, link, readers, history
<1>17. ASSUME ServerStarts PROVE FlagTypes'
  BY <1>17 DEF ServerStarts, ProxyInv, FlagTypes, ipc, proxy, link, readers, history
<1>18. ASSUME NEW r \in Readers, BeginRead(r) PROVE FlagTypes'
  BY <1>18 DEF BeginRead, ProxyInv, FlagTypes, ipc, proxy, link, readers, history
<1>19. ASSUME NEW r \in Readers, NoSemaphore(r) PROVE FlagTypes'
  BY <1>19 DEF NoSemaphore, Close, Forget, ProxyInv, FlagTypes, ipc, proxy, link, readers, history
<1>20. ASSUME NEW r \in Readers, ReaderOpens(r) PROVE FlagTypes'
  BY <1>20 DEF ReaderOpens, ProxyInv, FlagTypes, ipc, proxy, link, readers, history
<1>21. ASSUME NEW r \in Readers, ReaderWaits(r) PROVE FlagTypes'
  BY <1>21 DEF ReaderWaits, ProxyInv, FlagTypes, ipc, proxy, link, readers, history
<1>22. ASSUME NEW r \in Readers, ReaderCopies(r) PROVE FlagTypes'
  BY <1>22 DEF ReaderCopies, Forget, ProxyInv, FlagTypes, ipc, proxy, link, readers, history
<1>23. ASSUME NEW r \in Readers, ReaderPosts(r) PROVE FlagTypes'
  BY <1>23 DEF ReaderPosts, Close, ProxyInv, FlagTypes, ipc, proxy, link, readers, history
<1>24. ASSUME NEW r \in Readers, KillReader(r) PROVE FlagTypes'
  BY <1>24 DEF KillReader, Close, Forget, ProxyInv, FlagTypes, ipc, proxy, link, readers, history
<1> QED BY <1>1, <1>2, <1>3, <1>4, <1>5, <1>6, <1>7, <1>8, <1>9, <1>10, <1>11, <1>12, <1>13,
        <1>14, <1>15, <1>16, <1>17, <1>18, <1>19, <1>20, <1>21, <1>22, <1>23, <1>24 DEF Next,
        Daemon, Server, Reader

\* The connection, the lines on their way and the server.
LEMMA LinkNext == ASSUME ProxyInv, Next PROVE LinkTypes'
<1>1. ASSUME OpenMemory PROVE LinkTypes'
  BY <1>1 DEF OpenMemory, ProxyInv, LinkTypes, ipc, proxy, link, readers, history
<1>2. ASSUME Memset PROVE LinkTypes'
  BY <1>2 DEF Memset, ProxyInv, LinkTypes, ipc, proxy, link, readers, history
<1>3. ASSUME OpenSemaphore PROVE LinkTypes'
  BY <1>3 DEF OpenSemaphore, ProxyInv, LinkTypes, ipc, proxy, link, readers, history
<1>4. ASSUME Connect PROVE LinkTypes'
  BY <1>4 DEF Connect, ProxyInv, LinkTypes, ipc, proxy, link, readers, history
<1>5. ASSUME LeaveLoop PROVE LinkTypes'
  BY <1>5 DEF LeaveLoop, ProxyInv, LinkTypes, ipc, proxy, link, readers, history
<1>6. ASSUME Reconnect PROVE LinkTypes'
  BY <1>6 DEF Reconnect, LoseServer, ProxyInv, LinkTypes, ipc, proxy, link, readers, history
<1>7. ASSUME ReadLine PROVE LinkTypes'
  <2>1. Tail(inbox) \in Seq(Lines)
    BY <1>7 DEF ReadLine, ProxyInv, LinkTypes
  <2> QED BY <1>7, <2>1 DEF ReadLine, ProxyInv, LinkTypes, ipc, proxy, link, readers, history
<1>8. ASSUME WaitSem PROVE LinkTypes'
  BY <1>8 DEF WaitSem, ProxyInv, LinkTypes, ipc, proxy, link, readers, history
<1>9. ASSUME PostSem PROVE LinkTypes'
  BY <1>9 DEF PostSem, ProxyInv, LinkTypes, ipc, proxy, link, readers, history
<1>10. ASSUME UnlinkSem PROVE LinkTypes'
  BY <1>10 DEF UnlinkSem, ProxyInv, LinkTypes, ipc, proxy, link, readers, history
<1>11. ASSUME UnlinkShm PROVE LinkTypes'
  BY <1>11 DEF UnlinkShm, Exit, ProxyInv, LinkTypes, ipc, proxy, link, readers, history
<1>12. ASSUME Fork PROVE LinkTypes'
  BY <1>12 DEF Fork, ProxyInv, LinkTypes, ipc, proxy, link, readers, history
<1>13. ASSUME Signal PROVE LinkTypes'
  BY <1>13 DEF Signal, ProxyInv, LinkTypes, ipc, proxy, link, readers, history
<1>14. ASSUME Kill PROVE LinkTypes'
  BY <1>14 DEF Kill, Exit, ProxyInv, LinkTypes, ipc, proxy, link, readers, history
<1>15. ASSUME Answer PROVE LinkTypes'
  <2>1. PICK t \in Times : inbox' = <<Told(t), At(t)>>
    BY <1>15 DEF Answer, Told, At
  <2>2. Told(t) \in Lines /\ At(t) \in Lines
    BY Numbers DEF Told, At, Lines
  <2>3. inbox' \in Seq(Lines)
    BY <2>1, <2>2
  <2> QED BY <1>15, <2>3 DEF Answer, ProxyInv, LinkTypes, ipc, proxy, link, readers, history
<1>16. ASSUME ServerFails PROVE LinkTypes'
  <2>1. ASSUME NEW n \in 0..Len(inbox) PROVE SubSeq(inbox, 1, n) \in Seq(Lines)
    BY <2>1, Prefix DEF ProxyInv, LinkTypes
  <2> QED BY <1>16, <2>1 DEF ServerFails, ProxyInv, LinkTypes, ipc, proxy, link, readers, history
<1>17. ASSUME ServerStarts PROVE LinkTypes'
  BY <1>17 DEF ServerStarts, ProxyInv, LinkTypes, ipc, proxy, link, readers, history
<1>18. ASSUME NEW r \in Readers, BeginRead(r) PROVE LinkTypes'
  BY <1>18 DEF BeginRead, ProxyInv, LinkTypes, ipc, proxy, link, readers, history
<1>19. ASSUME NEW r \in Readers, NoSemaphore(r) PROVE LinkTypes'
  BY <1>19 DEF NoSemaphore, Close, ProxyInv, LinkTypes, ipc, proxy, link, readers, history
<1>20. ASSUME NEW r \in Readers, ReaderOpens(r) PROVE LinkTypes'
  BY <1>20 DEF ReaderOpens, ProxyInv, LinkTypes, ipc, proxy, link, readers, history
<1>21. ASSUME NEW r \in Readers, ReaderWaits(r) PROVE LinkTypes'
  BY <1>21 DEF ReaderWaits, ProxyInv, LinkTypes, ipc, proxy, link, readers, history
<1>22. ASSUME NEW r \in Readers, ReaderCopies(r) PROVE LinkTypes'
  BY <1>22 DEF ReaderCopies, ProxyInv, LinkTypes, ipc, proxy, link, readers, history
<1>23. ASSUME NEW r \in Readers, ReaderPosts(r) PROVE LinkTypes'
  BY <1>23 DEF ReaderPosts, Close, ProxyInv, LinkTypes, ipc, proxy, link, readers, history
<1>24. ASSUME NEW r \in Readers, KillReader(r) PROVE LinkTypes'
  BY <1>24 DEF KillReader, Close, ProxyInv, LinkTypes, ipc, proxy, link, readers, history
<1> QED BY <1>1, <1>2, <1>3, <1>4, <1>5, <1>6, <1>7, <1>8, <1>9, <1>10, <1>11, <1>12, <1>13,
        <1>14, <1>15, <1>16, <1>17, <1>18, <1>19, <1>20, <1>21, <1>22, <1>23, <1>24 DEF Next,
        Daemon, Server, Reader

\* The readers.
LEMMA ReadersNext == ASSUME ProxyInv, Next PROVE ReaderTypes'
<1>1. ASSUME OpenMemory PROVE ReaderTypes'
  BY <1>1 DEF OpenMemory, ProxyInv, ReaderTypes, ipc, proxy, link, readers, history
<1>2. ASSUME Memset PROVE ReaderTypes'
  BY <1>2 DEF Memset, Write, Copying, Attached, Active, ProxyInv, ReaderTypes, ipc, proxy, link, readers, history
<1>3. ASSUME OpenSemaphore PROVE ReaderTypes'
  BY <1>3 DEF OpenSemaphore, ProxyInv, ReaderTypes, ipc, proxy, link, readers, history
<1>4. ASSUME Connect PROVE ReaderTypes'
  BY <1>4 DEF Connect, ProxyInv, ReaderTypes, ipc, proxy, link, readers, history
<1>5. ASSUME LeaveLoop PROVE ReaderTypes'
  BY <1>5 DEF LeaveLoop, ProxyInv, ReaderTypes, ipc, proxy, link, readers, history
<1>6. ASSUME Reconnect PROVE ReaderTypes'
  BY <1>6 DEF Reconnect, ProxyInv, ReaderTypes, ipc, proxy, link, readers, history
<1>7. ASSUME ReadLine PROVE ReaderTypes'
  BY <1>7 DEF ReadLine, ProxyInv, ReaderTypes, ipc, proxy, link, readers, history
<1>8. ASSUME WaitSem PROVE ReaderTypes'
  BY <1>8 DEF WaitSem, Write, Copying, ProxyInv, ReaderTypes, ipc, proxy, link, readers, history
<1>9. ASSUME PostSem PROVE ReaderTypes'
  BY <1>9 DEF PostSem, Write, Copying, ProxyInv, ReaderTypes, ipc, proxy, link, readers, history
<1>10. ASSUME UnlinkSem PROVE ReaderTypes'
  BY <1>10 DEF UnlinkSem, ProxyInv, ReaderTypes, ipc, proxy, link, readers, history
<1>11. ASSUME UnlinkShm PROVE ReaderTypes'
  BY <1>11 DEF UnlinkShm, Exit, ProxyInv, ReaderTypes, ipc, proxy, link, readers, history
<1>12. ASSUME Fork PROVE ReaderTypes'
  BY <1>12 DEF Fork, ProxyInv, ReaderTypes, ipc, proxy, link, readers, history
<1>13. ASSUME Signal PROVE ReaderTypes'
  BY <1>13 DEF Signal, ProxyInv, ReaderTypes, ipc, proxy, link, readers, history
<1>14. ASSUME Kill PROVE ReaderTypes'
  BY <1>14 DEF Kill, Exit, ProxyInv, ReaderTypes, ipc, proxy, link, readers, history
<1>15. ASSUME Answer PROVE ReaderTypes'
  BY <1>15 DEF Answer, ProxyInv, ReaderTypes, ipc, proxy, link, readers, history
<1>16. ASSUME ServerFails PROVE ReaderTypes'
  BY <1>16 DEF ServerFails, ProxyInv, ReaderTypes, ipc, proxy, link, readers, history
<1>17. ASSUME ServerStarts PROVE ReaderTypes'
  BY <1>17 DEF ServerStarts, ProxyInv, ReaderTypes, ipc, proxy, link, readers, history
<1>18. ASSUME NEW r \in Readers, BeginRead(r) PROVE ReaderTypes'
  BY <1>18 DEF BeginRead, NameTypes, ProxyInv, ReaderTypes, ipc, proxy, link, readers, history
<1>19. ASSUME NEW r \in Readers, NoSemaphore(r) PROVE ReaderTypes'
  BY <1>19 DEF NoSemaphore, Close, Forget, ProxyInv, ReaderTypes, ipc, proxy, link, readers, history
<1>20. ASSUME NEW r \in Readers, ReaderOpens(r) PROVE ReaderTypes'
  BY <1>20 DEF ReaderOpens, NameTypes, ProxyInv, ReaderTypes, ipc, proxy, link, readers, history
<1>21. ASSUME NEW r \in Readers, ReaderWaits(r) PROVE ReaderTypes'
  BY <1>21 DEF ReaderWaits, ProxyInv, ReaderTypes, ipc, proxy, link, readers, history
<1>22. ASSUME NEW r \in Readers, ReaderCopies(r) PROVE ReaderTypes'
  BY <1>22 DEF ReaderCopies, Forget, ProxyInv, ReaderTypes, ipc, proxy, link, readers, history
<1>23. ASSUME NEW r \in Readers, ReaderPosts(r) PROVE ReaderTypes'
  BY <1>23 DEF ReaderPosts, Close, ProxyInv, ReaderTypes, ipc, proxy, link, readers, history
<1>24. ASSUME NEW r \in Readers, KillReader(r) PROVE ReaderTypes'
  BY <1>24 DEF KillReader, Close, Forget, ProxyInv, ReaderTypes, ipc, proxy, link, readers, history
<1> QED BY <1>1, <1>2, <1>3, <1>4, <1>5, <1>6, <1>7, <1>8, <1>9, <1>10, <1>11, <1>12, <1>13,
        <1>14, <1>15, <1>16, <1>17, <1>18, <1>19, <1>20, <1>21, <1>22, <1>23, <1>24 DEF Next,
        Daemon, Server, Reader

\* What a process uses it has open.
LEMMA OpenedNext == ASSUME ProxyInv, Next PROVE Opened'
<1>1. ASSUME OpenMemory PROVE Opened'
  BY <1>1, NamedIsObject DEF OpenMemory, NameTypes, ProxyInv, Opened, ipc, proxy, link, readers, history
<1>2. ASSUME Memset PROVE Opened'
  BY <1>2 DEF Memset, ProxyInv, Opened, ipc, proxy, link, readers, history
<1>3. ASSUME OpenSemaphore PROVE Opened'
  BY <1>3, NamedIsObject DEF OpenSemaphore, Semaphore, NameTypes, ProxyInv, Opened, ipc, proxy, link, readers, history
<1>4. ASSUME Connect PROVE Opened'
  BY <1>4 DEF Connect, ProxyInv, Opened, ipc, proxy, link, readers, history
<1>5. ASSUME LeaveLoop PROVE Opened'
  BY <1>5 DEF LeaveLoop, ProxyInv, Opened, ipc, proxy, link, readers, history
<1>6. ASSUME Reconnect PROVE Opened'
  BY <1>6 DEF Reconnect, LoseServer, ProxyInv, Opened, ipc, proxy, link, readers, history
<1>7. ASSUME ReadLine PROVE Opened'
  BY <1>7 DEF ReadLine, LineWeather, LineTime, ProxyInv, Opened, ipc, proxy, link, readers, history
<1>8. ASSUME WaitSem PROVE Opened'
  BY <1>8 DEF WaitSem, ProxyInv, Opened, ipc, proxy, link, readers, history
<1>9. ASSUME PostSem PROVE Opened'
  BY <1>9 DEF PostSem, ProxyInv, Opened, ipc, proxy, link, readers, history
<1>10. ASSUME UnlinkSem PROVE Opened'
  BY <1>10 DEF UnlinkSem, ProxyInv, Opened, ipc, proxy, link, readers, history
<1>11. ASSUME UnlinkShm PROVE Opened'
  BY <1>11 DEF UnlinkShm, Exit, ProxyInv, Opened, ipc, proxy, link, readers, history
<1>12. ASSUME Fork PROVE Opened'
  BY <1>12 DEF Fork, ProxyInv, Opened, ipc, proxy, link, readers, history
<1>13. ASSUME Signal PROVE Opened'
  BY <1>13 DEF Signal, ProxyInv, Opened, ipc, proxy, link, readers, history
<1>14. ASSUME Kill PROVE Opened'
  BY <1>14 DEF Kill, Exit, ProxyInv, Opened, ipc, proxy, link, readers, history
<1>15. ASSUME Answer PROVE Opened'
  BY <1>15 DEF Answer, ProxyInv, Opened, ipc, proxy, link, readers, history
<1>16. ASSUME ServerFails PROVE Opened'
  BY <1>16 DEF ServerFails, ProxyInv, Opened, ipc, proxy, link, readers, history
<1>17. ASSUME ServerStarts PROVE Opened'
  BY <1>17 DEF ServerStarts, ProxyInv, Opened, ipc, proxy, link, readers, history
<1>18. ASSUME NEW r \in Readers, BeginRead(r) PROVE Opened'
  BY <1>18 DEF BeginRead, NameTypes, ReaderTypes, ProxyInv, Opened, ipc, proxy, link, readers, history
<1>19. ASSUME NEW r \in Readers, NoSemaphore(r) PROVE Opened'
  BY <1>19 DEF NoSemaphore, Close, ReaderTypes, ProxyInv, Opened, ipc, proxy, link, readers, history
<1>20. ASSUME NEW r \in Readers, ReaderOpens(r) PROVE Opened'
  BY <1>20 DEF ReaderOpens, NameTypes, ReaderTypes, ProxyInv, Opened, ipc, proxy, link, readers, history
<1>21. ASSUME NEW r \in Readers, ReaderWaits(r) PROVE Opened'
  BY <1>21 DEF ReaderWaits, ReaderTypes, ProxyInv, Opened, ipc, proxy, link, readers, history
<1>22. ASSUME NEW r \in Readers, ReaderCopies(r) PROVE Opened'
  BY <1>22 DEF ReaderCopies, ReaderTypes, ProxyInv, Opened, ipc, proxy, link, readers, history
<1>23. ASSUME NEW r \in Readers, ReaderPosts(r) PROVE Opened'
  BY <1>23 DEF ReaderPosts, Close, ReaderTypes, ProxyInv, Opened, ipc, proxy, link, readers, history
<1>24. ASSUME NEW r \in Readers, KillReader(r) PROVE Opened'
  BY <1>24 DEF KillReader, Close, ReaderTypes, ProxyInv, Opened, ipc, proxy, link, readers, history
<1> QED BY <1>1, <1>2, <1>3, <1>4, <1>5, <1>6, <1>7, <1>8, <1>9, <1>10, <1>11, <1>12, <1>13,
        <1>14, <1>15, <1>16, <1>17, <1>18, <1>19, <1>20, <1>21, <1>22, <1>23, <1>24 DEF Next,
        Daemon, Server, Reader

\* The memory is whole when the daemon reads it.
LEMMA WholeNext == ASSUME ProxyInv, Next PROVE WholeAtStart'
<1>1. ASSUME OpenMemory PROVE WholeAtStart'
  BY <1>1 DEF OpenMemory, ProxyInv, WholeAtStart, ipc, proxy, link, readers, history
<1>2. ASSUME Memset PROVE WholeAtStart'
  BY <1>2, RecordForms DEF Memset, Write, NameTypes, DataTypes, Opened, ProxyInv, WholeAtStart, ipc, proxy, link, readers, history
<1>3. ASSUME OpenSemaphore PROVE WholeAtStart'
  BY <1>3 DEF OpenSemaphore, ProxyInv, WholeAtStart, ipc, proxy, link, readers, history
<1>4. ASSUME Connect PROVE WholeAtStart'
  BY <1>4 DEF Connect, ProxyInv, WholeAtStart, ipc, proxy, link, readers, history
<1>5. ASSUME LeaveLoop PROVE WholeAtStart'
  BY <1>5 DEF LeaveLoop, ProxyInv, WholeAtStart, ipc, proxy, link, readers, history
<1>6. ASSUME Reconnect PROVE WholeAtStart'
  BY <1>6 DEF Reconnect, LoseServer, ProxyInv, WholeAtStart, ipc, proxy, link, readers, history
<1>7. ASSUME ReadLine PROVE WholeAtStart'
  BY <1>7 DEF ReadLine, LineWeather, LineTime, ProxyInv, WholeAtStart, ipc, proxy, link, readers, history
<1>8. ASSUME WaitSem PROVE WholeAtStart'
  BY <1>8 DEF WaitSem, ProxyInv, WholeAtStart, ipc, proxy, link, readers, history
<1>9. ASSUME PostSem PROVE WholeAtStart'
  BY <1>9 DEF PostSem, ProxyInv, WholeAtStart, ipc, proxy, link, readers, history
<1>10. ASSUME UnlinkSem PROVE WholeAtStart'
  BY <1>10 DEF UnlinkSem, ProxyInv, WholeAtStart, ipc, proxy, link, readers, history
<1>11. ASSUME UnlinkShm PROVE WholeAtStart'
  BY <1>11 DEF UnlinkShm, Exit, ProxyInv, WholeAtStart, ipc, proxy, link, readers, history
<1>12. ASSUME Fork PROVE WholeAtStart'
  BY <1>12 DEF Fork, ProxyInv, WholeAtStart, ipc, proxy, link, readers, history
<1>13. ASSUME Signal PROVE WholeAtStart'
  BY <1>13 DEF Signal, ProxyInv, WholeAtStart, ipc, proxy, link, readers, history
<1>14. ASSUME Kill PROVE WholeAtStart'
  BY <1>14 DEF Kill, Exit, ProxyInv, WholeAtStart, ipc, proxy, link, readers, history
<1>15. ASSUME Answer PROVE WholeAtStart'
  BY <1>15 DEF Answer, ProxyInv, WholeAtStart, ipc, proxy, link, readers, history
<1>16. ASSUME ServerFails PROVE WholeAtStart'
  BY <1>16 DEF ServerFails, ProxyInv, WholeAtStart, ipc, proxy, link, readers, history
<1>17. ASSUME ServerStarts PROVE WholeAtStart'
  BY <1>17 DEF ServerStarts, ProxyInv, WholeAtStart, ipc, proxy, link, readers, history
<1>18. ASSUME NEW r \in Readers, BeginRead(r) PROVE WholeAtStart'
  BY <1>18 DEF BeginRead, ProxyInv, WholeAtStart, ipc, proxy, link, readers, history
<1>19. ASSUME NEW r \in Readers, NoSemaphore(r) PROVE WholeAtStart'
  BY <1>19 DEF NoSemaphore, Close, KeepMemory, MemoryInUse, Opened, NameTypes, DataTypes, ProxyInv, WholeAtStart, ipc, proxy, link, readers, history
<1>20. ASSUME NEW r \in Readers, ReaderOpens(r) PROVE WholeAtStart'
  BY <1>20 DEF ReaderOpens, ProxyInv, WholeAtStart, ipc, proxy, link, readers, history
<1>21. ASSUME NEW r \in Readers, ReaderWaits(r) PROVE WholeAtStart'
  BY <1>21 DEF ReaderWaits, ProxyInv, WholeAtStart, ipc, proxy, link, readers, history
<1>22. ASSUME NEW r \in Readers, ReaderCopies(r) PROVE WholeAtStart'
  BY <1>22 DEF ReaderCopies, ProxyInv, WholeAtStart, ipc, proxy, link, readers, history
<1>23. ASSUME NEW r \in Readers, ReaderPosts(r) PROVE WholeAtStart'
  BY <1>23 DEF ReaderPosts, Close, KeepMemory, MemoryInUse, Opened, NameTypes, DataTypes, ProxyInv, WholeAtStart, ipc, proxy, link, readers, history
<1>24. ASSUME NEW r \in Readers, KillReader(r) PROVE WholeAtStart'
  BY <1>24 DEF KillReader, Close, KeepMemory, MemoryInUse, Opened, NameTypes, DataTypes, ProxyInv, WholeAtStart, ipc, proxy, link, readers, history
<1> QED BY <1>1, <1>2, <1>3, <1>4, <1>5, <1>6, <1>7, <1>8, <1>9, <1>10, <1>11, <1>12, <1>13,
        <1>14, <1>15, <1>16, <1>17, <1>18, <1>19, <1>20, <1>21, <1>22, <1>23, <1>24 DEF Next,
        Daemon, Server, Reader

(* A step at a time: the semaphores. *)

\* Nothing happens to a semaphore and those who hold it.
LEMMA SemSame ==
  ASSUME NEW s \in Objects, SemOK(s), count'[s] = count[s],
         DaemonHolds(s)' <=> DaemonHolds(s),
         \A r \in Readers : ReaderHolds(r, s)' <=> ReaderHolds(r, s),
         kills > 0 => kills' > 0
  PROVE  SemOK(s)'
BY DEF SemOK

\* Some of those who hold it are killed.
LEMMA SemLess ==
  ASSUME NEW s \in Objects, SemOK(s), count'[s] = count[s],
         DaemonHolds(s)' => DaemonHolds(s),
         \A r \in Readers : ReaderHolds(r, s)' => ReaderHolds(r, s),
         kills' > 0
  PROVE  SemOK(s)'
BY DEF SemOK

\* Nobody uses it: it is free, or will be a new one.
LEMMA SemUnused ==
  ASSUME NEW s \in Objects, count'[s] = 1, s \notin SemaphoresInUse'
  PROVE  SemOK(s)'
BY DEF SemOK, SemaphoresInUse, DaemonHolds, ReaderHolds

\* It is free and nobody holds it.
LEMMA SemFree ==
  ASSUME NEW s \in Objects, count'[s] = 1, ~DaemonHolds(s)',
         \A r \in Readers : ~ReaderHolds(r, s)'
  PROVE  SemOK(s)'
BY DEF SemOK

\* A step that takes or posts no semaphore and kills nobody.
LEMMA SemAlone ==
  ASSUME ProxyInv, UNCHANGED <<count, kills>>,
         \A s \in Objects : /\ DaemonHolds(s)' <=> DaemonHolds(s)
                            /\ \A r \in Readers : ReaderHolds(r, s)' <=> ReaderHolds(r, s)
  PROVE  Semaphores'
<1>1. ASSUME NEW s \in Objects PROVE SemOK(s)'
  BY <1>1, SemSame DEF ProxyInv, Semaphores
<1> QED BY <1>1 DEF ProxyInv, Semaphores

\* The semaphores.
LEMMA SemaphoresNext == ASSUME ProxyInv, Next PROVE Semaphores'
<1>1. ASSUME OpenMemory PROVE Semaphores'
  BY <1>1, SemAlone DEF OpenMemory, DaemonHolds, ReaderHolds, ipc, proxy, link, readers, history
<1>2. ASSUME Memset PROVE Semaphores'
  BY <1>2, SemAlone DEF Memset, DaemonHolds, ReaderHolds, ipc, proxy, link, readers, history
<1>3. ASSUME OpenSemaphore PROVE Semaphores'
  BY <1>3, SemAlone DEF OpenSemaphore, DaemonHolds, ReaderHolds, ipc, proxy, link, readers, history
<1>4. ASSUME Connect PROVE Semaphores'
  BY <1>4, SemAlone DEF Connect, DaemonHolds, ReaderHolds, ipc, proxy, link, readers, history
<1>5. ASSUME LeaveLoop PROVE Semaphores'
  BY <1>5, SemAlone DEF LeaveLoop, DaemonHolds, ReaderHolds, ipc, proxy, link, readers, history
<1>6. ASSUME Reconnect PROVE Semaphores'
  BY <1>6, SemAlone DEF Reconnect, LoseServer, DaemonHolds, ReaderHolds, ipc, proxy, link, readers, history
<1>7. ASSUME ReadLine PROVE Semaphores'
  BY <1>7, SemAlone DEF ReadLine, LineWeather, LineTime, DaemonHolds, ReaderHolds, ipc, proxy, link, readers, history
<1>8. ASSUME WaitSem PROVE Semaphores'
  <2>1. psem \in Objects /\ count[psem] = 1
    BY <1>8 DEF WaitSem, Down, Opened, ProxyInv, Semaphores
  <2>2. count' \in [Objects -> {0, 1}]
    BY <1>8, <2>1 DEF WaitSem, Down, ProxyInv, Semaphores
  <2>3. ASSUME NEW s \in Objects, s # psem PROVE SemOK(s)'
    <3>1. count'[s] = count[s]
      BY <1>8, <2>1, <2>3 DEF WaitSem, Down, ProxyInv, Semaphores
    <3> QED BY <1>8, <2>3, <3>1, SemSame DEF WaitSem, ProxyInv, Semaphores, DaemonHolds, ReaderHolds, ipc, proxy, link, readers, history
  <2>4. SemOK(psem)'
    <3>1. ~DaemonHolds(psem) /\ \A r \in Readers : ~ReaderHolds(r, psem)
      BY <2>1 DEF SemOK, ProxyInv, Semaphores
    <3>2. count'[psem] = 0 /\ psem' = psem
      BY <1>8, <2>1 DEF WaitSem, Down, ProxyInv, Semaphores
    <3>3. DaemonHolds(psem)' /\ \A r \in Readers : ~ReaderHolds(r, psem)'
      BY <1>8, <3>1 DEF WaitSem, DaemonHolds, ReaderHolds, ipc, proxy, link, readers, history
    <3> QED BY <3>2, <3>3 DEF SemOK
  <2>5. psem' = psem
    BY <1>8 DEF WaitSem
  <2>6. ASSUME NEW s \in Objects PROVE SemOK(s)'
    BY <2>3, <2>4, <2>5
  <2> QED BY <2>2, <2>6 DEF Semaphores
<1>9. ASSUME PostSem PROVE Semaphores'
  <2>1. psem \in Objects /\ DaemonHolds(psem) /\ psem' = psem
    BY <1>9 DEF PostSem, DaemonHolds, Opened, ProxyInv, Semaphores
  <2>2. count[psem] = 0 /\ \A r \in Readers : ~ReaderHolds(r, psem)
    BY <2>1 DEF SemOK, ProxyInv, Semaphores
  <2>3. count' = [count EXCEPT ![psem] = 1]
    BY <1>9, <2>2 DEF PostSem, Posted, ProxyInv, Semaphores
  <2>4. ASSUME NEW s \in Objects, s # psem PROVE SemOK(s)'
    BY <1>9, <2>1, <2>3, <2>4, SemSame DEF PostSem, ProxyInv, Semaphores, DaemonHolds, ReaderHolds, ipc, proxy, link, readers, history
  <2>5. SemOK(psem)'
    <3>1. ~DaemonHolds(psem)' /\ \A r \in Readers : ~ReaderHolds(r, psem)'
      BY <1>9, <2>2 DEF PostSem, DaemonHolds, ReaderHolds, ipc, proxy, link, readers, history
    <3> QED BY <2>1, <2>3, <3>1, SemFree DEF ProxyInv, Semaphores
  <2>6. ASSUME NEW s \in Objects PROVE SemOK(s)'
    BY <2>1, <2>4, <2>5
  <2> QED BY <2>3, <2>6 DEF ProxyInv, Semaphores
<1>10. ASSUME UnlinkSem PROVE Semaphores'
  <2>1. count' = [o \in Objects |-> IF o \in SemaphoresInUse' THEN count[o] ELSE 1]
    BY <1>10 DEF UnlinkSem, KeepSemaphores
  <2>2. ASSUME NEW s \in Objects PROVE SemOK(s)'
    <3>1. CASE s \notin SemaphoresInUse'
      BY <2>1, <2>2, <3>1, SemUnused
    <3>2. CASE s \in SemaphoresInUse'
      <4>1. count'[s] = count[s]
        BY <2>1, <2>2, <3>2
      <4> QED BY <1>10, <2>2, <4>1, SemSame DEF UnlinkSem, NameTypes, ProxyInv, Semaphores, DaemonHolds, ReaderHolds, ipc, proxy, link, readers, history
    <3> QED BY <3>1, <3>2
  <2> QED BY <2>1, <2>2 DEF ProxyInv, Semaphores
<1>11. ASSUME UnlinkShm PROVE Semaphores'
  BY <1>11, SemAlone DEF UnlinkShm, Exit, DaemonHolds, ReaderHolds, ipc, proxy, link, readers, history
<1>12. ASSUME Fork PROVE Semaphores'
  BY <1>12, SemAlone DEF Fork, DaemonHolds, ReaderHolds, ipc, proxy, link, readers, history
<1>13. ASSUME Signal PROVE Semaphores'
  BY <1>13, SemAlone DEF Signal, DaemonHolds, ReaderHolds, ipc, proxy, link, readers, history
<1>14. ASSUME Kill PROVE Semaphores'
  <2>1. count' = [o \in Objects |-> IF o \in SemaphoresInUse' THEN count[o] ELSE 1]
    BY <1>14 DEF Kill, KeepSemaphores
  <2>2. ASSUME NEW s \in Objects PROVE SemOK(s)'
    <3>1. CASE s \notin SemaphoresInUse'
      BY <2>1, <2>2, <3>1, SemUnused
    <3>2. CASE s \in SemaphoresInUse'
      <4>1. count'[s] = count[s]
        BY <2>1, <2>2, <3>2
      <4> QED BY <1>14, <2>2, <4>1, SemLess DEF Kill, Exit, NameTypes, ProxyInv, Semaphores, DaemonHolds, ReaderHolds, ipc, proxy, link, readers, history
    <3> QED BY <3>1, <3>2
  <2> QED BY <2>1, <2>2 DEF ProxyInv, Semaphores
<1>15. ASSUME Answer PROVE Semaphores'
  BY <1>15, SemAlone DEF Answer, DaemonHolds, ReaderHolds, ipc, proxy, link, readers, history
<1>16. ASSUME ServerFails PROVE Semaphores'
  BY <1>16, SemAlone DEF ServerFails, DaemonHolds, ReaderHolds, ipc, proxy, link, readers, history
<1>17. ASSUME ServerStarts PROVE Semaphores'
  BY <1>17, SemAlone DEF ServerStarts, DaemonHolds, ReaderHolds, ipc, proxy, link, readers, history
<1>18. ASSUME NEW r \in Readers, BeginRead(r) PROVE Semaphores'
  BY <1>18, SemAlone DEF BeginRead, ProxyInv, ReaderTypes, DaemonHolds, ReaderHolds, ipc, proxy, link, readers, history
<1>19. ASSUME NEW r \in Readers, NoSemaphore(r) PROVE Semaphores'
  BY <1>19, SemAlone DEF NoSemaphore, Close, Forget, ProxyInv, ReaderTypes, DaemonHolds, ReaderHolds, ipc, proxy, link, readers, history
<1>20. ASSUME NEW r \in Readers, ReaderOpens(r) PROVE Semaphores'
  BY <1>20, SemAlone DEF ReaderOpens, ProxyInv, ReaderTypes, DaemonHolds, ReaderHolds, ipc, proxy, link, readers, history
<1>21. ASSUME NEW r \in Readers, ReaderWaits(r) PROVE Semaphores'
  <2>1. rsem[r] \in Objects /\ count[rsem[r]] = 1
    BY <1>21 DEF ReaderWaits, Down, Opened, ProxyInv, Semaphores
  <2>2. count' \in [Objects -> {0, 1}]
    BY <1>21, <2>1 DEF ReaderWaits, Down, ProxyInv, Semaphores
  <2>3. \A q \in Readers : rpc'[q] = IF q = r THEN "copy" ELSE rpc[q]
    BY <1>21 DEF ReaderWaits, ProxyInv, ReaderTypes
  <2>4. ASSUME NEW s \in Objects, s # rsem[r] PROVE SemOK(s)'
    <3>1. count'[s] = count[s]
      BY <1>21, <2>1, <2>4 DEF ReaderWaits, Down, ProxyInv, Semaphores
    <3>2. rpc[r] = "wait"
      BY <1>21 DEF ReaderWaits
    <3>3. \A q \in Readers : ReaderHolds(q, s)' <=> ReaderHolds(q, s)
      BY <1>21, <2>3, <2>4, <3>2 DEF ReaderWaits, ReaderHolds
    <3>4. DaemonHolds(s)' <=> DaemonHolds(s)
      BY <1>21 DEF ReaderWaits, DaemonHolds, proxy
    <3> QED BY <1>21, <2>4, <3>1, <3>3, <3>4, SemSame DEF ReaderWaits, ProxyInv, Semaphores
  <2>5. SemOK(rsem[r])'
    <3>1. ~DaemonHolds(rsem[r]) /\ \A q \in Readers : ~ReaderHolds(q, rsem[r])
      BY <2>1 DEF SemOK, ProxyInv, Semaphores
    <3>2. count'[rsem[r]] = 0 /\ rsem' = rsem
      BY <1>21, <2>1 DEF ReaderWaits, Down, ProxyInv, Semaphores
    <3>3. \A q \in Readers : ReaderHolds(q, rsem[r])' <=> q = r
      BY <2>3, <3>1, <3>2 DEF ReaderHolds
    <3>4. ~DaemonHolds(rsem[r])'
      BY <1>21, <3>1 DEF ReaderWaits, DaemonHolds, proxy
    <3> QED BY <1>21, <3>2, <3>3, <3>4 DEF SemOK
  <2>6. rsem' = rsem
    BY <1>21 DEF ReaderWaits
  <2>7. ASSUME NEW s \in Objects PROVE SemOK(s)'
    BY <2>4, <2>5, <2>6
  <2> QED BY <2>2, <2>7 DEF Semaphores
<1>22. ASSUME NEW r \in Readers, ReaderCopies(r) PROVE Semaphores'
  BY <1>22, SemAlone DEF ReaderCopies, ProxyInv, ReaderTypes, DaemonHolds, ReaderHolds, ipc, proxy, link, readers, history
<1>23. ASSUME NEW r \in Readers, ReaderPosts(r) PROVE Semaphores'
  <2>1. rsem[r] \in Objects /\ ReaderHolds(r, rsem[r])
    BY <1>23 DEF ReaderPosts, ReaderHolds, Opened, ProxyInv, Semaphores
  <2>2. /\ count[rsem[r]] = 0 /\ ~DaemonHolds(rsem[r])
        /\ \A q \in Readers : ReaderHolds(q, rsem[r]) => q = r
    BY <1>23, <2>1 DEF SemOK, ProxyInv, Semaphores
  <2>3. count' = [o \in Objects |-> IF o \notin SemaphoresInUse' \/ o = rsem[r] THEN 1 ELSE count[o]]
    BY <1>23, <2>1, <2>2 DEF ReaderPosts, KeepSemaphores, Posted, ProxyInv, Semaphores
  <2>4. \A q \in Readers : /\ rpc'[q] = IF q = r THEN "idle" ELSE rpc[q]
                           /\ rsem'[q] = IF q = r THEN None ELSE rsem[q]
    BY <1>23 DEF ReaderPosts, Close, ProxyInv, ReaderTypes
  <2>5. ASSUME NEW s \in Objects PROVE DaemonHolds(s)' <=> DaemonHolds(s)
    BY <1>23 DEF ReaderPosts, Close, DaemonHolds, proxy
  <2>6. ASSUME NEW s \in Objects PROVE SemOK(s)'
    <3>1. CASE s \notin SemaphoresInUse'
      BY <2>3, <2>6, <3>1, SemUnused
    <3>2. CASE s = rsem[r]
      <4>1. \A q \in Readers : ~ReaderHolds(q, s)'
        BY <2>2, <2>4, <3>2 DEF ReaderHolds
      <4> QED BY <2>2, <2>3, <2>5, <2>6, <3>2, <4>1, SemFree
    <3>3. CASE s \in SemaphoresInUse' /\ s # rsem[r]
      <4>1. \A q \in Readers : ReaderHolds(q, s)' <=> ReaderHolds(q, s)
        BY <2>4, <3>3, NoneAssumption DEF ReaderHolds
      <4>2. count'[s] = count[s]
        BY <2>3, <2>6, <3>3
      <4> QED BY <1>23, <2>5, <2>6, <4>1, <4>2, SemSame DEF ReaderPosts, ProxyInv, Semaphores
    <3> QED BY <3>1, <3>2, <3>3
  <2> QED BY <2>3, <2>6 DEF ProxyInv, Semaphores
<1>24. ASSUME NEW r \in Readers, KillReader(r) PROVE Semaphores'
  <2>1. count' = [o \in Objects |-> IF o \in SemaphoresInUse' THEN count[o] ELSE 1]
    BY <1>24 DEF KillReader, KeepSemaphores
  <2>2. ASSUME NEW s \in Objects PROVE SemOK(s)'
    <3>1. CASE s \notin SemaphoresInUse'
      BY <2>1, <2>2, <3>1, SemUnused
    <3>2. CASE s \in SemaphoresInUse'
      <4>1. count'[s] = count[s]
        BY <2>1, <2>2, <3>2
      <4> QED BY <1>24, <2>2, <4>1, SemLess DEF KillReader, Close, ReaderTypes, NameTypes, ProxyInv, Semaphores, DaemonHolds, ReaderHolds, ipc, proxy, link, readers, history
    <3> QED BY <3>1, <3>2
  <2> QED BY <2>1, <2>2 DEF ProxyInv, Semaphores
<1> QED BY <1>1, <1>2, <1>3, <1>4, <1>5, <1>6, <1>7, <1>8, <1>9, <1>10, <1>11, <1>12, <1>13,
        <1>14, <1>15, <1>16, <1>17, <1>18, <1>19, <1>20, <1>21, <1>22, <1>23, <1>24 DEF Next,
        Daemon, Server, Reader

(* A step at a time: the weather. *)

\* The lines that may be next, and what follows each.
LEMMA NextLine ==
  ASSUME ProxyInv, inbox # <<>>
  PROVE  \/ \E t \in Times : /\ Head(inbox) = Told(t)
                             /\ Tail(inbox) = <<>> \/ Tail(inbox) = <<At(t)>>
         \/ \E t \in Times : /\ Head(inbox) = At(t) /\ Tail(inbox) = <<>>
                             /\ new.weather = Forecast[t]
<1>1. \A a : Head(<<a>>) = a /\ Tail(<<a>>) = <<>>
  OBVIOUS
<1>2. \A a, b : Head(<<a, b>>) = a /\ Tail(<<a, b>>) = <<b>>
  OBVIOUS
<1>3. CASE \E t \in Times : inbox = <<Told(t)>>
  BY <1>1, <1>3
<1>4. CASE \E t \in Times : inbox = <<Told(t), At(t)>>
  BY <1>2, <1>4
<1>5. CASE \E t \in Times : inbox = <<At(t)>> /\ new.weather = Forecast[t]
  BY <1>1, <1>5
<1> QED BY <1>3, <1>4, <1>5, Zenon DEF ProxyInv, HonestInv, OneAnswer

\* The beginnings of one line and of two.
LEMMA PrefixOfOne ==
  ASSUME NEW a, NEW n \in 0..Len(<<a>>)
  PROVE  SubSeq(<<a>>, 1, n) = <<>> \/ SubSeq(<<a>>, 1, n) = <<a>>
<1>1. Len(<<a>>) = 1 /\ <<a>> \in Seq({a}) /\ <<a>>[1] = a
  OBVIOUS
<1>2. n = 0 \/ n = 1
  BY <1>1
<1>3. SubSeq(<<a>>, 1, 0) = <<>>
  OBVIOUS
<1>4. SubSeq(<<a>>, 1, 1) = [i \in 1..1 |-> <<a>>[i]]
  BY <1>1
<1>5. <<a>> = [i \in 1..1 |-> a]
  OBVIOUS
<1> QED BY <1>1, <1>2, <1>3, <1>4, <1>5

LEMMA PrefixOfTwo ==
  ASSUME NEW a, NEW b, NEW n \in 0..Len(<<a, b>>)
  PROVE  SubSeq(<<a, b>>, 1, n) \in {<<>>, <<a>>, <<a, b>>}
<1> DEFINE q == <<a, b>>
<1>1. Len(q) = 2 /\ q \in Seq({a, b}) /\ q[1] = a /\ q[2] = b
  OBVIOUS
<1>2. n = 0 \/ n = 1 \/ n = 2
  BY <1>1
<1>3. SubSeq(q, 1, 0) = <<>>
  OBVIOUS
<1>4. SubSeq(q, 1, 1) = <<a>>
  <2>1. SubSeq(q, 1, 1) = [i \in 1..1 |-> q[i]]
    BY <1>1
  <2>2. \A i \in 1..1 : q[i] = a
    BY <1>1
  <2>3. [i \in 1..1 |-> q[i]] = [i \in 1..1 |-> a]
    BY <2>2
  <2>4. <<a>> = [i \in 1..1 |-> a]
    OBVIOUS
  <2> HIDE DEF q
  <2> QED BY <2>1, <2>3, <2>4
<1>5. SubSeq(q, 1, 2) = q
  <2>1. SubSeq(q, 1, 2) = [i \in 1..2 |-> q[i]]
    BY <1>1
  <2>2. q = [i \in 1..2 |-> q[i]]
    OBVIOUS
  <2> QED BY <2>1, <2>2
<1> QED BY <1>2, <1>3, <1>4, <1>5

\* A beginning of an answer is an answer cut short.
LEMMA CutAnswer ==
  ASSUME OneAnswer, NEW n \in 0..Len(inbox), inbox' = SubSeq(inbox, 1, n), new' = new
  PROVE  OneAnswer'
<1>1. CASE inbox = <<>>
  BY <1>1 DEF OneAnswer
<1>2. ASSUME NEW t \in Times, inbox = <<Told(t)>> PROVE OneAnswer'
  <2>1. inbox' = <<>> \/ inbox' = <<Told(t)>>
    BY <1>2, PrefixOfOne
  <2> QED BY <2>1, Zenon DEF OneAnswer, Told
<1>3. ASSUME NEW t \in Times, inbox = <<Told(t), At(t)>> PROVE OneAnswer'
  <2>1. inbox' = <<>> \/ inbox' = <<Told(t)>> \/ inbox' = <<Told(t), At(t)>>
    BY <1>3, PrefixOfTwo
  <2> QED BY <2>1, Zenon DEF OneAnswer, Told, At
<1>4. ASSUME NEW t \in Times, inbox = <<At(t)>>, new.weather = Forecast[t] PROVE OneAnswer'
  <2>1. inbox' = <<>> \/ inbox' = <<At(t)>>
    BY <1>4, PrefixOfOne
  <2> QED BY <1>4, <2>1, Zenon DEF OneAnswer, At
<1> QED BY <1>1, <1>2, <1>3, <1>4 DEF OneAnswer

\* A level that opens the domes is what the server told at its time.
LEMMA HonestNext == ASSUME ProxyInv, Next PROVE HonestInv'
<1>1. ASSUME OpenMemory PROVE HonestInv'
  BY <1>1 DEF OpenMemory, ProxyInv, HonestInv, Honest, OneAnswer, Told, At, ipc, proxy, link, readers, history
<1>2. ASSUME Memset PROVE HonestInv'
  BY <1>2 DEF Memset, Zeros, ProxyInv, HonestInv, Honest, OneAnswer, Told, At, ipc, proxy, link, readers, history
<1>3. ASSUME OpenSemaphore PROVE HonestInv'
  BY <1>3 DEF OpenSemaphore, ProxyInv, HonestInv, Honest, OneAnswer, Told, At, ipc, proxy, link, readers, history
<1>4. ASSUME Connect PROVE HonestInv'
  BY <1>4 DEF Connect, LostInv, ProxyInv, HonestInv, Honest, OneAnswer, Told, At, ipc, proxy, link, readers, history
<1>5. ASSUME LeaveLoop PROVE HonestInv'
  BY <1>5 DEF LeaveLoop, ProxyInv, HonestInv, Honest, OneAnswer, Told, At, ipc, proxy, link, readers, history
<1>6. ASSUME Reconnect PROVE HonestInv'
  <2>1. new.weather \in 0..3 /\ TERRIBLE = 2 /\ inbox' = <<>>
    BY <1>6, RecordForms, Numbers DEF Reconnect, ProxyInv, DataTypes
  <2>2. pc' \in {"wait", "copy"} => new'.weather = TERRIBLE
    BY <1>6 DEF Reconnect, LoseServer, ProxyInv, DataTypes, Records
  <2> QED BY <1>6, <2>1, <2>2 DEF Reconnect, ProxyInv, HonestInv, Honest, OneAnswer, Told, At, ipc, proxy, link, readers, history
<1>7. ASSUME ReadLine PROVE HonestInv'
  <2>1. value' = value /\ pc = "loop" /\ inbox # <<>> /\ inbox' = Tail(inbox)
    BY <1>7 DEF ReadLine, history
  <2>2. ASSUME NEW t \in Times, Head(inbox) = Told(t), Tail(inbox) = <<>> \/ Tail(inbox) = <<At(t)>>
        PROVE  HonestInv'
    <3>1. new' = [new EXCEPT !.weather = Forecast[t]] /\ pc' = pc
      BY <1>7, <2>2 DEF ReadLine, LineWeather, Told
    <3>2. new'.weather = Forecast[t]
      BY <3>1 DEF ProxyInv, DataTypes, Records
    <3>3. OneAnswer'
      BY <2>1, <2>2, <3>2 DEF OneAnswer, At
    <3> QED BY <2>1, <3>1, <3>3 DEF ProxyInv, HonestInv, Honest
  <2>3. ASSUME NEW t \in Times, Head(inbox) = At(t), Tail(inbox) = <<>>, new.weather = Forecast[t]
        PROVE  HonestInv'
    <3>1. new' = [weather |-> Level(new.weather), time |-> t] /\ pc' = "wait"
      BY <1>7, <2>3 DEF ReadLine, LineTime, At
    <3>2. Honest(new)'
      BY <2>3, <3>1, Numbers DEF Honest, Level
    <3>3. OneAnswer'
      BY <2>1, <2>3 DEF OneAnswer
    <3> QED BY <2>1, <3>2, <3>3 DEF ProxyInv, HonestInv, Honest
  <2> QED BY <2>1, <2>2, <2>3, NextLine
<1>8. ASSUME WaitSem PROVE HonestInv'
  BY <1>8 DEF WaitSem, ProxyInv, HonestInv, Honest, OneAnswer, Told, At, ipc, proxy, link, readers, history
<1>9. ASSUME PostSem PROVE HonestInv'
  BY <1>9 DEF PostSem, Publish, ProxyInv, HonestInv, Honest, OneAnswer, Told, At, ipc, proxy, link, readers, history
<1>10. ASSUME UnlinkSem PROVE HonestInv'
  BY <1>10 DEF UnlinkSem, ProxyInv, HonestInv, Honest, OneAnswer, Told, At, ipc, proxy, link, readers, history
<1>11. ASSUME UnlinkShm PROVE HonestInv'
  BY <1>11 DEF UnlinkShm, Exit, Zeros, ProxyInv, HonestInv, Honest, OneAnswer, Told, At, ipc, proxy, link, readers, history
<1>12. ASSUME Fork PROVE HonestInv'
  BY <1>12 DEF Fork, ProxyInv, HonestInv, Honest, OneAnswer, Told, At, ipc, proxy, link, readers, history
<1>13. ASSUME Signal PROVE HonestInv'
  BY <1>13 DEF Signal, ProxyInv, HonestInv, Honest, OneAnswer, Told, At, ipc, proxy, link, readers, history
<1>14. ASSUME Kill PROVE HonestInv'
  BY <1>14 DEF Kill, Exit, ProxyInv, HonestInv, Honest, OneAnswer, Told, At, ipc, proxy, link, readers, history
<1>15. ASSUME Answer PROVE HonestInv'
  BY <1>15 DEF Answer, ProxyInv, HonestInv, Honest, OneAnswer, Told, At, ipc, proxy, link, readers, history
<1>16. ASSUME ServerFails PROVE HonestInv'
  <2>1. OneAnswer'
    <3>1. CASE UNCHANGED inbox
      BY <1>16, <3>1 DEF ServerFails, proxy, ProxyInv, HonestInv, OneAnswer, Told, At
    <3>2. CASE \E n \in 0..Len(inbox) : inbox' = SubSeq(inbox, 1, n)
      BY <1>16, <3>2, CutAnswer DEF ServerFails, proxy, ProxyInv, HonestInv
    <3> QED BY <1>16, <3>1, <3>2 DEF ServerFails
  <2> QED BY <1>16, <2>1 DEF ServerFails, ProxyInv, HonestInv, Honest, proxy, history
<1>17. ASSUME ServerStarts PROVE HonestInv'
  BY <1>17 DEF ServerStarts, ProxyInv, HonestInv, Honest, OneAnswer, Told, At, ipc, proxy, link, readers, history
<1>18. ASSUME NEW r \in Readers, BeginRead(r) PROVE HonestInv'
  BY <1>18 DEF BeginRead, ProxyInv, HonestInv, Honest, OneAnswer, Told, At, ipc, proxy, link, readers, history
<1>19. ASSUME NEW r \in Readers, NoSemaphore(r) PROVE HonestInv'
  BY <1>19 DEF NoSemaphore, Close, Forget, ProxyInv, HonestInv, Honest, OneAnswer, Told, At, ipc, proxy, link, readers, history
<1>20. ASSUME NEW r \in Readers, ReaderOpens(r) PROVE HonestInv'
  BY <1>20 DEF ReaderOpens, ProxyInv, HonestInv, Honest, OneAnswer, Told, At, ipc, proxy, link, readers, history
<1>21. ASSUME NEW r \in Readers, ReaderWaits(r) PROVE HonestInv'
  BY <1>21 DEF ReaderWaits, ProxyInv, HonestInv, Honest, OneAnswer, Told, At, ipc, proxy, link, readers, history
<1>22. ASSUME NEW r \in Readers, ReaderCopies(r) PROVE HonestInv'
  BY <1>22 DEF ReaderCopies, Forget, ProxyInv, HonestInv, Honest, OneAnswer, Told, At, ipc, proxy, link, readers, history
<1>23. ASSUME NEW r \in Readers, ReaderPosts(r) PROVE HonestInv'
  BY <1>23 DEF ReaderPosts, Close, ProxyInv, HonestInv, Honest, OneAnswer, Told, At, ipc, proxy, link, readers, history
<1>24. ASSUME NEW r \in Readers, KillReader(r) PROVE HonestInv'
  BY <1>24 DEF KillReader, Close, Forget, ProxyInv, HonestInv, Honest, OneAnswer, Told, At, ipc, proxy, link, readers, history
<1> QED BY <1>1, <1>2, <1>3, <1>4, <1>5, <1>6, <1>7, <1>8, <1>9, <1>10, <1>11, <1>12, <1>13,
        <1>14, <1>15, <1>16, <1>17, <1>18, <1>19, <1>20, <1>21, <1>22, <1>23, <1>24 DEF Next,
        Daemon, Server, Reader

\* Without a connection the domes are told to close.
LEMMA LostNext == ASSUME ProxyInv, Next PROVE LostInv'
<1>1. ASSUME OpenMemory PROVE LostInv'
  BY <1>1 DEF OpenMemory, ProxyInv, LostInv, ipc, proxy, link, readers, history
<1>2. ASSUME Memset PROVE LostInv'
  BY <1>2 DEF Memset, ProxyInv, LostInv, ipc, proxy, link, readers, history
<1>3. ASSUME OpenSemaphore PROVE LostInv'
  BY <1>3 DEF OpenSemaphore, ProxyInv, LostInv, ipc, proxy, link, readers, history
<1>4. ASSUME Connect PROVE LostInv'
  BY <1>4 DEF Connect, ProxyInv, LostInv, ipc, proxy, link, readers, history
<1>5. ASSUME LeaveLoop PROVE LostInv'
  BY <1>5 DEF LeaveLoop, ProxyInv, LostInv, ipc, proxy, link, readers, history
<1>6. ASSUME Reconnect PROVE LostInv'
  <2>1. pc' \in {"wait", "copy"} => new'.weather = TERRIBLE
    BY <1>6 DEF Reconnect, LoseServer, ProxyInv, DataTypes, Records
  <2>2. sock' = "none" => pc' = "wait"
    BY <1>6 DEF Reconnect, LoseServer
  <2>3. pc' \in {"loop", "wait"} /\ inbox' = <<>>
    BY <1>6 DEF Reconnect, LoseServer
  <2> QED BY <2>1, <2>2, <2>3, Numbers DEF LostInv
<1>7. ASSUME ReadLine PROVE LostInv'
  <2>1. sock # "none" /\ sock' = sock
    BY <1>7 DEF ReadLine, ProxyInv, LostInv
  <2>2. pc' \in {"loop", "wait"}
    BY <1>7 DEF ReadLine, LineWeather, LineTime
  <2> QED BY <2>1, <2>2 DEF LostInv
<1>8. ASSUME WaitSem PROVE LostInv'
  BY <1>8 DEF WaitSem, ProxyInv, LostInv, ipc, proxy, link, readers, history
<1>9. ASSUME PostSem PROVE LostInv'
  BY <1>9 DEF PostSem, Publish, ProxyInv, LostInv, ipc, proxy, link, readers, history
<1>10. ASSUME UnlinkSem PROVE LostInv'
  BY <1>10 DEF UnlinkSem, ProxyInv, LostInv, ipc, proxy, link, readers, history
<1>11. ASSUME UnlinkShm PROVE LostInv'
  BY <1>11 DEF UnlinkShm, Exit, ProxyInv, LostInv, ipc, proxy, link, readers, history
<1>12. ASSUME Fork PROVE LostInv'
  BY <1>12 DEF Fork, ProxyInv, LostInv, ipc, proxy, link, readers, history
<1>13. ASSUME Signal PROVE LostInv'
  BY <1>13 DEF Signal, ProxyInv, LostInv, ipc, proxy, link, readers, history
<1>14. ASSUME Kill PROVE LostInv'
  BY <1>14 DEF Kill, Exit, ProxyInv, LostInv, ipc, proxy, link, readers, history
<1>15. ASSUME Answer PROVE LostInv'
  BY <1>15 DEF Answer, ProxyInv, LostInv, ipc, proxy, link, readers, history
<1>16. ASSUME ServerFails PROVE LostInv'
  BY <1>16 DEF ServerFails, ProxyInv, LostInv, ipc, proxy, link, readers, history
<1>17. ASSUME ServerStarts PROVE LostInv'
  BY <1>17 DEF ServerStarts, ProxyInv, LostInv, ipc, proxy, link, readers, history
<1>18. ASSUME NEW r \in Readers, BeginRead(r) PROVE LostInv'
  BY <1>18 DEF BeginRead, ProxyInv, LostInv, ipc, proxy, link, readers, history
<1>19. ASSUME NEW r \in Readers, NoSemaphore(r) PROVE LostInv'
  BY <1>19 DEF NoSemaphore, Close, Forget, ProxyInv, LostInv, ipc, proxy, link, readers, history
<1>20. ASSUME NEW r \in Readers, ReaderOpens(r) PROVE LostInv'
  BY <1>20 DEF ReaderOpens, ProxyInv, LostInv, ipc, proxy, link, readers, history
<1>21. ASSUME NEW r \in Readers, ReaderWaits(r) PROVE LostInv'
  BY <1>21 DEF ReaderWaits, ProxyInv, LostInv, ipc, proxy, link, readers, history
<1>22. ASSUME NEW r \in Readers, ReaderCopies(r) PROVE LostInv'
  BY <1>22 DEF ReaderCopies, Forget, ProxyInv, LostInv, ipc, proxy, link, readers, history
<1>23. ASSUME NEW r \in Readers, ReaderPosts(r) PROVE LostInv'
  BY <1>23 DEF ReaderPosts, Close, ProxyInv, LostInv, ipc, proxy, link, readers, history
<1>24. ASSUME NEW r \in Readers, KillReader(r) PROVE LostInv'
  BY <1>24 DEF KillReader, Close, Forget, ProxyInv, LostInv, ipc, proxy, link, readers, history
<1> QED BY <1>1, <1>2, <1>3, <1>4, <1>5, <1>6, <1>7, <1>8, <1>9, <1>10, <1>11, <1>12, <1>13,
        <1>14, <1>15, <1>16, <1>17, <1>18, <1>19, <1>20, <1>21, <1>22, <1>23, <1>24 DEF Next,
        Daemon, Server, Reader

(* The ban. *)

\* What one step may do to a ban that has reached the memory.
BanStep == Banned /\ forbidden' => Banned' \/ pc = "memset_end"

\* No step of anybody undoes a ban that is in force.
LEMMA BanNext == ASSUME ProxyInv, Next PROVE BanStep
<1>1. ASSUME OpenMemory PROVE BanStep
  BY <1>1 DEF OpenMemory, ProxyInv, BanStep, Banned, ipc, proxy, link, readers, history
<1>2. ASSUME Memset PROVE BanStep
  BY <1>2 DEF Memset, ProxyInv, BanStep, Banned, ipc, proxy, link, readers, history
<1>3. ASSUME OpenSemaphore PROVE BanStep
  BY <1>3 DEF OpenSemaphore, ProxyInv, BanStep, Banned, ipc, proxy, link, readers, history
<1>4. ASSUME Connect PROVE BanStep
  BY <1>4 DEF Connect, ProxyInv, BanStep, Banned, ipc, proxy, link, readers, history
<1>5. ASSUME LeaveLoop PROVE BanStep
  BY <1>5 DEF LeaveLoop, ProxyInv, BanStep, Banned, ipc, proxy, link, readers, history
<1>6. ASSUME Reconnect PROVE BanStep
  <2>1. pc' \in {"wait", "copy"} => new'.weather = TERRIBLE
    BY <1>6 DEF Reconnect, LoseServer, ProxyInv, DataTypes, Records
  <2>2. value' = value
    BY <1>6 DEF Reconnect, history
  <2> QED BY <2>1, <2>2, Numbers DEF BanStep, Banned
<1>7. ASSUME ReadLine PROVE BanStep
  <2>1. pc = "loop" /\ value' = value /\ forbidden' = forbidden
    BY <1>7 DEF ReadLine, history
  <2>2. forbidden /\ pc' = "wait" => new'.weather = PROHIBITED
    BY <1>7, <2>1 DEF ReadLine, LineWeather, LineTime, Level
  <2>3. pc' \in {"loop", "wait"}
    BY <1>7 DEF ReadLine, LineWeather, LineTime
  <2> QED BY <2>1, <2>2, <2>3, Numbers DEF BanStep, Banned
<1>8. ASSUME WaitSem PROVE BanStep
  BY <1>8 DEF WaitSem, ProxyInv, BanStep, Banned, ipc, proxy, link, readers, history
<1>9. ASSUME PostSem PROVE BanStep
  <2>1. value' = new /\ pc = "copy" /\ pc' = "loop"
    BY <1>9 DEF PostSem, Publish
  <2>2. new.weather \in 0..3
    BY RecordForms DEF ProxyInv, DataTypes
  <2> QED BY <2>1, <2>2, Numbers DEF BanStep, Banned
<1>10. ASSUME UnlinkSem PROVE BanStep
  BY <1>10 DEF UnlinkSem, ProxyInv, BanStep, Banned, ipc, proxy, link, readers, history
<1>11. ASSUME UnlinkShm PROVE BanStep
  BY <1>11, Zenon DEF UnlinkShm, Exit, BanStep
<1>12. ASSUME Fork PROVE BanStep
  BY <1>12 DEF Fork, ProxyInv, BanStep, Banned, ipc, proxy, link, readers, history
<1>13. ASSUME Signal PROVE BanStep
  BY <1>13 DEF Signal, ProxyInv, BanStep, Banned, ipc, proxy, link, readers, history
<1>14. ASSUME Kill PROVE BanStep
  BY <1>14, Zenon DEF Kill, Exit, BanStep
<1>15. ASSUME Answer PROVE BanStep
  BY <1>15 DEF Answer, ProxyInv, BanStep, Banned, ipc, proxy, link, readers, history
<1>16. ASSUME ServerFails PROVE BanStep
  BY <1>16 DEF ServerFails, ProxyInv, BanStep, Banned, ipc, proxy, link, readers, history
<1>17. ASSUME ServerStarts PROVE BanStep
  BY <1>17 DEF ServerStarts, ProxyInv, BanStep, Banned, ipc, proxy, link, readers, history
<1>18. ASSUME NEW r \in Readers, BeginRead(r) PROVE BanStep
  BY <1>18 DEF BeginRead, ProxyInv, BanStep, Banned, ipc, proxy, link, readers, history
<1>19. ASSUME NEW r \in Readers, NoSemaphore(r) PROVE BanStep
  BY <1>19 DEF NoSemaphore, Close, Forget, ProxyInv, BanStep, Banned, ipc, proxy, link, readers, history
<1>20. ASSUME NEW r \in Readers, ReaderOpens(r) PROVE BanStep
  BY <1>20 DEF ReaderOpens, ProxyInv, BanStep, Banned, ipc, proxy, link, readers, history
<1>21. ASSUME NEW r \in Readers, ReaderWaits(r) PROVE BanStep
  BY <1>21 DEF ReaderWaits, ProxyInv, BanStep, Banned, ipc, proxy, link, readers, history
<1>22. ASSUME NEW r \in Readers, ReaderCopies(r) PROVE BanStep
  BY <1>22 DEF ReaderCopies, Forget, ProxyInv, BanStep, Banned, ipc, proxy, link, readers, history
<1>23. ASSUME NEW r \in Readers, ReaderPosts(r) PROVE BanStep
  BY <1>23 DEF ReaderPosts, Close, ProxyInv, BanStep, Banned, ipc, proxy, link, readers, history
<1>24. ASSUME NEW r \in Readers, KillReader(r) PROVE BanStep
  BY <1>24 DEF KillReader, Close, Forget, ProxyInv, BanStep, Banned, ipc, proxy, link, readers, history
<1> QED BY <1>1, <1>2, <1>3, <1>4, <1>5, <1>6, <1>7, <1>8, <1>9, <1>10, <1>11, <1>12, <1>13,
        <1>14, <1>15, <1>16, <1>17, <1>18, <1>19, <1>20, <1>21, <1>22, <1>23, <1>24 DEF Next,
        Daemon, Server, Reader

(* The invariant, and what it gives. *)

LEMMA ProxyInit == Init => ProxyInv
<1> SUFFICES ASSUME Init PROVE ProxyInv
  OBVIOUS
<1>1. NameTypes
  BY DEF Init, NameTypes, PCs
<1>2. DataTypes
  BY RecordForms DEF Init, DataTypes
<1>3. FlagTypes
  BY DEF Init, FlagTypes
<1>4. LinkTypes
  BY DEF Init, LinkTypes
<1>5. ReaderTypes
  BY DEF Init, ReaderTypes
<1>6. Opened /\ WholeAtStart
  BY DEF Init, Opened, WholeAtStart
<1>7. Semaphores
  <2>1. ASSUME NEW s \in Objects PROVE SemOK(s)
    BY <2>1 DEF Init, SemOK, DaemonHolds, ReaderHolds
  <2> QED BY <2>1 DEF Init, Semaphores
<1>8. HonestInv
  BY DEF Init, HonestInv, Honest, OneAnswer, Zeros
<1>9. LostInv
  BY DEF Init, LostInv
<1> QED BY <1>1, <1>2, <1>3, <1>4, <1>5, <1>6, <1>7, <1>8, <1>9 DEF ProxyInv

\* Nothing happens.
LEMMA ProxyStutter == ASSUME ProxyInv, UNCHANGED vars PROVE ProxyInv'
<1> USE DEF vars, ipc, proxy, link, readers, history
<1>1. NameTypes' /\ Opened' /\ WholeAtStart'
  BY DEF ProxyInv, NameTypes, Opened, WholeAtStart
<1>2. DataTypes' /\ LinkTypes' /\ ReaderTypes'
  BY DEF ProxyInv, DataTypes, LinkTypes, ReaderTypes
<1>3. FlagTypes'
  BY DEF ProxyInv, FlagTypes
<1>4. Semaphores'
  BY SemAlone DEF DaemonHolds, ReaderHolds
<1>5. HonestInv' /\ LostInv'
  BY DEF ProxyInv, HonestInv, Honest, OneAnswer, Told, At, LostInv
<1> QED BY <1>1, <1>2, <1>3, <1>4, <1>5 DEF ProxyInv

LEMMA ProxyNext == ASSUME ProxyInv PROVE [Next]_vars => ProxyInv'
<1>1. CASE Next
  BY <1>1, NamesNext, DataNext, FlagsNext, LinkNext, ReadersNext, OpenedNext, WholeNext,
     SemaphoresNext, HonestNext, LostNext DEF ProxyInv
<1>2. CASE UNCHANGED vars
  BY <1>2, ProxyStutter
<1> QED BY <1>1, <1>2

LEMMA ProxyAlways == Spec => []ProxyInv
<1>1. Init => ProxyInv
  BY ProxyInit
<1>2. ProxyInv /\ [Next]_vars => ProxyInv'
  BY ProxyNext
<1> QED BY <1>1, <1>2, PTL DEF Spec

\* Every field keeps to its values: init_ipc, run_daemon and get_weather_data.
THEOREM ProxyTypes == Spec => []ProxyTypeOK
BY ProxyAlways, PartsAreTypes, PTL

\* The semaphore of update_shm and get_weather_data has one holder at most, and
\* is left taken only by a process that was killed.
THEOREM SemaphoreIsHeld == Spec => []TakenIsHeld
BY ProxyAlways, SemIsHeld, PTL

\* run_daemon: a published level that opens the domes is the server's for its time.
THEOREM PublishedIsHonest == Spec => []LevelIsHonest
<1>1. ProxyInv => LevelIsHonest
  BY DEF ProxyInv, HonestInv, Honest, LevelIsHonest
<1> QED BY ProxyAlways, <1>1, PTL

\* run_daemon: while the server is lost the published level closes the domes.
THEOREM LossIsPublished == Spec => []LostServerIsPublished
<1>1. ProxyInv => LostServerIsPublished
  BY DEF ProxyInv, LostInv, LostServerIsPublished
<1> QED BY ProxyAlways, <1>1, PTL

\* parse_line and the signals: a ban that is in force lasts as long as it is
\* wanted, or until a new daemon clears the memory.
THEOREM BanLasts == Spec => BanIsKept
<1>1. ASSUME ProxyInv
      PROVE  [Next]_vars => [Banned /\ forbidden' => Banned' \/ pc = "memset_end"]_vars
  BY <1>1, BanNext DEF BanStep
<1> QED BY ProxyAlways, <1>1, PTL DEF Spec, BanIsKept

-----------------------------------------------------------------------------
(* weather_proxy implements WeatherRegister: get_weather_data returns the   *)
(* record published last in the memory it opened, whole.                    *)

Steady == {"sem", "connect", "loop", "wait", "unlink_sem", "unlink_shm"}

\* A daemon at work has the objects that have the names, and fills the memory
\* with zeros only at its start; without a name there is nothing published.
AtWork ==
  /\ pc \in Steady \cup {"memset", "memset_end", "copy"} => pshm = shm /\ shm \in Objects
  /\ pc \in {"connect", "loop", "wait", "copy", "unlink_sem"} => psem = sem /\ sem \in Objects
  /\ pc \in Steady \cup {"copy"} => ~zeroing
  /\ pc \in {"shm", "dead"} => pshm = None
  /\ shm = None => value = Zeros /\ ~zeroing

\* The kernel gives zeros to whoever makes a new memory.
FreeIsZero == \A o \in Objects : o \notin MemoryInUse => mem[o] = Zeros

\* The semaphore that has the name is taken, and by no reader: its holder is
\* the daemon, or was a daemon that was killed.
Barred == sem \in Objects /\ count[sem] = 0 /\ \A r \in Readers : ~ReaderHolds(r, sem)

\* The memory holds what is published, unless an update is going on or was
\* cut short; that keeps the readers out until the zeros of the next daemon.
MemoryOK ==
  shm \in Objects /\ ~zeroing =>
    mem[shm] = value \/ (Barred /\ pc \in {"copy", "dead", "shm", "memset"})

\* The variables of a call have their resting values outside of it, and a copy
\* is torn only in a call that met the filling.
Outside(r) ==
  /\ rpc[r] \in {"idle", "post"} => r \notin spoiled /\ view[r] = Zeros
  /\ rpc[r] # "post" => buf[r] = Zeros
  /\ rpc[r] = "idle" => rshm[r] = None
  /\ r \in raced => rpc[r] = "copy" /\ r \in spoiled

\* A call in progress that has not met the filling.
Sound(r) == rpc[r] \in {"sem", "wait", "copy"} /\ r \notin spoiled

\* It finds what it ought to return, in a memory that has lost its name and in
\* the one that has it; and if that is not yet whole it waits for the semaphore
\* that has the name.
OldMemory(r) == Sound(r) /\ rshm[r] # shm => mem[rshm[r]] = view[r]
NewMemory(r) == Sound(r) /\ rshm[r] = shm => ~zeroing /\ view[r] = value
SameSemaphore(r) ==
  Sound(r) /\ rshm[r] = shm /\ rpc[r] \in {"wait", "copy"} =>
    rsem[r] = sem \/ (sem = None /\ pc \in {"unlink_shm", "dead", "shm", "memset"})

CallOK(r) == Outside(r) /\ OldMemory(r) /\ NewMemory(r) /\ SameSemaphore(r)

RefInv == AtWork /\ FreeIsZero /\ MemoryOK /\ \A r \in Readers : CallOK(r)

\* What the register sees of the answer of a call.
AnswerOf == [r \in Readers |-> IF r \in Active THEN Zeros ELSE buf[r]]

RegisterVars == <<value, zeroing, Active, Attached, view, spoiled, AnswerOf>>

\* A step of the register, or none.
RegisterStep == Register!Next \/ UNCHANGED RegisterVars

\* Who is in a call, and in one on the memory that has the name.
LEMMA InCall ==
  ASSUME ProxyInv
  PROVE  /\ \A r : r \in Active <=> r \in Readers /\ rpc[r] \in {"sem", "wait", "copy"}
         /\ \A r : r \in Attached <=> r \in Active /\ rshm[r] = shm
         /\ \A r \in Active : rshm[r] \in Objects /\ rshm[r] # None
         /\ shm = None => Attached = {}
<1>1. \A r \in Readers : rpc[r] \in {"idle", "sem", "wait", "copy", "post"}
  BY DEF ProxyInv, ReaderTypes
<1>2. \A r : r \in Active <=> r \in Readers /\ rpc[r] \in {"sem", "wait", "copy"}
  BY <1>1 DEF Active
<1>3. \A r : r \in Attached <=> r \in Active /\ rshm[r] = shm
  BY DEF Attached
<1>4. \A r \in Active : rshm[r] \in Objects /\ rshm[r] # None
  BY <1>2, NoneAssumption DEF ProxyInv, Opened
<1> QED BY <1>2, <1>3, <1>4

\* A call changes only for its own reader.
LEMMA SameCalls ==
  ASSUME UNCHANGED <<rpc, rshm, shm>>
  PROVE  Active' = Active /\ Attached' = Attached
BY DEF Active, Attached

LEMMA SameAnswer ==
  ASSUME UNCHANGED <<rpc, buf>>
  PROVE  AnswerOf' = AnswerOf
BY DEF AnswerOf, Active

(* A step at a time.                                                       *)

\* The steps of the daemon that touch neither the objects nor the readers.
LEMMA QuietKeeps ==
  ASSUME ProxyInv, RefInv,
         UNCHANGED <<ipc, pshm, psem, readers, history>>,
         \/ pc' = pc
         \/ pc = "connect" /\ pc' \in {"loop", "unlink_sem"}
         \/ pc = "loop" /\ pc' \in {"wait", "unlink_sem"}
         \/ pc = "dead" /\ pc' = "shm"
  PROVE  RefInv' /\ RegisterStep
<1> USE DEF ipc, readers, history
<1>1. AtWork'
  BY DEF RefInv, AtWork, Steady
<1>2. FreeIsZero'
  BY DEF RefInv, FreeIsZero, MemoryInUse
<1>3. MemoryOK'
  BY DEF RefInv, MemoryOK, Barred, ReaderHolds
<1>4. ASSUME NEW r \in Readers PROVE CallOK(r)'
  BY <1>4 DEF RefInv, CallOK, Outside, Sound, OldMemory, NewMemory, SameSemaphore
<1>5. UNCHANGED RegisterVars
  BY SameCalls, SameAnswer DEF RegisterVars
<1> QED BY <1>1, <1>2, <1>3, <1>4, <1>5 DEF RefInv, RegisterStep

\* shm_open: the daemon takes the memory that has the name, or makes one that
\* nobody has open.
LEMMA OpenMemoryKeeps == ASSUME ProxyInv, RefInv, OpenMemory PROVE RefInv' /\ RegisterStep
<1> USE DEF OpenMemory, link, readers, history
<1>1. \/ shm \in Objects /\ shm' = shm
      \/ shm = None /\ shm' \in Objects /\ shm' \notin MemoryInUse
  BY DEF Named, ProxyInv, NameTypes
<1>2. pshm' = shm' /\ pc = "shm" /\ pc' = "memset"
  OBVIOUS
<1>3. AtWork'
  BY <1>1, NoneAssumption DEF RefInv, AtWork, Steady
<1>4. FreeIsZero'
  <2>1. pshm = None
    BY DEF RefInv, AtWork
  <2>2. \A o \in Objects : o \notin MemoryInUse' => o \notin MemoryInUse
    BY <1>1, <2>1, NoneAssumption DEF MemoryInUse
  <2> QED BY <2>2 DEF RefInv, FreeIsZero
<1>5. MemoryOK'
  <2>1. CASE shm' = shm
    BY <2>1 DEF RefInv, MemoryOK, Barred, ReaderHolds
  <2>2. CASE shm = None /\ shm' \in Objects /\ shm' \notin MemoryInUse
    BY <2>2 DEF RefInv, MemoryOK, FreeIsZero, AtWork
  <2> QED BY <1>1, <2>1, <2>2
<1>6. \A r \in Readers : rpc[r] # "idle" => (rshm[r] = shm' <=> rshm[r] = shm)
  BY <1>1, NoneAssumption DEF MemoryInUse, ProxyInv, Opened
<1>7. ASSUME NEW r \in Readers PROVE CallOK(r)'
  BY <1>1, <1>6, <1>7 DEF RefInv, CallOK, Outside, Sound, OldMemory, NewMemory, SameSemaphore
<1>8. Active' = Active /\ Attached' = Attached
  BY <1>6 DEF Active, Attached
<1>9. UNCHANGED RegisterVars
  BY <1>8, SameAnswer DEF RegisterVars
<1> QED BY <1>3, <1>4, <1>5, <1>7, <1>9 DEF RefInv, RegisterStep

\* memset: a step of the filling, which every call on this memory meets.
LEMMA MemsetKeeps == ASSUME ProxyInv, RefInv, Memset PROVE RefInv' /\ RegisterStep
<1> USE DEF Memset, link
<1>1. pshm = shm /\ shm \in Objects /\ shm # None
  BY NoneAssumption DEF RefInv, AtWork
<1>2. AtWork'
  BY <1>1 DEF RefInv, AtWork, Steady
<1>3. \A o \in Objects : o # shm => mem'[o] = mem[o]
  BY <1>1 DEF Write, ProxyInv, DataTypes
<1>4. FreeIsZero'
  BY <1>1, <1>3 DEF RefInv, FreeIsZero, MemoryInUse
<1>5. MemoryOK'
  BY <1>1 DEF Write, MemoryOK, ProxyInv, DataTypes
<1>6. ASSUME NEW r \in Readers PROVE CallOK(r)'
  <2>1. r \in raced' => rpc[r] = "copy" /\ r \in spoiled'
    BY <1>1, <1>6, InCall DEF Write, Copying, RefInv, CallOK, Outside
  <2>2. Outside(r)'
    BY <1>6, <2>1, InCall DEF RefInv, CallOK, Outside
  <2>3. Sound(r)' => Sound(r) /\ rshm[r] # shm /\ rshm[r] \in Objects
    BY <1>6, InCall DEF Sound
  <2> QED BY <1>3, <1>6, <2>2, <2>3
          DEF RefInv, CallOK, Sound, OldMemory, NewMemory, SameSemaphore
<1>7. Register!Fill
  BY SameCalls, SameAnswer DEF Register!Fill, AnswerOf
<1> QED BY <1>2, <1>4, <1>5, <1>6, <1>7 DEF RefInv, RegisterStep, Register!Next

\* sem_open: the calls that have a semaphore and have not met the filling have
\* this one.
LEMMA OpenSemaphoreKeeps == ASSUME ProxyInv, RefInv, OpenSemaphore PROVE RefInv' /\ RegisterStep
<1> USE DEF OpenSemaphore, link, readers, history
<1>1. pc = "sem" /\ pc' = "connect" /\ sem' \in Objects /\ (sem = None \/ sem' = sem) /\ psem' = sem'
  BY NamedIsObject DEF Named, Semaphore, ProxyInv, NameTypes
<1>2. AtWork'
  BY <1>1 DEF RefInv, AtWork, Steady
<1>3. FreeIsZero'
  BY DEF RefInv, FreeIsZero, MemoryInUse
<1>4. MemoryOK'
  BY <1>1 DEF RefInv, MemoryOK, AtWork, Steady
<1>5. ASSUME NEW r \in Readers PROVE CallOK(r)'
  <2>1. rpc[r] \in {"wait", "copy"} => rsem[r] # None
    BY <1>5, NoneAssumption DEF ProxyInv, Opened
  <2> QED BY <1>1, <1>5, <2>1
          DEF RefInv, CallOK, Outside, Sound, OldMemory, NewMemory, SameSemaphore
<1>6. UNCHANGED RegisterVars
  BY SameCalls, SameAnswer DEF RegisterVars
<1> QED BY <1>2, <1>3, <1>4, <1>5, <1>6 DEF RefInv, RegisterStep

\* While the semaphore is free, or the daemon has it, no sound call copies from
\* the memory that has the name.
LEMMA NoSoundCopy ==
  ASSUME ProxyInv, RefInv, pc \in {"wait", "copy"}, count[psem] > 0 \/ pc = "copy",
         NEW r \in Readers, rpc[r] = "copy", rshm[r] = shm
  PROVE  r \in spoiled
<1>1. psem = sem /\ sem \in Objects
  BY DEF RefInv, AtWork
<1>2. ~ReaderHolds(r, sem)
  <2>1. SemOK(sem)
    BY <1>1 DEF ProxyInv, Semaphores
  <2>2. count[sem] = 1 \/ DaemonHolds(sem)
    BY <1>1, <2>1 DEF SemOK, DaemonHolds
  <2> QED BY <2>1, <2>2 DEF SemOK
<1>3. CallOK(r)
  BY DEF RefInv
<1> QED BY <1>1, <1>2, <1>3, NoneAssumption DEF CallOK, SameSemaphore, Sound, ReaderHolds

\* update_shm: the memory is no longer whole, and the readers are kept out.
LEMMA WaitSemKeeps == ASSUME ProxyInv, RefInv, WaitSem PROVE RefInv' /\ RegisterStep
<1> USE DEF WaitSem, link, history
<1>1. pshm = shm /\ shm \in Objects /\ psem = sem /\ sem \in Objects
  BY DEF RefInv, AtWork, Steady
<1>2. AtWork'
  BY <1>1 DEF RefInv, AtWork, Steady
<1>3. \A o \in Objects : o # shm => mem'[o] = mem[o]
  BY <1>1 DEF Write, ProxyInv, DataTypes
<1>4. FreeIsZero'
  BY <1>1, <1>3 DEF RefInv, FreeIsZero, MemoryInUse
<1>5. MemoryOK'
  <2>1. count[sem] = 1 /\ SemOK(sem) /\ count'[sem] = 0
    BY <1>1 DEF Down, ProxyInv, Semaphores
  <2>2. Barred'
    BY <1>1, <2>1 DEF Barred, SemOK, ReaderHolds
  <2> QED BY <2>2 DEF MemoryOK
<1>6. ASSUME NEW r \in Readers PROVE CallOK(r)'
  <2>1. r \in raced' => rpc[r] = "copy" /\ r \in spoiled
    BY <1>1, <1>6, NoSoundCopy DEF Write, Copying, Down, RefInv, CallOK, Outside
  <2>2. Sound(r) => rshm[r] \in Objects
    BY <1>6 DEF Sound, ProxyInv, Opened
  <2> QED BY <1>1, <1>3, <1>6, <2>1, <2>2
          DEF RefInv, CallOK, Outside, Sound, OldMemory, NewMemory, SameSemaphore
<1>7. UNCHANGED RegisterVars
  BY SameCalls, SameAnswer DEF RegisterVars
<1> QED BY <1>2, <1>4, <1>5, <1>6, <1>7 DEF RefInv, RegisterStep

\* The end of update_shm: new_data is published.
LEMMA PostSemKeeps == ASSUME ProxyInv, RefInv, PostSem PROVE RefInv' /\ RegisterStep
<1> USE DEF PostSem, link
<1>1. pshm = shm /\ shm \in Objects /\ psem = sem /\ sem \in Objects
  BY DEF RefInv, AtWork, Steady
<1>2. AtWork'
  BY <1>1, NoneAssumption DEF RefInv, AtWork, Steady
<1>3. \A o \in Objects : o # shm => mem'[o] = mem[o]
  BY <1>1 DEF Write, ProxyInv, DataTypes
<1>4. mem'[shm] = new /\ value' = new /\ ~zeroing /\ zeroing' = zeroing
  BY <1>1 DEF Write, Publish, ProxyInv, DataTypes, RefInv, AtWork, Steady
<1>5. FreeIsZero'
  BY <1>1, <1>3 DEF RefInv, FreeIsZero, MemoryInUse
<1>6. MemoryOK'
  BY <1>4 DEF MemoryOK
<1>7. \A r \in Readers : view'[r] = IF r \in Attached THEN new ELSE view[r]
  BY DEF Publish
<1>8. ASSUME NEW r \in Readers PROVE CallOK(r)'
  <2>1. r \in raced' => rpc[r] = "copy" /\ r \in spoiled
    BY <1>1, <1>8, NoSoundCopy DEF Write, Copying, RefInv, CallOK, Outside
  <2>2. Outside(r)'
    BY <1>7, <1>8, <2>1, InCall DEF RefInv, CallOK, Outside
  <2>3. Sound(r) => rshm[r] \in Objects /\ r \in Active
    BY <1>8, InCall DEF Sound
  <2> QED BY <1>1, <1>3, <1>4, <1>7, <1>8, <2>2, <2>3, InCall
          DEF RefInv, CallOK, Sound, OldMemory, NewMemory, SameSemaphore
<1>9. Register!Publish(new)
  BY SameCalls, SameAnswer DEF Publish, Register!Publish, AnswerOf
<1>10. new \in Contents
  BY RecordForms DEF ProxyInv, DataTypes
<1> QED BY <1>2, <1>5, <1>6, <1>8, <1>9, <1>10 DEF RefInv, RegisterStep, Register!Next

\* cleanup_ipc: the semaphore loses its name, and those who have it open keep it.
LEMMA UnlinkSemKeeps == ASSUME ProxyInv, RefInv, UnlinkSem PROVE RefInv' /\ RegisterStep
<1> USE DEF UnlinkSem, link, readers, history
<1>1. pc = "unlink_sem" /\ pc' = "unlink_shm" /\ sem' = None
  OBVIOUS
<1>2. AtWork'
  BY <1>1 DEF RefInv, AtWork, Steady
<1>3. FreeIsZero'
  BY DEF RefInv, FreeIsZero, MemoryInUse
<1>4. MemoryOK'
  BY <1>1 DEF RefInv, MemoryOK
<1>5. ASSUME NEW r \in Readers PROVE CallOK(r)'
  BY <1>1, <1>5 DEF RefInv, CallOK, Outside, Sound, OldMemory, NewMemory, SameSemaphore
<1>6. UNCHANGED RegisterVars
  BY SameCalls, SameAnswer DEF RegisterVars
<1> QED BY <1>2, <1>3, <1>4, <1>5, <1>6 DEF RefInv, RegisterStep

\* A memory somebody has open keeps its contents, and the others become zeros.
LEMMA KeptMemory ==
  ASSUME ProxyInv, RefInv, KeepMemory,
         \A o \in Objects : o \in MemoryInUse' => o \in MemoryInUse
  PROVE  /\ FreeIsZero'
         /\ \A o \in Objects : o \in MemoryInUse' => mem'[o] = mem[o]
<1>1. \A o \in Objects : mem'[o] = IF o \in MemoryInUse' THEN mem[o] ELSE Zeros
  BY DEF KeepMemory
<1> QED BY <1>1 DEF FreeIsZero

\* cleanup_ipc: the memory loses its name; it is whole, for those who have it open.
LEMMA UnlinkShmKeeps == ASSUME ProxyInv, RefInv, UnlinkShm PROVE RefInv' /\ RegisterStep
<1> USE DEF UnlinkShm, Exit, readers
<1>1. shm \in Objects /\ ~zeroing /\ pc = "unlink_shm" /\ pc' = "dead"
  BY DEF RefInv, AtWork, Steady
<1>2. mem[shm] = value
  BY <1>1 DEF RefInv, MemoryOK
<1>3. AtWork'
  BY <1>1 DEF RefInv, AtWork, Steady
<1>4. /\ FreeIsZero'
      /\ \A o \in Objects : o \in MemoryInUse' => mem'[o] = mem[o]
  <2>1. \A o \in Objects : o \in MemoryInUse' => o \in MemoryInUse
    BY NoneAssumption DEF MemoryInUse
  <2> QED BY <2>1, KeptMemory
<1>5. MemoryOK'
  BY NoneAssumption DEF MemoryOK
<1>6. ASSUME NEW r \in Readers PROVE CallOK(r)'
  <2>1. Sound(r) => rshm[r] \in Objects /\ rshm[r] # None /\ mem'[rshm[r]] = mem[rshm[r]]
    <3>1. rshm[r] \in MemoryInUse'
      BY <1>6 DEF MemoryInUse
    <3> QED BY <1>4, <1>6, <3>1, InCall DEF Sound
  <2>2. Sound(r) => mem[rshm[r]] = view[r]
    BY <1>2, <1>6 DEF RefInv, CallOK, OldMemory, NewMemory
  <2> QED BY <1>6, <2>1, <2>2
          DEF RefInv, CallOK, Outside, Sound, OldMemory, NewMemory, SameSemaphore
<1>7. Register!Withdraw
  <2>1. Active' = Active
    BY DEF Active
  <2>2. Attached' = {}
    BY <2>1, InCall DEF Attached
  <2> QED BY <2>1, <2>2, SameAnswer DEF Register!Withdraw, AnswerOf
<1> QED BY <1>3, <1>4, <1>5, <1>6, <1>7 DEF RefInv, RegisterStep, Register!Next

\* The daemon is killed: what it was doing to the memory stays as it is.
LEMMA KillKeeps == ASSUME ProxyInv, RefInv, Kill PROVE RefInv' /\ RegisterStep
<1> USE DEF Kill, Exit, readers, history
<1>1. pc' = "dead" /\ shm' = shm /\ sem' = sem
  OBVIOUS
<1>2. AtWork'
  BY <1>1 DEF RefInv, AtWork, Steady
<1>3. /\ FreeIsZero'
      /\ \A o \in Objects : o \in MemoryInUse' => mem'[o] = mem[o]
  <2>1. \A o \in Objects : o \in MemoryInUse' => o \in MemoryInUse
    BY NoneAssumption DEF MemoryInUse
  <2> QED BY <2>1, KeptMemory
<1>4. MemoryOK'
  <2>1. shm \in Objects => mem'[shm] = mem[shm]
    BY <1>1, <1>3 DEF MemoryInUse
  <2>2. sem \in Objects => count'[sem] = count[sem]
    BY <1>1 DEF KeepSemaphores, SemaphoresInUse
  <2> QED BY <1>1, <2>1, <2>2 DEF RefInv, MemoryOK, Barred, ReaderHolds
<1>5. ASSUME NEW r \in Readers PROVE CallOK(r)'
  <2>1. Sound(r) => mem'[rshm[r]] = mem[rshm[r]]
    <3>1. rshm[r] \in MemoryInUse'
      BY <1>5 DEF MemoryInUse
    <3> QED BY <1>3, <1>5, <3>1, InCall DEF Sound
  <2>2. sem = None => pc \in {"shm", "memset", "memset_end", "sem", "unlink_shm", "dead"}
    BY NoneAssumption DEF RefInv, AtWork, ProxyInv, NameTypes, PCs
  <2> QED BY <1>1, <1>5, <2>1, <2>2
          DEF RefInv, CallOK, Outside, Sound, OldMemory, NewMemory, SameSemaphore
<1>6. UNCHANGED RegisterVars
  BY SameCalls, SameAnswer DEF RegisterVars
<1> QED BY <1>2, <1>3, <1>4, <1>5, <1>6 DEF RefInv, RegisterStep

(* The readers.                                                            *)

\* A step of one call leaves the others as they are.
LEMMA OtherCalls ==
  ASSUME ProxyInv, RefInv, NEW r \in Readers, NEW q \in Readers, q # r,
         UNCHANGED <<shm, sem, pc, value, zeroing>>,
         rpc'[q] = rpc[q], rshm'[q] = rshm[q], rsem'[q] = rsem[q], buf'[q] = buf[q],
         view'[q] = view[q], q \in spoiled' <=> q \in spoiled, q \in raced' <=> q \in raced,
         rshm[q] \in Objects => mem'[rshm[q]] = mem[rshm[q]]
  PROVE  CallOK(q)'
<1>1. Sound(q) => rshm[q] \in Objects
  BY InCall DEF Sound
<1> QED BY <1>1 DEF RefInv, CallOK, Outside, Sound, OldMemory, NewMemory, SameSemaphore

\* What the register sees of the end of a call.
LEMMA CallEnds ==
  ASSUME ProxyInv, RefInv, NEW r \in Readers, r \in Active, UNCHANGED shm, rpc'[r] \in {"idle", "post"},
         \A q \in Readers : q # r => rpc'[q] = rpc[q] /\ rshm'[q] = rshm[q]
  PROVE  Active' = Active \ {r} /\ Attached' = Attached \ {r}
<1>1. Active' = Active \ {r}
  BY DEF Active
<1> QED BY <1>1 DEF Attached, Active

\* A reader opens the memory that has the name.
LEMMA BeginReadKeeps ==
  ASSUME ProxyInv, RefInv, NEW r \in Readers, BeginRead(r)
  PROVE  RefInv' /\ RegisterStep
<1> USE DEF BeginRead, ipc, proxy, link
<1>1. /\ rpc[r] = "idle" /\ rpc' = [rpc EXCEPT ![r] = "sem"]
      /\ rshm' = [rshm EXCEPT ![r] = shm] /\ shm \in Objects /\ shm # None
      /\ rpc'[r] = "sem" /\ rshm'[r] = shm /\ view'[r] = value
      /\ (r \in spoiled' <=> r \in spoiled \/ zeroing)
  BY DEF ProxyInv, NameTypes, ReaderTypes, DataTypes
<1>2. \A q \in Readers : q # r => rpc'[q] = rpc[q] /\ rshm'[q] = rshm[q] /\ view'[q] = view[q]
  BY DEF ProxyInv, ReaderTypes, DataTypes
<1>3. AtWork'
  BY DEF RefInv, AtWork
<1>4. FreeIsZero'
  <2>1. rshm[r] = None
    BY <1>1 DEF RefInv, CallOK, Outside
  <2>2. \A o \in Objects : o \in MemoryInUse => o \in MemoryInUse'
    BY <1>2, <2>1, NoneAssumption DEF MemoryInUse
  <2> QED BY <2>2 DEF RefInv, FreeIsZero
<1>5. MemoryOK'
  BY <1>1, <1>2 DEF RefInv, MemoryOK, Barred, ReaderHolds
<1>6. ASSUME NEW q \in Readers PROVE CallOK(q)'
  <2>1. CASE q # r
    BY <1>2, <1>6, <2>1, OtherCalls
  <2>2. CASE q = r
    BY <1>1, <2>2 DEF RefInv, CallOK, Outside, Sound, OldMemory, NewMemory, SameSemaphore
  <2> QED BY <2>1, <2>2
<1>7. Register!Begin(r)
  <2>1. r \notin Active /\ Active' = Active \cup {r}
    BY <1>1, <1>2, InCall DEF Active
  <2>2. Attached' = Attached \cup {r}
    BY <1>1, <1>2, <2>1 DEF Attached
  <2>3. AnswerOf' = AnswerOf
    BY <1>1, <2>1 DEF AnswerOf, RefInv, CallOK, Outside
  <2> QED BY <2>1, <2>2, <2>3 DEF Register!Begin, AnswerOf
<1> QED BY <1>3, <1>4, <1>5, <1>6, <1>7 DEF RefInv, RegisterStep, Register!Next

\* sem_open and sem_wait of a reader: nothing the register sees.
LEMMA ReaderOpensKeeps ==
  ASSUME ProxyInv, RefInv, NEW r \in Readers, ReaderOpens(r)
  PROVE  RefInv' /\ RegisterStep
<1> USE DEF ReaderOpens, ipc, proxy, link, history
<1>1. rpc[r] = "sem" /\ rpc'[r] = "wait" /\ rsem'[r] = sem
  BY DEF ProxyInv, ReaderTypes
<1>2. \A q \in Readers : q # r => rpc'[q] = rpc[q] /\ rsem'[q] = rsem[q]
  BY DEF ProxyInv, ReaderTypes
<1>3. AtWork' /\ FreeIsZero'
  BY DEF RefInv, AtWork, FreeIsZero, MemoryInUse
<1>4. MemoryOK'
  BY <1>1, <1>2 DEF RefInv, MemoryOK, Barred, ReaderHolds
<1>5. ASSUME NEW q \in Readers PROVE CallOK(q)'
  <2>1. CASE q # r
    BY <1>2, <1>5, <2>1, OtherCalls
  <2>2. CASE q = r
    BY <1>1, <2>2 DEF RefInv, CallOK, Outside, Sound, OldMemory, NewMemory, SameSemaphore
  <2> QED BY <2>1, <2>2
<1>6. UNCHANGED RegisterVars
  <2>1. Active' = Active
    BY <1>1, <1>2 DEF Active
  <2> QED BY <2>1 DEF RegisterVars, Attached, AnswerOf
<1> QED BY <1>3, <1>4, <1>5, <1>6 DEF RefInv, RegisterStep

LEMMA ReaderWaitsKeeps ==
  ASSUME ProxyInv, RefInv, NEW r \in Readers, ReaderWaits(r)
  PROVE  RefInv' /\ RegisterStep
<1> USE DEF ReaderWaits, proxy, link, history
<1>1. rpc[r] = "wait" /\ rpc'[r] = "copy"
  BY DEF ProxyInv, ReaderTypes
<1>2. \A q \in Readers : q # r => rpc'[q] = rpc[q]
  BY DEF ProxyInv, ReaderTypes
<1>3. AtWork' /\ FreeIsZero'
  BY DEF RefInv, AtWork, FreeIsZero, MemoryInUse
<1>4. MemoryOK'
  <2>1. rsem[r] \in Objects /\ count[rsem[r]] = 1
    BY <1>1 DEF Down, ProxyInv, Opened, Semaphores
  <2>2. Barred => rsem[r] # sem
    BY <2>1 DEF Barred
  <2>3. sem \in Objects /\ rsem[r] # sem => count'[sem] = count[sem]
    BY <2>1 DEF Down, ProxyInv, Semaphores
  <2> QED BY <1>1, <1>2, <2>2, <2>3 DEF RefInv, MemoryOK, Barred, ReaderHolds
<1>5. ASSUME NEW q \in Readers PROVE CallOK(q)'
  <2>1. CASE q # r
    BY <1>2, <1>5, <2>1, OtherCalls
  <2>2. CASE q = r
    BY <1>1, <2>2 DEF RefInv, CallOK, Outside, Sound, OldMemory, NewMemory, SameSemaphore
  <2> QED BY <2>1, <2>2
<1>6. UNCHANGED RegisterVars
  <2>1. Active' = Active
    BY <1>1, <1>2 DEF Active
  <2> QED BY <2>1 DEF RegisterVars, Attached, AnswerOf
<1> QED BY <1>3, <1>4, <1>5, <1>6 DEF RefInv, RegisterStep

\* The copy of a sound call is what it is to return: the semaphore it holds is
\* not the one behind which the memory is not whole.
LEMMA SoundCopy ==
  ASSUME ProxyInv, RefInv, NEW r \in Readers, rpc[r] = "copy", r \notin spoiled
  PROVE  r \notin raced /\ mem[rshm[r]] = view[r]
<1>1. Sound(r) /\ CallOK(r) /\ rshm[r] \in Objects
  BY DEF Sound, RefInv, ProxyInv, Opened
<1>2. CASE rshm[r] # shm
  BY <1>1, <1>2 DEF CallOK, Outside, OldMemory
<1>3. CASE rshm[r] = shm
  <2>1. ~Barred
    BY <1>1, <1>3, NoneAssumption DEF CallOK, SameSemaphore, Barred, ReaderHolds, MemoryOK
  <2> QED BY <1>1, <1>3, <2>1 DEF CallOK, Outside, NewMemory, RefInv, MemoryOK
<1> QED BY <1>2, <1>3

\* get_weather_data copies the record.
LEMMA ReaderCopiesKeeps ==
  ASSUME ProxyInv, RefInv, NEW r \in Readers, ReaderCopies(r)
  PROVE  RefInv' /\ RegisterStep
<1> USE DEF ReaderCopies, Forget, ipc, proxy, link
<1>1. rpc[r] = "copy" /\ rpc'[r] = "post" /\ view'[r] = Zeros
  BY DEF ProxyInv, ReaderTypes, DataTypes
<1>2. \A q \in Readers : q # r =>
        /\ rpc'[q] = rpc[q] /\ rshm'[q] = rshm[q] /\ view'[q] = view[q] /\ buf'[q] = buf[q]
  BY DEF ProxyInv, ReaderTypes, DataTypes
<1>3. AtWork' /\ FreeIsZero'
  BY DEF RefInv, AtWork, FreeIsZero, MemoryInUse
<1>4. MemoryOK'
  BY <1>1, <1>2 DEF RefInv, MemoryOK, Barred, ReaderHolds
<1>5. ASSUME NEW q \in Readers PROVE CallOK(q)'
  <2>1. CASE q # r
    BY <1>2, <1>5, <2>1, OtherCalls
  <2>2. CASE q = r
    BY <1>1, <2>2 DEF RefInv, CallOK, Outside, Sound, OldMemory, NewMemory, SameSemaphore
  <2> QED BY <2>1, <2>2
<1>6. PICK a \in Contents : a = IF r \in raced THEN Torn ELSE mem[rshm[r]]
  BY <1>1, RecordForms DEF ProxyInv, Opened, DataTypes
<1>7. Register!Return(r, a)
  <2>1. a = view[r] \/ r \in spoiled
    BY <1>1, <1>6, SoundCopy
  <2>2. r \in Active /\ Active' = Active \ {r} /\ Attached' = Attached \ {r}
    BY <1>1, <1>2, InCall, CallEnds
  <2>3. AnswerOf' = [AnswerOf EXCEPT ![r] = a]
    <3>1. AnswerOf'[r] = a
      BY <1>6, <2>2 DEF AnswerOf, ProxyInv, DataTypes
    <3>2. ASSUME NEW q \in Readers, q # r PROVE AnswerOf'[q] = AnswerOf[q]
      BY <1>2, <2>2, <3>2 DEF AnswerOf
    <3>3. /\ AnswerOf = [q \in Readers |-> AnswerOf[q]]
          /\ AnswerOf' = [q \in Readers |-> AnswerOf'[q]]
      BY DEF AnswerOf
    <3> QED BY <3>1, <3>2, <3>3
  <2> QED BY <2>1, <2>2, <2>3 DEF Register!Return, Register!Leave, AnswerOf
<1>8. Register!Next
  BY <1>6, <1>7 DEF Register!Next
<1> QED BY <1>3, <1>4, <1>5, <1>8 DEF RefInv, RegisterStep

(* The ends of a call. *)

\* A reader has closed what it had open.
LEMMA ClosedKeeps ==
  ASSUME ProxyInv, RefInv, NEW r \in Readers, Close(r), UNCHANGED <<value, zeroing>>,
         view' = [view EXCEPT ![r] = Zeros], spoiled' = spoiled \ {r}, raced' = raced \ {r},
         Barred => count'[sem] = count[sem]
  PROVE  RefInv'
<1> USE DEF Close, proxy
<1>1. rpc'[r] = "idle" /\ view'[r] = Zeros /\ buf'[r] = Zeros /\ rshm'[r] = None
  BY DEF ProxyInv, ReaderTypes, DataTypes
<1>2. \A q \in Readers : q # r =>
        /\ rpc'[q] = rpc[q] /\ rshm'[q] = rshm[q] /\ rsem'[q] = rsem[q]
        /\ view'[q] = view[q] /\ buf'[q] = buf[q]
  BY DEF ProxyInv, ReaderTypes, DataTypes
<1>3. AtWork'
  BY DEF RefInv, AtWork
<1>4. /\ FreeIsZero'
      /\ \A o \in Objects : o \in MemoryInUse' => mem'[o] = mem[o]
  <2>1. \A o \in Objects : o \in MemoryInUse' => o \in MemoryInUse
    BY <1>1, <1>2, NoneAssumption DEF MemoryInUse
  <2> QED BY <2>1, KeptMemory
<1>5. MemoryOK'
  <2>1. shm \in Objects => mem'[shm] = mem[shm]
    BY <1>4 DEF MemoryInUse
  <2>2. Barred => Barred'
    BY <1>1, <1>2 DEF Barred, ReaderHolds
  <2> QED BY <2>1, <2>2 DEF RefInv, MemoryOK
<1>6. ASSUME NEW q \in Readers PROVE CallOK(q)'
  <2>1. CASE q # r
    <3>1. rshm[q] \in Objects => mem'[rshm[q]] = mem[rshm[q]]
      BY <1>2, <1>4, <2>1 DEF MemoryInUse
    <3> QED BY <1>2, <1>6, <2>1, <3>1, OtherCalls
  <2>2. CASE q = r
    BY <1>1, <2>2 DEF RefInv, CallOK, Outside, Sound, OldMemory, NewMemory, SameSemaphore
  <2> QED BY <2>1, <2>2
<1> QED BY <1>3, <1>4, <1>5, <1>6 DEF RefInv

\* What the register sees of it: a call that fails, or an answer that is dropped.
LEMMA ClosedStep ==
  ASSUME ProxyInv, RefInv, NEW r \in Readers, rpc[r] # "idle", Close(r),
         UNCHANGED <<value, zeroing>>,
         view' = [view EXCEPT ![r] = Zeros], spoiled' = spoiled \ {r}
  PROVE  RegisterStep
<1> USE DEF Close
<1>1. rpc'[r] = "idle" /\ buf'[r] = Zeros
  BY DEF ProxyInv, ReaderTypes, DataTypes
<1>2. \A q \in Readers : q # r =>
        rpc'[q] = rpc[q] /\ rshm'[q] = rshm[q] /\ buf'[q] = buf[q]
  BY DEF ProxyInv, ReaderTypes, DataTypes
<1>3. CASE r \in Active
  <2>1. Active' = Active \ {r} /\ Attached' = Attached \ {r}
    BY <1>1, <1>2, <1>3, CallEnds
  <2>2. AnswerOf' = AnswerOf
    BY <1>1, <1>2, <1>3, <2>1 DEF AnswerOf
  <2>3. Register!Fail(r)
    BY <1>3, <2>1, <2>2 DEF Register!Fail, Register!Leave, AnswerOf
  <2> QED BY <2>3 DEF RegisterStep, Register!Next
<1>4. CASE r \notin Active
  <2>1. Active' = Active
    BY <1>1, <1>2, <1>4 DEF Active
  <2>2. Attached' = Attached
    BY <1>2, <1>4, <2>1 DEF Attached
  <2>3. AnswerOf' = [AnswerOf EXCEPT ![r] = Zeros]
    <3>1. ASSUME NEW q \in Readers, q # r PROVE AnswerOf'[q] = AnswerOf[q]
      BY <1>2, <2>1, <3>1 DEF AnswerOf
    <3> QED BY <1>1, <1>4, <2>1, <3>1 DEF AnswerOf
  <2>4. view' = view /\ spoiled' = spoiled
    <3>1. r \notin spoiled /\ view[r] = Zeros
      BY <1>4, InCall DEF RefInv, CallOK, Outside, ProxyInv, ReaderTypes
    <3>2. view \in [Readers -> Records]
      BY DEF ProxyInv, DataTypes
    <3> QED BY <3>1, <3>2
  <2>5. Register!Drop(r)
    BY <2>1, <2>2, <2>3, <2>4 DEF Register!Drop, AnswerOf
  <2> QED BY <2>5 DEF RegisterStep, Register!Next
<1> QED BY <1>3, <1>4

LEMMA NoSemaphoreKeeps ==
  ASSUME ProxyInv, RefInv, NEW r \in Readers, NoSemaphore(r)
  PROVE  RefInv' /\ RegisterStep
<1> USE DEF NoSemaphore, Forget
<1>1. raced' = raced \ {r}
  BY DEF RefInv, CallOK, Outside
<1> QED BY <1>1, ClosedKeeps, ClosedStep

LEMMA ReaderPostsKeeps ==
  ASSUME ProxyInv, RefInv, NEW r \in Readers, ReaderPosts(r)
  PROVE  RefInv' /\ RegisterStep
<1> USE DEF ReaderPosts, history
<1>1. view' = [view EXCEPT ![r] = Zeros] /\ spoiled' = spoiled \ {r} /\ raced' = raced \ {r}
  <2>1. r \notin spoiled /\ view[r] = Zeros /\ r \notin raced
    BY DEF RefInv, CallOK, Outside
  <2>2. view \in [Readers -> Records]
    BY DEF ProxyInv, DataTypes
  <2> QED BY <2>1, <2>2
<1>2. Barred => count'[sem] = count[sem]
  <2>1. rsem[r] \in Objects /\ ReaderHolds(r, rsem[r])
    BY DEF ProxyInv, Opened, ReaderHolds
  <2>2. Barred => sem # rsem[r] /\ sem \in SemaphoresInUse'
    BY <2>1 DEF Barred, SemaphoresInUse, Close
  <2>3. Barred => Posted(rsem[r])[sem] = count[sem]
    BY <2>1, <2>2 DEF Posted, Barred, ProxyInv, Semaphores
  <2> QED BY <2>2, <2>3 DEF KeepSemaphores, Barred
<1> QED BY <1>1, <1>2, ClosedKeeps, ClosedStep

LEMMA KillReaderKeeps ==
  ASSUME ProxyInv, RefInv, NEW r \in Readers, KillReader(r)
  PROVE  RefInv' /\ RegisterStep
<1> USE DEF KillReader, Forget
<1>1. Barred => count'[sem] = count[sem]
  BY DEF KeepSemaphores, Barred, SemaphoresInUse, Close
<1> QED BY <1>1, ClosedKeeps, ClosedStep

-----------------------------------------------------------------------------
(* The refinement.                                                         *)

\* Nothing is published when nothing runs.
LEMMA RefStart == Init => RefInv /\ Register!Init
<1> SUFFICES ASSUME Init PROVE RefInv /\ Register!Init
  OBVIOUS
<1>1. AtWork /\ FreeIsZero /\ MemoryOK
  BY NoneAssumption DEF Init, AtWork, Steady, FreeIsZero, MemoryOK
<1>2. ASSUME NEW r \in Readers PROVE CallOK(r)
  BY <1>2 DEF Init, CallOK, Outside, Sound, OldMemory, NewMemory, SameSemaphore
<1>3. Active = {} /\ Attached = {}
  BY DEF Init, Active, Attached
<1>4. Register!Init
  BY <1>3, RecordForms DEF Init, Register!Init
<1> QED BY <1>1, <1>2, <1>4 DEF RefInv

\* Every step is one of the register, or none.
LEMMA RefNext == ASSUME ProxyInv, RefInv, Next PROVE RefInv' /\ RegisterStep
<1>1. CASE Connect \/ LeaveLoop \/ Reconnect \/ ReadLine \/ Fork \/ Signal \/ Server
  <2>1. UNCHANGED <<ipc, pshm, psem, readers, history>>
    BY <1>1 DEF Connect, LeaveLoop, Reconnect, ReadLine, Fork, Signal, Server, Answer,
                ServerFails, ServerStarts, proxy
  <2>2. \/ pc' = pc
        \/ pc = "connect" /\ pc' \in {"loop", "unlink_sem"}
        \/ pc = "loop" /\ pc' \in {"wait", "unlink_sem"}
        \/ pc = "dead" /\ pc' = "shm"
    BY <1>1 DEF Connect, LeaveLoop, Reconnect, LoseServer, ReadLine, LineWeather, LineTime,
                Fork, Signal, Server, Answer, ServerFails, ServerStarts, proxy
  <2> QED BY <2>1, <2>2, QuietKeeps
<1>2. ASSUME NEW r \in Readers, Reader(r) PROVE RefInv' /\ RegisterStep
  BY <1>2, BeginReadKeeps, NoSemaphoreKeeps, ReaderOpensKeeps, ReaderWaitsKeeps,
     ReaderCopiesKeeps, ReaderPostsKeeps, KillReaderKeeps DEF Reader
<1> QED BY <1>1, <1>2, OpenMemoryKeeps, MemsetKeeps, OpenSemaphoreKeeps, WaitSemKeeps,
           PostSemKeeps, UnlinkSemKeeps, UnlinkShmKeeps, KillKeeps DEF Next, Daemon

LEMMA RefStutter == ASSUME ProxyInv, RefInv, UNCHANGED vars PROVE RefInv' /\ RegisterStep
BY QuietKeeps DEF vars, proxy

\* init_ipc, update_shm, cleanup_ipc and get_weather_data, whatever is killed at
\* whatever moment, implement the register: for any number of readers, objects
\* and killed processes.
THEOREM ReadersSeeTheLast == Spec => ReadsAreCurrent
<1>1. ProxyInv /\ RefInv /\ [Next]_vars => RefInv' /\ RegisterStep
  BY RefNext, RefStutter
<1>2. RegisterStep => [Register!Next]_(Register!vars)
  BY DEF RegisterStep, RegisterVars, Register!vars, AnswerOf
<1>3. Init => RefInv /\ Register!Init
  BY RefStart
<1> QED BY <1>1, <1>2, <1>3, ProxyAlways, PTL DEF Spec, ReadsAreCurrent, Register!Spec

-----------------------------------------------------------------------------
(* What the readers are given: LevelIsHonest for the answers.               *)

\* A whole record in a memory, its name taken or not, and what a reader has
\* copied are honest.
HonestCopies ==
  /\ \A o \in Objects : mem[o] # Torn => Honest(mem[o])
  /\ \A r \in Readers : buf[r] # Torn => Honest(buf[r])

\* The record that a call of r comes to return is honest; it may be torn if
\* the call met the memset of a new daemon.
HonestAnswer(r) ==
  rpc[r] = "copy" /\ rpc'[r] = "post" =>
    \/ buf'[r] \in Records /\ Honest(buf'[r])
    \/ r \in spoiled

\* The memory changes by a memset, an update, or when the kernel frees it.
LEMMA MemoryIsHonest ==
  ASSUME ProxyInv, HonestCopies, [Next]_vars, NEW o \in Objects, mem'[o] # Torn
  PROVE  Honest(mem'[o])
<1>1. Honest(Zeros) /\ (Honest(mem[o]) \/ mem[o] = Torn)
  BY DEF Honest, Zeros, HonestCopies
<1>2. CASE Memset \/ WaitSem
  BY <1>1, <1>2 DEF Memset, WaitSem, Write, ProxyInv, DataTypes, HonestCopies, Honest, Zeros
<1>3. CASE PostSem
  <2>1. Honest(new) /\ mem'[o] \in {new, mem[o]}
    BY <1>3 DEF PostSem, Write, ProxyInv, HonestInv, DataTypes
  <2> QED BY <2>1 DEF HonestCopies
<1>4. CASE KeepMemory
  BY <1>4 DEF KeepMemory, HonestCopies, Honest, Zeros
<1>5. CASE UNCHANGED mem
  BY <1>5 DEF HonestCopies
<1>6. UNCHANGED mem \/ KeepMemory \/ Memset \/ WaitSem \/ PostSem
  BY DEF Next, Daemon, Server, Reader, OpenMemory, OpenSemaphore, Connect, LeaveLoop,
         Reconnect, ReadLine, UnlinkSem, UnlinkShm, Fork, Signal, Kill, Answer, ServerFails,
         ServerStarts, BeginRead, NoSemaphore, Close, ReaderOpens, ReaderWaits, ReaderCopies,
         ReaderPosts, KillReader, vars, ipc
<1> QED BY <1>2, <1>3, <1>4, <1>5, <1>6

\* A buffer is filled from the memory and emptied at the end of the call.
LEMMA BuffersAreHonest ==
  ASSUME ProxyInv, HonestCopies, [Next]_vars, NEW r \in Readers, buf'[r] # Torn
  PROVE  Honest(buf'[r])
<1>1. CASE \E q \in Readers : ReaderCopies(q)
  <2>1. PICK q \in Readers : ReaderCopies(q)
    BY <1>1
  <2>2. rshm[q] \in Objects /\ buf' = [buf EXCEPT ![q] = IF q \in raced THEN Torn ELSE mem[rshm[q]]]
    BY <2>1 DEF ReaderCopies, ProxyInv, Opened
  <2> QED BY <2>2 DEF ProxyInv, DataTypes, HonestCopies
<1>2. CASE \E q \in Readers : Close(q)
  <2>1. buf'[r] \in {buf[r], Zeros}
    BY <1>2 DEF Close, ProxyInv, DataTypes
  <2> QED BY <2>1 DEF HonestCopies, Honest, Zeros
<1>3. CASE UNCHANGED buf
  BY <1>3 DEF HonestCopies
<1>4. \/ UNCHANGED buf
      \/ \E q \in Readers : ReaderCopies(q)
      \/ \E q \in Readers : Close(q)
  BY DEF Next, Daemon, Server, Reader, OpenMemory, Memset, OpenSemaphore, Connect, LeaveLoop,
         Reconnect, ReadLine, WaitSem, PostSem, UnlinkSem, UnlinkShm, Fork, Signal, Kill, Answer,
         ServerFails, ServerStarts, BeginRead, NoSemaphore, ReaderOpens, ReaderWaits,
         ReaderPosts, KillReader, vars, readers
<1> QED BY <1>1, <1>2, <1>3, <1>4

\* The copy is the record of the register, or at least one of the memory's.
LEMMA AnswerNext ==
  ASSUME ProxyInv, RefInv, HonestCopies, [Next]_vars, NEW r \in Readers
  PROVE  HonestAnswer(r)
<1> SUFFICES ASSUME rpc[r] = "copy", rpc'[r] = "post", r \notin spoiled
             PROVE  buf'[r] \in Records /\ Honest(buf'[r])
  BY DEF HonestAnswer
<1>1. ReaderCopies(r)
  <2>1. \A q \in Readers : q # r /\ Reader(q) => rpc'[r] = rpc[r]
    BY DEF Reader, BeginRead, NoSemaphore, Close, ReaderOpens, ReaderWaits, ReaderCopies,
           ReaderPosts, KillReader, ProxyInv, ReaderTypes
  <2>2. Reader(r) => ReaderCopies(r)
    BY DEF Reader, BeginRead, NoSemaphore, Close, ReaderOpens, ReaderWaits, ReaderPosts,
           KillReader, ProxyInv, ReaderTypes
  <2>3. Daemon \/ Server \/ UNCHANGED vars => rpc' = rpc
    BY DEF Daemon, Server, OpenMemory, Memset, OpenSemaphore, Connect, LeaveLoop, Reconnect,
           ReadLine, WaitSem, PostSem, UnlinkSem, UnlinkShm, Fork, Signal, Kill, Answer,
           ServerFails, ServerStarts, vars, readers
  <2> QED BY <2>1, <2>2, <2>3 DEF Next
<1>2. buf'[r] = view[r] /\ view[r] \in Records
  BY <1>1, SoundCopy DEF ReaderCopies, ProxyInv, DataTypes
<1>3. view[r] # Torn
  BY <1>2, RecordForms, Numbers DEF Torn
<1> QED BY <1>2, <1>3, BuffersAreHonest

\* get_weather_data gives no level that opens the domes with a time other than
\* its own, whatever was lost or killed on the way from the weather server.
THEOREM AnswersAreHonest == Spec => [][\A r \in Readers : HonestAnswer(r)]_vars
<1>1. Init => HonestCopies
  BY DEF Init, HonestCopies, Honest, Zeros
<1>2. ProxyInv /\ HonestCopies /\ [Next]_vars => HonestCopies'
  BY MemoryIsHonest, BuffersAreHonest DEF HonestCopies, Honest
<1>3. ProxyInv /\ RefInv /\ HonestCopies /\ [Next]_vars
        => [\A r \in Readers : HonestAnswer(r)]_vars
  BY AnswerNext
<1>4. ProxyInv /\ RefInv /\ [Next]_vars => RefInv'
  BY RefNext, RefStutter
<1>5. Init => RefInv
  BY RefStart
<1> QED BY <1>1, <1>2, <1>3, <1>4, <1>5, ProxyAlways, PTL DEF Spec

-----------------------------------------------------------------------------
(* A semaphore that was left taken. *)

\* The proxy waits for a semaphore that nobody is to post.
Deserted(s) == s \in Objects /\ count[s] = 0 /\ \A r \in Readers : ~ReaderHolds(r, s)
DesertedStep ==
  pc = "wait" /\ Deserted(psem) =>
    \/ pc' = "wait" /\ psem' = psem /\ Deserted(psem)' /\ value' = value
    \/ kills' > kills /\ pc' = "dead"

\* The kernel keeps the value of a semaphore that the proxy has open.
LEMMA SemKept ==
  ASSUME NEW c, KeepSemaphores(c), psem \in Objects, UNCHANGED psem
  PROVE  count'[psem] = c[psem]
BY DEF KeepSemaphores, SemaphoresInUse

LEMMA DesertedNext == ASSUME ProxyInv, Next PROVE DesertedStep
<1> SUFFICES ASSUME pc = "wait", Deserted(psem)
             PROVE  \/ pc' = "wait" /\ psem' = psem /\ Deserted(psem)' /\ value' = value
                    \/ kills' > kills /\ pc' = "dead"
  BY DEF DesertedStep
<1> DEFINE s == psem
<1>1. s \in Objects /\ count[s] = 0 /\ psem \in SemaphoresInUse
      /\ \A r \in Readers : ~ReaderHolds(r, s)
  BY DEF Deserted, SemaphoresInUse
<1>2. CASE Kill
  BY <1>2 DEF Kill, Exit, ProxyInv, NameTypes, DataTypes, FlagTypes, LinkTypes
<1>3. ASSUME Daemon, ~Kill PROVE Signal
  BY <1>1, <1>3 DEF Daemon, OpenMemory, Memset, OpenSemaphore, Connect, LeaveLoop, Reconnect,
     ReadLine, WaitSem, Down, PostSem, UnlinkSem, UnlinkShm, Fork
<1>4. CASE Signal \/ Server
  BY <1>1, <1>4 DEF Signal, Server, Answer, ServerFails, ServerStarts, ipc, proxy, readers,
     history, Deserted, ReaderHolds
<1>5. ASSUME NEW r \in Readers, Reader(r)
      PROVE  pc' = "wait" /\ psem' = psem /\ Deserted(psem)' /\ value' = value
  <2>1. pc' = pc /\ psem' = psem /\ value' = value
    BY <1>5 DEF Reader, BeginRead, NoSemaphore, Close, Forget, ReaderOpens, ReaderWaits,
       ReaderCopies, ReaderPosts, KillReader, proxy, history
  <2>2. count'[s] = 0
    <3>1. CASE ReaderWaits(r)
      BY <1>1, <3>1 DEF ReaderWaits, Down, ProxyInv, Semaphores
    <3>2. CASE ReaderPosts(r)
      <4>1. rsem[r] # s
        BY <1>1, <3>2 DEF ReaderPosts, ReaderHolds
      <4>2. Posted(rsem[r])[s] = count[s]
        BY <1>1, <4>1 DEF Posted, ProxyInv, Semaphores
      <4> QED BY <1>1, <2>1, <3>2, <4>2, SemKept DEF ReaderPosts
    <3>3. CASE KillReader(r)
      BY <1>1, <2>1, <3>3, SemKept DEF KillReader
    <3> QED BY <1>1, <1>5, <3>1, <3>2, <3>3 DEF Reader, BeginRead, NoSemaphore, ReaderOpens,
          ReaderCopies, ipc
  <2>3. ASSUME NEW q \in Readers PROVE ~ReaderHolds(q, s)'
    <3> USE DEF ReaderHolds, ProxyInv, ReaderTypes
    <3>1. CASE BeginRead(r) \/ ReaderOpens(r) \/ ReaderCopies(r)
      BY <1>1, <2>1, <3>1 DEF BeginRead, ReaderOpens, ReaderCopies
    <3>2. CASE ReaderWaits(r)
      BY <1>1, <2>1, <3>2 DEF ReaderWaits, Down
    <3>3. CASE Close(r)
      BY <1>1, <2>1, <3>3 DEF Close
    <3> QED BY <1>5, <3>1, <3>2, <3>3 DEF Reader, NoSemaphore, ReaderPosts, KillReader
  <2> QED BY <1>1, <2>1, <2>2, <2>3 DEF Deserted
<1> QED BY <1>2, <1>3, <1>4, <1>5 DEF Next

\* update_shm: a proxy that meets a semaphore which a killed process left at 0 waits
\* for it, and publishes nothing, until it is killed itself.
THEOREM DesertedIsForever == Spec => [][DesertedStep]_vars
<1>1. ProxyInv /\ [Next]_vars => [DesertedStep]_vars
  BY DesertedNext
<1> QED BY <1>1, ProxyAlways, PTL DEF Spec
=============================================================================
