------------------------- MODULE WeatherData_proofs -------------------------
(***************************************************************************)
(* The ranks of the stations are kept, however many stations there are, and *)
(* the maxima of the wind are those of what was measured, however long the *)
(* ring, the day and the hour are.                                         *)
(***************************************************************************)
EXTENDS WeatherDataProps, TLAPS, WellFoundedInduction

\* The sense of the collected value is that of some station, or still BROKEN.
FromStation ==
  collected.sense = VAL_BROKEN \/ \E s \in Sensors : collected.sense = Sense[s]

\* What a station of the highest rank gave last is not newer than the collected
\* value: nothing makes fix_new_data refuse it.
HighestIsHeard ==
  ~clash => \A s \in Sensors : Highest(s) => given[s] <= collected.time

RankTypes ==
  /\ now \in Nat /\ clash \in BOOLEAN
  /\ collected.time \in Int /\ collected.sense \in Int
  /\ given \in [Sensors -> Int]

RankInv == RankTypes /\ FromStation /\ HighestIsHeard /\ ImportantWins

\* The constants are numbers.
LEMMA Numbers ==
  /\ Sense \in [Sensors -> 0..2] /\ ahtung_delay \in Nat /\ Late \subseteq Nat
  /\ Epoch \in Int
BY WeatherDataAssumption, SenseAssumption
   DEF VAL_FORCEDSHTDN, VAL_RECOMMENDED, Epoch

\* A value newer than the collected one is taken unless it is outranked.
LEMMA Fixed ==
  ASSUME NEW c, NEW fresh, NEW force, c.time \in Int, fresh.time \in Int, c.time < fresh.time
  PROVE  fix_new_data(c, fresh, force) = IF Outranks(c, fresh) THEN c ELSE fresh
<1>1. ~(c.time >= fresh.time)
  OBVIOUS
<1> QED BY <1>1 DEF fix_new_data

\* fix_new_data gives one of its two values.
LEMMA OneOfTwo ==
  ASSUME NEW c, NEW fresh, NEW force
  PROVE  fix_new_data(c, fresh, force) \in {c, fresh}
BY DEF fix_new_data

\* Nothing was heard when the daemon starts.
LEMMA RankInit == InitData => RankInv
<1> SUFFICES ASSUME InitData PROVE RankInv
  OBVIOUS
<1>1. collected.time = Epoch /\ collected.sense = VAL_BROKEN
  BY DEF InitData, Nothing
<1>2. \A s \in Sensors : given[s] = Epoch
  BY DEF InitData
<1>3. RankTypes
  <2>1. now = 0 /\ clash = FALSE /\ given = [s \in Sensors |-> Epoch]
    BY DEF InitData
  <2>2. given \in [Sensors -> Int]
    BY <2>1, Numbers
  <2>3. now \in Nat /\ clash \in BOOLEAN
    BY <2>1
  <2>4. collected.time \in Int /\ collected.sense \in Int
    BY <1>1, Numbers DEF VAL_BROKEN
  <2> QED BY <2>2, <2>3, <2>4 DEF RankTypes
<1>4. HighestIsHeard
  BY <1>1, <1>2, Numbers DEF HighestIsHeard
<1> QED BY <1>1, <1>2, <1>3, <1>4 DEF RankInv, FromStation, ImportantWins

\* The step of a value: one case for a value that is refused, one for a value
\* that is taken, and in both the sender and the other stations of the rank.
LEMMA RankSample ==
  ASSUME RankInv, NEW s \in Sensors, Sample(s)
  PROVE  RankInv'
<1>1. PICK v \in Speeds, late \in Late, force \in {FALSE, TRUE} :
        LET fresh == [sense |-> Sense[s], time |-> now - late, val |-> v]
        IN /\ collected' = fix_new_data(collected, fresh, force)
           /\ given' = [given EXCEPT ![s] = fresh.time]
           /\ clash' = (clash \/ fresh.time <= collected.time)
  <2>1. PICK v \in Speeds, late \in Late : \E force \in {FALSE, v >= BadSpeed} :
          LET fresh == [sense |-> Sense[s], time |-> now - late, val |-> v]
          IN /\ collected' = fix_new_data(collected, fresh, force)
             /\ given' = [given EXCEPT ![s] = fresh.time]
             /\ clash' = (clash \/ fresh.time <= collected.time)
    BY DEF Sample
  <2>2. (v >= BadSpeed) \in BOOLEAN
    OBVIOUS
  <2> QED BY <2>1, <2>2
<1> DEFINE fresh == [sense |-> Sense[s], time |-> now - late, val |-> v]
<1>2. /\ fresh.time \in Int /\ fresh.sense = Sense[s] /\ Sense[s] \in 0..2
      /\ collected' \in {collected, fresh}
      /\ now' = now
  <2>1. now' = now
    BY DEF Sample
  <2>2. now \in Nat /\ late \in Nat
    BY Numbers DEF RankInv, RankTypes
  <2>3. collected' \in {collected, fresh}
    BY <1>1, OneOfTwo
  <2> QED BY <2>1, <2>2, <2>3, Numbers
<1>3. RankTypes'
  <2>1. clash' \in BOOLEAN /\ given' \in [Sensors -> Int]
    BY <1>1, <1>2 DEF RankInv, RankTypes
  <2> QED BY <1>2, <2>1 DEF RankInv, RankTypes
<1>4. FromStation'
  BY <1>2 DEF RankInv, FromStation
<1>5. ASSUME ~clash' PROVE
        \A t \in Sensors : Highest(t) =>
          /\ given'[t] <= collected'.time
          /\ given'[t] # Epoch /\ collected'.time - given'[t] <= ahtung_delay =>
               collected'.sense = Sense[t]
  <2>1. ~clash /\ collected.time < fresh.time
    <3>1. ~clash /\ ~(fresh.time <= collected.time)
      BY <1>1, <1>5, Zenon
    <3> QED BY <1>2, <3>1 DEF RankInv, RankTypes
  <2>2. collected' = IF Outranks(collected, fresh) THEN collected ELSE fresh
    BY <1>1, <1>2, <2>1, Fixed DEF RankInv, RankTypes
  <2>3. SUFFICES ASSUME NEW t \in Sensors, Highest(t)
                 PROVE  /\ given'[t] <= collected'.time
                        /\ given'[t] # Epoch /\ collected'.time - given'[t] <= ahtung_delay =>
                             collected'.sense = Sense[t]
    OBVIOUS
  <2>4. /\ given[t] \in Int /\ given[t] <= collected.time
        /\ given[t] # Epoch /\ collected.time - given[t] <= ahtung_delay =>
             collected.sense = Sense[t]
    BY <2>1, <2>3 DEF RankInv, RankTypes, HighestIsHeard, ImportantWins
  <2>5. Sense[t] \in 0..2 /\ Sense[t] <= Sense[s]
    BY <2>3, Numbers DEF Highest
  <2>6. CASE t = s
    <3>1. ~Outranks(collected, fresh)
      <4>1. collected.sense = 4 \/ \E u \in Sensors : collected.sense = Sense[u]
        BY DEF RankInv, FromStation, VAL_BROKEN
      <4>2. \A u \in Sensors : Sense[s] <= Sense[u] /\ Sense[u] \in 0..2
        BY <2>3, <2>6, Numbers DEF Highest
      <4> QED BY <1>2, <4>1, <4>2 DEF Outranks
    <3>2. given'[t] = fresh.time
      BY <1>1, <2>6 DEF RankInv, RankTypes
    <3> QED BY <1>2, <2>2, <2>6, <3>1, <3>2
  <2>7. CASE t # s
    <3>1. given'[t] = given[t]
      BY <1>1, <2>7 DEF RankInv, RankTypes
    <3>2. CASE Outranks(collected, fresh)
      BY <2>2, <2>4, <3>1, <3>2
    <3>3. CASE ~Outranks(collected, fresh)
      <4>1. collected' = fresh
        BY <2>2, <3>3
      <4>2. collected.sense >= Sense[s] \/ fresh.time - collected.time > ahtung_delay
        BY <1>2, <3>3, Numbers DEF Outranks, RankInv, RankTypes
      <4>3. collected.time \in Int /\ collected.sense \in Int /\ ahtung_delay \in Nat
        BY Numbers DEF RankInv, RankTypes
      <4> QED BY <1>2, <2>1, <2>4, <2>5, <3>1, <4>1, <4>2, <4>3
    <3> QED BY <3>2, <3>3
  <2> QED BY <2>6, <2>7
<1>6. HighestIsHeard' /\ ImportantWins'
  BY <1>5 DEF HighestIsHeard, ImportantWins, Highest
<1> QED BY <1>3, <1>4, <1>6 DEF RankInv

\* Time passes, or a value comes.
LEMMA RankNext == ASSUME RankInv PROVE [NextData]_dataVars => RankInv'
<1>1. ASSUME Second PROVE RankInv'
  BY <1>1 DEF RankInv, RankTypes, FromStation, HighestIsHeard, ImportantWins, Highest, Second
<1>2. ASSUME UNCHANGED dataVars PROVE RankInv'
  BY <1>2 DEF RankInv, RankTypes, FromStation, HighestIsHeard, ImportantWins, Highest, dataVars
<1> QED BY <1>1, <1>2, RankSample DEF NextData

\* A station that no other outranks is believed while it is heard, for any
\* number of stations, senses and delays.
THEOREM ImportantWinsAlways == SpecData => []ImportantWins
<1>1. RankInv /\ [NextData]_dataVars => RankInv'
  BY RankNext
<1>2. RankInv => ImportantWins
  BY DEF RankInv
<1> QED BY RankInit, <1>1, <1>2, PTL DEF SpecData


-----------------------------------------------------------------------------
(* The sliding maximum. First, numbers. *)

\* The size of the ring; every proof below looks through the name.
N == MAX_HISTORY
USE DEF N

\* A set of numbers has a least one.
LEMMA Least == ASSUME NEW T \in SUBSET Nat, T # {} PROVE \E m \in T : \A k \in T : m <= k
<1> DEFINE R == {ss \in Nat \X Nat : ss[1] < ss[2]}
<1>1. IsWellFoundedOn(R, Nat)
  BY NatLessThanWellFounded, Zenon DEF OpToRel
<1>2. \A k, m \in Nat : k < m => <<k, m>> \in R
  OBVIOUS
<1>3. T \subseteq Nat
  OBVIOUS
<1> HIDE DEF R
<1>4. PICK m \in T : \A k \in T : ~(<<k, m>> \in R)
  BY <1>1, <1>3, WFMin, Zenon
<1>5. \A k \in T : ~(k < m)
  BY <1>2, <1>3, <1>4
<1> QED BY <1>3, <1>5

\* The numbers below q that have a property, as far as they reach from the
\* beginning, and from the end.
LEMMA FromBeginning ==
  ASSUME NEW q \in Nat, NEW P
  PROVE  \E n \in 0..q : (\A k \in 0..n - 1 : k \in P) /\ (n < q => n \notin P)
<1> DEFINE T == {n \in 0..q : n = q \/ n \notin P}
<1>1. T \in SUBSET Nat /\ q \in T
  OBVIOUS
<1>2. PICK n \in T : \A k \in T : n <= k
  BY <1>1, Least
<1>3. n \in 0..q /\ (n < q => n \notin P)
  OBVIOUS
<1>4. ASSUME NEW k \in 0..n - 1 PROVE k \in P
  BY <1>2, <1>3
<1> QED BY <1>3, <1>4

LEMMA FromEnd ==
  ASSUME NEW q \in Nat, NEW P
  PROVE  \E n \in 0..q : (\A k \in n..q - 1 : k \in P) /\ (n > 0 => n - 1 \notin P)
<1> DEFINE T == {n \in 0..q : \A k \in n..q - 1 : k \in P}
<1>1. T \in SUBSET Nat /\ q \in T
  OBVIOUS
<1>2. PICK n \in T : \A k \in T : n <= k
  BY <1>1, Least
<1>3. n \in 0..q /\ \A k \in n..q - 1 : k \in P
  OBVIOUS
<1>4. ASSUME n > 0, n - 1 \in P PROVE FALSE
  <2>1. n - 1 \in T
    BY <1>3, <1>4
  <2> QED BY <1>2, <1>3, <2>1
<1> QED BY <1>3, <1>4

(* Numbers of the ring, turned once at most. *)

\* The ring has two places at least.
LEMMA Size == N \in Nat /\ N > 1 /\ Index = 0..N - 1
BY WeatherDataAssumption DEF Index

\* What % makes of a number that is at most one turn away.
LEMMA Turned ==
  /\ \A x \in 0..N - 1 : x % N = x
  /\ \A x \in N..2 * N - 1 : x % N = x - N
  /\ \A x \in -N..-1 : x % N = x + N
  /\ \A x \in Int : x % N \in Index
<1>1. N \in Nat \ {0}
  BY Size
<1>2. ASSUME NEW x \in 0..N - 1 PROVE x % N = x
  BY <1>1
<1>3. ASSUME NEW x \in N..2 * N - 1 PROVE x % N = x - N
  BY <1>1
<1>4. ASSUME NEW x \in -N..-1 PROVE x % N = x + N
  BY <1>1
<1>5. ASSUME NEW x \in Int PROVE x % N \in Index
  BY <1>1, Size
<1> QED BY <1>2, <1>3, <1>4, <1>5

\* The place k after the head, and the places between head and tail.
LEMMA Places ==
  ASSUME NEW h \in Index
  PROVE  /\ \A k \in 0..N - 1 : (h + k) % N \in Index /\ (((h + k) % N) - h) % N = k
         /\ \A k, l \in 0..N - 1 : k # l => (h + k) % N # (h + l) % N
         /\ \A n, k \in 0..N - 1 : n + k < N => (((h + n) % N) + k) % N = (h + (n + k)) % N
<1>1. h \in 0..N - 1 /\ N \in Nat /\ N > 1
  BY Size
<1>2. ASSUME NEW k \in 0..N - 1
      PROVE  (h + k < N /\ (h + k) % N = h + k) \/ (h + k >= N /\ (h + k) % N = h + k - N)
  BY <1>1, Turned
<1>3. ASSUME NEW k \in 0..N - 1 PROVE (h + k) % N \in Index /\ (((h + k) % N) - h) % N = k
  <2>3. (h + k) % N \in Index
    <3>1. h + k \in Int
      BY <1>1
    <3> QED BY <3>1, Turned
  <2>1. CASE h + k < N
    <3>1. ((h + k) % N) - h = k
      BY <1>1, <1>2, <2>1
    <3>2. k % N = k
      BY Turned
    <3> QED BY <2>3, <3>1, <3>2
  <2>2. CASE h + k >= N
    <3>1. ((h + k) % N) - h = k - N
      BY <1>1, <1>2, <2>2
    <3>2. (k - N) % N = k
      BY <1>1, <2>2, Turned
    <3> QED BY <2>3, <3>1, <3>2
  <2> QED BY <1>1, <2>1, <2>2
<1>4. ASSUME NEW k \in 0..N - 1, NEW l \in 0..N - 1, k # l PROVE (h + k) % N # (h + l) % N
  BY <1>1, <1>2, <1>4
<1>5. ASSUME NEW n \in 0..N - 1, NEW k \in 0..N - 1, n + k < N
      PROVE  (((h + n) % N) + k) % N = (h + (n + k)) % N
  <2>1. n + k \in 0..N - 1
    BY <1>1, <1>5
  <2>2. CASE h + n < N
    <3>1. (h + n) % N = h + n
      BY <1>1, <1>2, <2>2
    <3>2. ((h + n) % N) + k = h + (n + k)
      BY <1>1, <1>5, <3>1
    <3> QED BY <3>2, Zenon
  <2>3. CASE h + n >= N
    <3>1. ((h + n) % N) + k = h + (n + k) - N /\ h + (n + k) >= N
      BY <1>1, <1>2, <2>3
    <3>2. h + (n + k) - N \in 0..N - 1
      BY <1>1, <1>5, <3>1
    <3>3. (h + (n + k) - N) % N = h + (n + k) - N
      BY <3>2, Turned
    <3>4. (h + (n + k)) % N = h + (n + k) - N
      BY <1>1, <1>2, <2>1, <3>1
    <3>5. ((h + n) % N) + k = h + (n + k) - N
      BY <3>1
    <3>6. (((h + n) % N) + k) % N = (h + (n + k) - N) % N
      BY <3>5, Zenon
    <3> QED BY <3>3, <3>4, <3>6, Zenon
  <2>4. h + n < N \/ h + n >= N
    BY <1>1, <1>5
  <2> QED BY <2>2, <2>3, <2>4, Zenon
<1> QED BY <1>3, <1>4, <1>5

\* The way from the head to the tail.
LEMMA Between ==
  ASSUME NEW h \in Index, NEW t \in Index
  PROVE  (t - h) % N \in 0..N - 1 /\ (h + ((t - h) % N)) % N = t
<1>1. h \in 0..N - 1 /\ t \in 0..N - 1 /\ N \in Nat /\ N > 1
  BY Size
<1>2. CASE t >= h
  <2>1. (t - h) % N = t - h
    BY <1>1, <1>2, Turned
  <2>2. t % N = t
    BY <1>1, Turned
  <2> QED BY <1>1, <1>2, <2>1, <2>2
<1>3. CASE t < h
  <2>1. (t - h) % N = t - h + N
    BY <1>1, <1>3, Turned
  <2>2. (t + N) % N = t
    BY <1>1, Turned
  <2>3. h + (t - h + N) = t + N
    BY <1>1
  <2> QED BY <1>1, <1>3, <2>1, <2>2, <2>3
<1> QED BY <1>1, <1>2, <1>3

-----------------------------------------------------------------------------
(* What the parts of add_windspeed do to the ring. *)

\* The fields of the ring.
SlidingMaximum ==
  [speeds : [Index -> Nat], timestamps : [Index -> Int], write_idx : Index,
   deq : [Index -> Index], deq_head : Index, deq_tail : Index]

\* The queue is no longer than the ring less one, and of indices.
LEMMA Queue ==
  ASSUME NEW sm \in SlidingMaximum
  PROVE  /\ Queued(sm) \in 0..N - 1 /\ Queued(sm) \in Nat
         /\ sm.deq_head \in Index /\ sm.deq_tail \in Index /\ sm.deq \in [Index -> Index]
         /\ (sm.deq_head + Queued(sm)) % N = sm.deq_tail
         /\ \A k \in 0..N - 1 : At(sm, k) \in Index
         /\ \A k \in 0..Queued(sm) - 1 : At(sm, k) \in Index
<1>1. sm.deq_head \in Index /\ sm.deq_tail \in Index /\ sm.deq \in [Index -> Index]
  BY DEF SlidingMaximum
<1>2. Queued(sm) \in 0..N - 1 /\ (sm.deq_head + Queued(sm)) % N = sm.deq_tail
  BY <1>1, Between, Zenon DEF Queued
<1>3. ASSUME NEW k \in 0..N - 1 PROVE At(sm, k) \in Index
  BY <1>1, Size, Places DEF At
<1>4. Queued(sm) \in Nat /\ \A k \in 0..Queued(sm) - 1 : k \in 0..N - 1
  BY <1>2, Size
<1> QED BY <1>1, <1>2, <1>3, <1>4

\* The values dropped from the head are those older than cutoff, as far as they
\* reach; the rest of the queue is as before.
LEMMA OldDropped ==
  ASSUME NEW sm \in SlidingMaximum, NEW cutoff \in Int
  PROVE  LET e == Expired(sm, cutoff)
             sn == DropOld(sm, cutoff)
         IN /\ e \in 0..Queued(sm)
            /\ \A k \in 0..e - 1 : TooOldAt(sm, k, cutoff)
            /\ e < Queued(sm) => ~TooOldAt(sm, e, cutoff)
            /\ sn \in SlidingMaximum
            /\ sn.speeds = sm.speeds /\ sn.timestamps = sm.timestamps
            /\ sn.write_idx = sm.write_idx
            /\ Queued(sn) = Queued(sm) - e
            /\ \A k \in 0..Queued(sn) - 1 : At(sn, k) = At(sm, k + e)
<1> DEFINE e == Expired(sm, cutoff)
<1> DEFINE sn == DropOld(sm, cutoff)
<1> DEFINE q == Queued(sm)
<1> DEFINE h == sm.deq_head
<1> DEFINE t == sm.deq_tail
<1>1. q \in 0..N - 1 /\ h \in Index /\ t \in Index /\ q \in Nat
  BY Queue
<1>0. N \in Nat
  BY Size
<1>2. /\ e \in 0..q
      /\ \A k \in 0..e - 1 : TooOldAt(sm, k, cutoff)
      /\ e < q => ~TooOldAt(sm, e, cutoff)
  <2> DEFINE Old == {k \in 0..q : TooOldAt(sm, k, cutoff)}
  <2>1. PICK n \in 0..q : (\A k \in 0..n - 1 : k \in Old) /\ (n < q => n \notin Old)
    <3> HIDE DEF Old, q
    <3> QED BY <1>1, FromBeginning
  <2>2. n \in 0..q /\ (\A k \in 0..n - 1 : TooOldAt(sm, k, cutoff)) /\ (n < q => ~TooOldAt(sm, n, cutoff))
    BY <2>1
  <2> QED BY <2>2 DEF Expired
<1>3. /\ sn.speeds = sm.speeds /\ sn.timestamps = sm.timestamps
      /\ sn.write_idx = sm.write_idx /\ sn.deq = sm.deq /\ sn.deq_tail = t
      /\ sn.deq_head = (h + e) % N
  BY DEF DropOld, SlidingMaximum
<1> HIDE DEF e
<1>4. e \in 0..N - 1 /\ (h + e) % N \in Index
  BY <1>0, <1>1, <1>2, Places
<1>5. sn \in SlidingMaximum
  <2> HIDE DEF h
  <2>1. sn = [sm EXCEPT !.deq_head = (h + e) % N]
    BY DEF DropOld, e, h
  <2> HIDE DEF sn
  <2> QED BY <1>4, <2>1 DEF SlidingMaximum
<1> HIDE DEF sn
<1>6. (h + q) % N = t
  BY Queue
<1>7. Queued(sn) = q - e
  <2>1. q - e \in 0..N - 1 /\ e + (q - e) < N /\ e + (q - e) = q
    BY <1>0, <1>1, <1>2
  <2>2. (((h + e) % N) + (q - e)) % N = (h + (e + (q - e))) % N
    BY <1>1, <1>4, <2>1, Places
  <2>3. (((h + e) % N) + (q - e)) % N = t
    BY <1>6, <2>1, <2>2
  <2>4. (t - ((h + e) % N)) % N = q - e
    <3> DEFINE g == (h + e) % N
    <3>1. g \in Index
      BY <1>4
    <3> HIDE DEF g
    <3>2. (((g + (q - e)) % N) - g) % N = q - e
      BY <2>1, <3>1, Places
    <3>3. (g + (q - e)) % N = t
      BY <2>3 DEF g
    <3>4. (t - g) % N = q - e
      BY <3>2, <3>3
    <3> QED BY <3>4, Zenon DEF g
  <2> QED BY <1>3, <2>4, Zenon DEF Queued
<1>8. ASSUME NEW k \in 0..Queued(sn) - 1 PROVE At(sn, k) = At(sm, k + e)
  <2>1. k \in 0..N - 1 /\ e + k < N /\ e + k = k + e
    BY <1>0, <1>1, <1>2, <1>7
  <2>2. (((h + e) % N) + k) % N = (h + (e + k)) % N
    BY <1>1, <1>4, <2>1, Places
  <2> QED BY <1>3, <2>1, <2>2 DEF At
<1> QED BY <1>2, <1>3, <1>5, <1>7, <1>8 DEF e, sn

\* The values dropped from the tail are those not greater than speed; the rest
\* of the queue is as before.
LEMMA SmallDropped ==
  ASSUME NEW sm \in SlidingMaximum, NEW speed \in Nat
  PROVE  LET n == Kept(sm, speed)
             sn == DropSmall(sm, speed)
         IN /\ n \in 0..Queued(sm)
            /\ \A k \in n..Queued(sm) - 1 : sm.speeds[At(sm, k)] <= speed
            /\ n > 0 => sm.speeds[At(sm, n - 1)] > speed
            /\ sn \in SlidingMaximum
            /\ sn.speeds = sm.speeds /\ sn.timestamps = sm.timestamps
            /\ sn.write_idx = sm.write_idx
            /\ Queued(sn) = n
            /\ \A k \in 0..n - 1 : At(sn, k) = At(sm, k)
<1> DEFINE n == Kept(sm, speed)
<1> DEFINE sn == DropSmall(sm, speed)
<1> DEFINE q == Queued(sm)
<1> DEFINE h == sm.deq_head
<1>1. q \in 0..N - 1 /\ h \in Index /\ q \in Nat /\ \A k \in 0..q - 1 : At(sm, k) \in Index
  BY Queue
<1>0. N \in Nat
  BY Size
<1>2. /\ n \in 0..q
      /\ \A k \in n..q - 1 : sm.speeds[At(sm, k)] <= speed
      /\ n > 0 => sm.speeds[At(sm, n - 1)] > speed
  <2> DEFINE Small == {k \in 0..q : sm.speeds[At(sm, k)] <= speed}
  <2>1. PICK m \in 0..q : (\A k \in m..q - 1 : k \in Small) /\ (m > 0 => m - 1 \notin Small)
    <3> HIDE DEF Small, q
    <3> QED BY <1>1, FromEnd
  <2>2. ASSUME m > 0 PROVE sm.speeds[At(sm, m - 1)] > speed
    <3>1. m - 1 \in 0..q - 1 /\ m - 1 \in 0..q
      BY <1>1, <2>2
    <3>2. At(sm, m - 1) \in Index
      BY <1>1, <3>1
    <3>3. sm.speeds[At(sm, m - 1)] \in Nat
      BY <3>2 DEF SlidingMaximum
    <3>4. ~(sm.speeds[At(sm, m - 1)] <= speed)
      BY <2>1, <2>2, <3>1
    <3> QED BY <3>3, <3>4
  <2>3. m \in 0..q /\ (\A k \in m..q - 1 : sm.speeds[At(sm, k)] <= speed)
    BY <2>1
  <2> QED BY <2>2, <2>3 DEF Kept
<1>3. /\ sn.speeds = sm.speeds /\ sn.timestamps = sm.timestamps
      /\ sn.write_idx = sm.write_idx /\ sn.deq = sm.deq /\ sn.deq_head = h
      /\ sn.deq_tail = (h + n) % N
  BY DEF DropSmall, SlidingMaximum
<1> HIDE DEF n
<1>4. n \in 0..N - 1 /\ (h + n) % N \in Index
  BY <1>0, <1>1, <1>2, Places
<1>5. sn \in SlidingMaximum
  <2> HIDE DEF h
  <2>1. sn = [sm EXCEPT !.deq_tail = (h + n) % N]
    BY DEF DropSmall, n, h
  <2> HIDE DEF sn
  <2> QED BY <1>4, <2>1 DEF SlidingMaximum
<1> HIDE DEF sn
<1>6. Queued(sn) = n
  BY <1>1, <1>3, <1>4, Places DEF Queued
<1>7. \A k \in 0..n - 1 : At(sn, k) = At(sm, k)
  BY <1>3 DEF At
<1> QED BY <1>2, <1>3, <1>5, <1>6, <1>7 DEF n, sn

\* The index comes last, unless the queue is full already.
LEMMA OneQueued ==
  ASSUME NEW sm \in SlidingMaximum, NEW i \in Index
  PROVE  LET sn == Enqueued(sm, i)
         IN /\ sn \in SlidingMaximum
            /\ sn.speeds = sm.speeds /\ sn.timestamps = sm.timestamps
            /\ sn.write_idx = sm.write_idx
            /\ Queued(sm) + 1 < N =>
                 /\ Queued(sn) = Queued(sm) + 1
                 /\ At(sn, Queued(sm)) = i
                 /\ \A k \in 0..Queued(sm) - 1 : At(sn, k) = At(sm, k)
<1> DEFINE sn == Enqueued(sm, i)
<1> DEFINE q == Queued(sm)
<1> DEFINE h == sm.deq_head
<1> DEFINE t == sm.deq_tail
<1>1. /\ q \in 0..N - 1 /\ h \in Index /\ t \in Index /\ q \in Nat
      /\ sm.deq \in [Index -> Index]
  BY Queue
<1>0. N \in Nat /\ 1 \in 0..N - 1
  BY Size
<1>2. /\ sn.speeds = sm.speeds /\ sn.timestamps = sm.timestamps
      /\ sn.write_idx = sm.write_idx /\ sn.deq = [sm.deq EXCEPT ![t] = i] /\ sn.deq_head = h
      /\ sn.deq_tail = (t + 1) % N
  BY DEF Enqueued, SlidingMaximum
<1>3. (t + 1) % N \in Index
  BY <1>0, <1>1, Places
<1>4. sn \in SlidingMaximum
  <2> HIDE DEF t
  <2>1. sn = [sm EXCEPT !.deq = [@ EXCEPT ![t] = i], !.deq_tail = (t + 1) % N]
    BY DEF Enqueued, t, SlidingMaximum
  <2> HIDE DEF sn
  <2> QED BY <1>1, <1>3, <2>1 DEF SlidingMaximum
<1> HIDE DEF sn
<1>5. (h + q) % N = t
  BY Queue
<1>6. ASSUME q + 1 < N
      PROVE  /\ Queued(sn) = q + 1
             /\ At(sn, q) = i
             /\ \A k \in 0..q - 1 : At(sn, k) = At(sm, k)
  <2>1. q + 1 \in 0..N - 1
    BY <1>0, <1>1, <1>6
  <2>2. (((h + q) % N) + 1) % N = (h + (q + 1)) % N
    BY <1>0, <1>1, <1>6, Places
  <2>3. (t + 1) % N = (h + (q + 1)) % N
    BY <1>5, <2>2
  <2>4. (((h + (q + 1)) % N) - h) % N = q + 1
    BY <1>1, <2>1, Places
  <2>5. Queued(sn) = q + 1
    BY <1>2, <2>3, <2>4 DEF Queued
  <2>6. At(sn, q) = i
    BY <1>1, <1>2, <1>5 DEF At
  <2>7. ASSUME NEW k \in 0..q - 1 PROVE At(sn, k) = At(sm, k)
    <3>1. k \in 0..N - 1 /\ k # q
      BY <1>0, <1>1
    <3>2. (h + k) % N # t /\ (h + k) % N \in Index
      BY <1>1, <1>5, <3>1, Places
    <3> QED BY <1>1, <1>2, <3>2 DEF At
  <2> QED BY <2>5, <2>6, <2>7
<1> QED BY <1>2, <1>4, <1>6 DEF sn

-----------------------------------------------------------------------------
(* The ring and the log. *)

\* The place written a values ago.
Place(w, a) == (w - 1 - a) % N

\* Writing moves every value one place back; the place after the last is free.
LEMMA WrittenPlaces ==
  ASSUME NEW w \in Index
  PROVE  /\ (w + 1) % N \in Index
         /\ \A a \in 0..N - 2 : Place(w, a) \in Index /\ Place(w, a) # w
         /\ Place((w + 1) % N, 0) = w
         /\ \A a \in 0..N - 2 : Place((w + 1) % N, a + 1) = Place(w, a)
<1>1. w \in 0..N - 1 /\ N \in Nat /\ N > 1 /\ 1 \in 0..N - 1
  BY Size
<1>2. ASSUME NEW x \in Index, NEW a \in 0..N - 1
      PROVE  /\ x - 1 - a >= 0 => Place(x, a) = x - 1 - a
             /\ x - 1 - a < 0 => Place(x, a) = x - 1 - a + N
  <2>1. x \in 0..N - 1
    BY Size
  <2>2. CASE x - 1 - a >= 0
    <3>1. x - 1 - a \in 0..N - 1
      BY <1>1, <2>1, <2>2
    <3> QED BY <2>2, <3>1, Turned DEF Place
  <2>3. CASE x - 1 - a < 0
    <3>1. x - 1 - a \in -N..-1
      BY <1>1, <2>1, <2>3
    <3>2. Place(x, a) = x - 1 - a + N
      BY <3>1, Turned DEF Place
    <3> QED BY <2>3, <3>1, <3>2
  <2> QED BY <1>1, <2>1, <2>2, <2>3
<1>3. /\ (w + 1) % N \in Index
      /\ w < N - 1 => (w + 1) % N = w + 1
      /\ w = N - 1 => (w + 1) % N = 0
  <2>1. (w + 1) % N \in Index
    BY <1>1, Turned
  <2>2. ASSUME w < N - 1 PROVE (w + 1) % N = w + 1
    BY <1>1, <2>2, Turned
  <2>3. ASSUME w = N - 1 PROVE (w + 1) % N = 0
    BY <1>1, <2>3, Turned
  <2> QED BY <2>1, <2>2, <2>3
<1> DEFINE y == (w + 1) % N
<1>4. y \in Index /\ (w < N - 1 => y = w + 1) /\ (w = N - 1 => y = 0)
  BY <1>3
<1> HIDE DEF y
<1>5. ASSUME NEW a \in 0..N - 2 PROVE Place(w, a) \in Index /\ Place(w, a) # w
  <2>1. a \in 0..N - 1
    BY <1>1
  <2>2. Place(w, a) # w
    BY <1>1, <1>2, <2>1
  <2>3. Place(w, a) \in 0..N - 1
    BY <1>1, <1>2, <2>1
  <2> QED BY <2>2, <2>3, Size
<1>6. Place(y, 0) = w
  <2>1. 0 \in 0..N - 1
    BY <1>1
  <2> QED BY <1>1, <1>2, <1>4, <2>1
<1>7. ASSUME NEW a \in 0..N - 2 PROVE Place(y, a + 1) = Place(w, a)
  <2>1. a \in 0..N - 1 /\ a + 1 \in 0..N - 1
    BY <1>1
  <2>2. CASE w < N - 1
    BY <1>1, <1>2, <1>4, <2>1, <2>2
  <2>3. CASE w = N - 1
    BY <1>1, <1>2, <1>4, <2>1, <2>3
  <2> QED BY <1>1, <2>2, <2>3
<1> QED BY <1>4, <1>5, <1>6, <1>7 DEF y

\* A speed of the log.
Entry == [speed : Nat, time : Int]

\* Speeds are logged as they come.
Ordered(lg) == \A i, j \in 1..Len(lg) : i <= j => lg[i].time <= lg[j].time

\* The history holds every speed of the log.
Held(sm, lg) ==
  \A j \in 1..Len(lg) : LET i == Place(sm.write_idx, Len(lg) - j)
                         IN sm.speeds[i] = lg[j].speed /\ sm.timestamps[i] = lg[j].time

\* The k-th of the queue is the p[k]-th of the log.  They come in the order of
\* the log, each smaller than those before, and every speed of the log is
\* covered by one that came with it or later and is not smaller.
Stands(sm, lg, p) ==
  /\ \A k \in 0..Queued(sm) - 1 : At(sm, k) = Place(sm.write_idx, Len(lg) - p[k])
  /\ \A k, l \in 0..Queued(sm) - 1 : k < l =>
       p[k] + (l - k) <= p[l] /\ lg[p[k]].speed > lg[p[l]].speed
  /\ \A j \in 1..Len(lg) : \E k \in 0..Queued(sm) - 1 :
       j <= p[k] /\ lg[j].speed <= lg[p[k]].speed

\* The ring is the sliding maximum of the log.
RingOK(sm, lg) ==
  /\ Len(lg) < N
  /\ Held(sm, lg)
  /\ \E p \in [0..Queued(sm) - 1 -> 1..Len(lg)] : Stands(sm, lg, p)

\* A value written to the history leaves the queue alone.
LEMMA OneWritten ==
  ASSUME NEW sm \in SlidingMaximum, NEW v \in Nat, NEW t \in Int
  PROVE  LET sn == Written(sm, v, t)
         IN /\ sn \in SlidingMaximum
            /\ sn.speeds = [sm.speeds EXCEPT ![sm.write_idx] = v]
            /\ sn.timestamps = [sm.timestamps EXCEPT ![sm.write_idx] = t]
            /\ sn.write_idx = (sm.write_idx + 1) % N
            /\ Queued(sn) = Queued(sm)
            /\ \A k \in Int : At(sn, k) = At(sm, k)
<1> DEFINE sn == Written(sm, v, t)
<1> DEFINE w == sm.write_idx
<1>1. /\ w \in Index /\ sm.speeds \in [Index -> Nat] /\ sm.timestamps \in [Index -> Int]
  BY DEF SlidingMaximum
<1>2. (w + 1) % N \in Index
  BY <1>1, WrittenPlaces
<1>3. /\ sn.speeds = [sm.speeds EXCEPT ![w] = v] /\ sn.timestamps = [sm.timestamps EXCEPT ![w] = t]
      /\ sn.write_idx = (w + 1) % N
      /\ sn.deq = sm.deq /\ sn.deq_head = sm.deq_head /\ sn.deq_tail = sm.deq_tail
  BY DEF Written, SlidingMaximum
<1>4. sn \in SlidingMaximum
  <2>1. [sm.speeds EXCEPT ![w] = v] \in [Index -> Nat] /\ [sm.timestamps EXCEPT ![w] = t] \in [Index -> Int]
    BY <1>1
  <2>2. sn = [sm EXCEPT !.speeds = [sm.speeds EXCEPT ![w] = v], !.timestamps = [sm.timestamps EXCEPT ![w] = t],
                        !.write_idx = (w + 1) % N]
    BY DEF Written, SlidingMaximum
  <2> HIDE DEF sn, w
  <2> QED BY <1>2, <2>1, <2>2 DEF SlidingMaximum
<1>5. Queued(sn) = Queued(sm)
  BY <1>3 DEF Queued
<1>6. \A k \in Int : At(sn, k) = At(sm, k)
  BY <1>3 DEF At
<1> QED BY <1>3, <1>4, <1>5, <1>6

\* The n speeds of the log that have become too old are gone and the new one is added.
Renewed(lg, ln, n, v, t) ==
  /\ n <= Len(lg)
  /\ \A i \in 1..Len(lg) : lg[i].time < t - TOO_OLD_DATA <=> i <= n
  /\ Len(ln) = Len(lg) - n + 1
  /\ \A j \in 1..Len(lg) - n : ln[j] = lg[j + n]
  /\ ln[Len(ln)] = [speed |-> v, time |-> t]

\* add_windspeed keeps the queue the sliding maximum of the log, as long as the
\* log is shorter than the ring.
LEMMA OneAdded ==
  ASSUME NEW sm \in SlidingMaximum, NEW v \in Nat, NEW t \in Int,
         NEW lg \in Seq(Entry), NEW ln \in Seq(Entry), NEW n \in Nat,
         RingOK(sm, lg), Renewed(lg, ln, n, v, t), Len(ln) < N
  PROVE  RingOK(add_windspeed(sm, v, t), ln)
<1> DEFINE cutoff == t - TOO_OLD_DATA
<1> DEFINE w == sm.write_idx
<1> DEFINE m == Len(lg)
<1> DEFINE q == Queued(sm)
<1> DEFINE s1 == Written(sm, v, t)
<1> DEFINE s2 == DropOld(s1, cutoff)
<1> DEFINE s3 == DropSmall(s2, v)
<1> DEFINE s4 == Enqueued(s3, w)
<1> DEFINE e == Expired(s1, cutoff)
<1> DEFINE c == Kept(s2, v)
<1>1. add_windspeed(sm, v, t) = s4
  BY DEF add_windspeed
<1>2. PICK p \in [0..q - 1 -> 1..m] : Stands(sm, lg, p)
  BY DEF RingOK
<1>3. /\ cutoff \in Int /\ w \in Index /\ m \in Nat /\ q \in Nat /\ q <= N - 1 /\ N \in Nat /\ N > 1
      /\ m < N /\ n \in Nat /\ n <= m /\ Len(ln) = m - n + 1 /\ m - n + 1 < N
  <2>1. cutoff \in Int
    BY WeatherDataAssumption
  <2>2. w \in Index
    BY DEF SlidingMaximum
  <2>3. q \in 0..N - 1
    BY Queue
  <2> QED BY <2>1, <2>2, <2>3, Size DEF RingOK, Renewed
<1>4. /\ \A i \in 1..m : lg[i].speed \in Nat /\ lg[i].time \in Int
      /\ \A i \in 1..m : lg[i].time < cutoff <=> i <= n
  <2>1. \A i \in 1..m : lg[i] \in Entry
    OBVIOUS
  <2>2. \A i \in 1..m : lg[i].time < cutoff <=> i <= n
    BY DEF Renewed
  <2> QED BY <2>1, <2>2 DEF Entry
<1>5. /\ s1 \in SlidingMaximum
      /\ s1.speeds = [sm.speeds EXCEPT ![w] = v]
      /\ s1.timestamps = [sm.timestamps EXCEPT ![w] = t]
      /\ s1.write_idx = (w + 1) % N
      /\ Queued(s1) = q
      /\ \A k \in Int : At(s1, k) = At(sm, k)
  BY OneWritten
<1>6. /\ e \in 0..q
      /\ \A k \in 0..e - 1 : TooOldAt(s1, k, cutoff)
      /\ e < q => ~TooOldAt(s1, e, cutoff)
      /\ s2 \in SlidingMaximum
      /\ s2.speeds = s1.speeds /\ s2.timestamps = s1.timestamps
      /\ s2.write_idx = s1.write_idx
      /\ Queued(s2) = q - e
      /\ \A k \in 0..q - e - 1 : At(s2, k) = At(s1, k + e)
  <2> HIDE DEF s1, q, cutoff
  <2> QED BY <1>3, <1>5, OldDropped
<1>7. /\ c \in 0..q - e
      /\ \A k \in c..q - e - 1 : s2.speeds[At(s2, k)] <= v
      /\ c > 0 => s2.speeds[At(s2, c - 1)] > v
      /\ s3 \in SlidingMaximum
      /\ s3.speeds = s2.speeds /\ s3.timestamps = s2.timestamps
      /\ s3.write_idx = s2.write_idx
      /\ Queued(s3) = c
      /\ \A k \in 0..c - 1 : At(s3, k) = At(s2, k)
  <2> HIDE DEF s2, q, e
  <2> QED BY <1>3, <1>6, SmallDropped
<1>8. /\ s4.speeds = s3.speeds /\ s4.timestamps = s3.timestamps
      /\ s4.write_idx = s3.write_idx
      /\ c + 1 < N => /\ Queued(s4) = c + 1
                      /\ At(s4, c) = w
                      /\ \A k \in 0..c - 1 : At(s4, k) = At(s3, k)
  <2> HIDE DEF s3, c, w
  <2> QED BY <1>3, <1>7, OneQueued
<1> HIDE DEF s1, s2, s3, s4, e, c, q, w, m, cutoff
<1>9. /\ \A a \in 0..N - 2 : Place(w, a) \in Index /\ Place(w, a) # w
      /\ Place((w + 1) % N, 0) = w
      /\ \A a \in 0..N - 2 : Place((w + 1) % N, a + 1) = Place(w, a)
  BY <1>3, WrittenPlaces
<1>10. ASSUME NEW j \in 1..m
       PROVE  LET i == Place(w, m - j)
              IN /\ i \in Index /\ i # w
                 /\ s1.speeds[i] = lg[j].speed /\ s1.timestamps[i] = lg[j].time
  <2>1. m - j \in 0..N - 2
    BY <1>3
  <2>2. Place(w, m - j) \in Index /\ Place(w, m - j) # w
    BY <1>9, <2>1
  <2>3. sm.speeds \in [Index -> Nat] /\ sm.timestamps \in [Index -> Int]
    BY DEF SlidingMaximum
  <2>4. sm.speeds[Place(w, m - j)] = lg[j].speed /\ sm.timestamps[Place(w, m - j)] = lg[j].time
    BY DEF RingOK, Held, w, m
  <2> QED BY <1>5, <2>2, <2>3, <2>4
<1>11. /\ \A k \in 0..q - 1 : p[k] \in 1..m /\ At(sm, k) = Place(w, m - p[k])
       /\ \A k, l \in 0..q - 1 : k < l => p[k] + (l - k) <= p[l] /\ lg[p[k]].speed > lg[p[l]].speed
       /\ \A j \in 1..m : \E k \in 0..q - 1 : j <= p[k] /\ lg[j].speed <= lg[p[k]].speed
  <2>1. \A k \in 0..q - 1 : p[k] \in 1..m
    BY <1>2
  <2>2. Stands(sm, lg, p)
    BY <1>2
  <2> QED BY <2>1, <2>2 DEF Stands, q, m, w
<1>12. ASSUME NEW k \in 0..q - 1
       PROVE  /\ At(s1, k) = Place(w, m - p[k])
              /\ s1.speeds[At(s1, k)] = lg[p[k]].speed
              /\ TooOldAt(s1, k, cutoff) <=> p[k] <= n
  <2>1. At(s1, k) = Place(w, m - p[k]) /\ p[k] \in 1..m
    BY <1>5, <1>11
  <2>2. s1.speeds[At(s1, k)] = lg[p[k]].speed /\ s1.timestamps[At(s1, k)] = lg[p[k]].time
    BY <1>10, <2>1
  <2>3. lg[p[k]].time < cutoff <=> p[k] <= n
    BY <1>4, <2>1
  <2> QED BY <2>1, <2>2, <2>3 DEF TooOldAt
\* The queue loses those that are gone from the log.
<1>13. ASSUME NEW k \in 0..q - 1 PROVE k < e <=> p[k] <= n
  <2>1. CASE k < e
    <3>1. k \in 0..e - 1
      BY <1>3, <1>6, <2>1
    <3> QED BY <1>6, <1>12, <2>1, <3>1
  <2>2. CASE ~(k < e)
    <3>1. e \in 0..q - 1 /\ e < q /\ e <= k /\ e \in Nat
      BY <1>3, <1>6, <2>2
    <3>2. ~(p[e] <= n)
      BY <1>6, <1>12, <3>1
    <3>3. p[e] <= p[k] /\ p[e] \in 1..m /\ p[k] \in 1..m
      <4>1. p[e] \in 1..m /\ p[k] \in 1..m
        BY <1>11, <3>1
      <4>2. CASE e = k
        BY <1>3, <4>1, <4>2
      <4>3. CASE e < k
        <5>1. p[e] + (k - e) <= p[k] /\ k - e > 0 /\ k - e \in Int
          BY <1>11, <3>1, <4>3
        <5>2. \A x, y, d \in Int : x + d <= y /\ d > 0 => x <= y
          OBVIOUS
        <5> QED BY <1>3, <4>1, <5>1, <5>2
      <4> QED BY <3>1, <4>2, <4>3
    <3> QED BY <1>3, <2>2, <3>2, <3>3
  <2> QED BY <2>1, <2>2
<1>14. ASSUME NEW k \in 0..q - e - 1
       PROVE  /\ k + e \in 0..q - 1 /\ p[k + e] \in 1..m /\ p[k + e] > n
              /\ At(s2, k) = Place(w, m - p[k + e])
              /\ s2.speeds[At(s2, k)] = lg[p[k + e]].speed
  <2>1. k + e \in 0..q - 1 /\ ~(k + e < e)
    BY <1>3, <1>6
  <2>2. p[k + e] \in 1..m
    BY <1>11, <2>1
  <2>3. ~(p[k + e] <= n)
    BY <1>13, <2>1
  <2>4. p[k + e] > n
    <3>1. \A x \in 1..m : ~(x <= n) => x > n
      BY <1>3
    <3> QED BY <2>2, <2>3, <3>1
  <2>5. At(s1, k + e) = Place(w, m - p[k + e]) /\ s1.speeds[At(s1, k + e)] = lg[p[k + e]].speed
    BY <1>12, <2>1
  <2>6. At(s2, k) = At(s1, k + e) /\ s2.speeds = s1.speeds
    BY <1>6
  <2> QED BY <2>1, <2>2, <2>4, <2>5, <2>6
\* What is left of it is greater than the new speed, and shorter than the log.
<1>15. /\ c \in Nat /\ q - e \in Nat /\ c <= q - e
       /\ \A k \in 0..c - 1 : lg[p[k + e]].speed > v
       /\ \A k \in c..q - e - 1 : lg[p[k + e]].speed <= v
       /\ c <= m - n /\ e \in Nat
  <2>1. e \in Nat /\ c \in Nat /\ q - e \in Nat /\ c <= q - e
    BY <1>3, <1>6, <1>7
  <2>2. ASSUME NEW k \in c..q - e - 1 PROVE lg[p[k + e]].speed <= v
    <3>1. k \in 0..q - e - 1
      BY <2>1
    <3> QED BY <1>7, <1>14, <3>1
  <2>3. ASSUME c > 0 PROVE lg[p[(c - 1) + e]].speed > v
    <3>1. c - 1 \in 0..q - e - 1
      BY <2>1, <2>3
    <3> QED BY <1>7, <1>14, <2>3, <3>1
  <2>4. ASSUME NEW k \in 0..c - 1 PROVE lg[p[k + e]].speed > v
    <3>1. /\ k \in 0..q - e - 1 /\ c - 1 \in 0..q - e - 1 /\ c > 0
      BY <2>1
    <3>2. /\ k + e \in 0..q - 1 /\ (c - 1) + e \in 0..q - 1
          /\ p[k + e] \in 1..m /\ p[(c - 1) + e] \in 1..m
      BY <1>14, <3>1
    <3>3. lg[p[k + e]].speed \in Nat /\ lg[p[(c - 1) + e]].speed \in Nat
      BY <1>4, <3>2
    <3>4. k = c - 1 \/ k + e < (c - 1) + e
      BY <1>3, <1>6, <2>1
    <3>5. CASE k = c - 1
      BY <2>3, <3>1, <3>5
    <3>6. CASE k + e < (c - 1) + e
      <4>1. lg[p[k + e]].speed > lg[p[(c - 1) + e]].speed
        BY <1>11, <3>2, <3>6
      <4> QED BY <2>3, <3>1, <3>3, <4>1
    <3> QED BY <3>4, <3>5, <3>6
  <2>5. c <= m - n
    <3>1. CASE c = 0
      BY <1>3, <3>1
    <3>2. CASE c > 0
      <4>1. 0 \in 0..q - e - 1 /\ c - 1 \in 0..q - e - 1
        BY <2>1, <3>2
      <4>2. /\ 0 + e \in 0..q - 1 /\ (c - 1) + e \in 0..q - 1
            /\ p[0 + e] \in 1..m /\ p[0 + e] > n /\ p[(c - 1) + e] \in 1..m
        BY <1>14, <4>1
      <4>3. p[0 + e] + (c - 1) <= p[(c - 1) + e]
        <5>1. CASE c = 1
          BY <4>2, <5>1
        <5>2. CASE c > 1
          <6>1. 0 + e < (c - 1) + e /\ ((c - 1) + e) - (0 + e) = c - 1
            BY <1>3, <1>6, <2>1, <5>2
          <6>2. p[0 + e] + (((c - 1) + e) - (0 + e)) <= p[(c - 1) + e]
            BY <1>11, <4>2, <6>1
          <6> QED BY <6>1, <6>2
        <5> QED BY <2>1, <3>2, <5>1, <5>2
      <4> QED BY <1>3, <2>1, <4>2, <4>3
    <3> QED BY <2>1, <3>1, <3>2
  <2> QED BY <2>1, <2>2, <2>4, <2>5
<1>16. /\ Queued(s4) = c + 1 /\ At(s4, c) = w
       /\ s4.speeds = s1.speeds /\ s4.timestamps = s1.timestamps /\ s4.write_idx = (w + 1) % N
       /\ \A k \in 0..c - 1 : At(s4, k) = Place(w, m - p[k + e])
  <2>1. c + 1 < N
    BY <1>3, <1>15
  <2>2. ASSUME NEW k \in 0..c - 1 PROVE At(s4, k) = Place(w, m - p[k + e])
    <3>1. k \in 0..q - e - 1
      BY <1>15
    <3> QED BY <1>7, <1>8, <1>14, <2>1, <3>1
  <2> QED BY <1>5, <1>6, <1>7, <1>8, <2>1, <2>2
<1> DEFINE last == m - n + 1
<1> DEFINE r == [k \in 0..c |-> IF k = c THEN last ELSE p[k + e] - n]
<1>17. /\ last \in Nat /\ last = Len(ln) /\ last >= 1 /\ last < N
       /\ r[c] = last
       /\ \A k \in 0..c - 1 : /\ r[k] = p[k + e] - n /\ r[k] \in 1..m - n
                              /\ k + e \in 0..q - 1 /\ p[k + e] \in 1..m
  <2>1. last \in Nat /\ last = Len(ln) /\ last >= 1 /\ last < N
    BY <1>3
  <2>2. r[c] = last
    BY <1>15
  <2>3. ASSUME NEW k \in 0..c - 1
        PROVE  /\ r[k] = p[k + e] - n /\ r[k] \in 1..m - n
               /\ k + e \in 0..q - 1 /\ p[k + e] \in 1..m
    <3>1. k \in 0..c /\ k # c /\ k \in 0..q - e - 1
      BY <1>15
    <3>2. r[k] = p[k + e] - n
      BY <3>1
    <3>3. p[k + e] \in 1..m /\ p[k + e] > n /\ k + e \in 0..q - 1
      BY <1>14, <3>1
    <3> HIDE DEF r
    <3> QED BY <1>3, <3>2, <3>3
  <2> QED BY <2>1, <2>2, <2>3
<1>18. r \in [0..(c + 1) - 1 -> 1..last]
  <2>1. ASSUME NEW k \in 0..c PROVE r[k] \in 1..last
    <3>1. CASE k = c
      BY <1>17, <3>1
    <3>2. CASE k # c
      <4>1. k \in 0..c - 1
        BY <1>15, <3>2
      <4>2. r[k] \in 1..m - n
        BY <1>17, <4>1
      <4> HIDE DEF r
      <4> QED BY <1>3, <4>2
    <3> QED BY <3>1, <3>2
  <2>2. (c + 1) - 1 = c
    BY <1>15
  <2>3. r \in [0..c -> 1..last]
    <3> HIDE DEF last
    <3> QED BY <2>1
  <2> QED BY <2>2, <2>3
<1> HIDE DEF r
\* The new speed, and those it leaves, in the log as it is now.
<1>19. /\ ln[last].speed = v /\ ln[last].time = t
       /\ \A k \in 0..c - 1 : ln[r[k]] = lg[p[k + e]]
       /\ \A j \in 1..m - n : ln[j] = lg[j + n] /\ j + n \in 1..m
  <2>1. ln[last].speed = v /\ ln[last].time = t
    BY <1>17 DEF Renewed
  <2>2. \A j \in 1..m - n : ln[j] = lg[j + n] /\ j + n \in 1..m
    <3>1. \A j \in 1..m - n : ln[j] = lg[j + n]
      BY DEF m, Renewed
    <3> QED BY <1>3, <3>1
  <2>3. ASSUME NEW k \in 0..c - 1 PROVE ln[r[k]] = lg[p[k + e]]
    <3>1. r[k] \in 1..m - n /\ r[k] + n = p[k + e]
      <4>1. \A x \in 1..m : (x - n) + n = x
        BY <1>3
      <4> QED BY <1>17, <4>1
    <3> QED BY <2>2, <3>1
  <2> QED BY <2>1, <2>2, <2>3
<1>20. ASSUME NEW k \in 0..c
       PROVE  At(s4, k) = Place((w + 1) % N, last - r[k])
  <2>1. CASE k = c
    <3>1. last - r[k] = 0
      BY <1>17, <2>1
    <3> QED BY <1>9, <1>16, <2>1, <3>1
  <2>2. CASE k # c
    <3>1. k \in 0..c - 1
      BY <1>15, <2>2
    <3>2. /\ last - r[k] = (m - p[k + e]) + 1 /\ m - p[k + e] \in 0..N - 2
      <4>1. \A x \in 1..m : (m - n + 1) - (x - n) = (m - x) + 1 /\ m - x \in 0..N - 2
        BY <1>3
      <4> QED BY <1>17, <3>1, <4>1
    <3>3. Place((w + 1) % N, (m - p[k + e]) + 1) = Place(w, m - p[k + e])
      BY <1>9, <3>2
    <3> QED BY <1>16, <3>1, <3>2, <3>3
  <2> QED BY <2>1, <2>2
<1>21. ASSUME NEW k \in 0..c, NEW l \in 0..c, k < l
       PROVE  r[k] + (l - k) <= r[l] /\ ln[r[k]].speed > ln[r[l]].speed
  <2>1. k \in 0..c - 1 /\ k + e \in 0..q - 1 /\ k \in Nat /\ l \in Nat
    <3>1. k \in 0..c - 1 /\ k \in Nat /\ l \in Nat
      BY <1>15, <1>21
    <3> QED BY <1>17, <3>1
  <2>2. CASE l = c
    <3>1. ln[r[k]].speed > v
      BY <1>15, <1>19, <2>1
    <3>2. r[k] + (c - k) <= last
      <4>1. c - 1 \in 0..c - 1
        BY <1>15, <1>21, <2>2
      <4>2. /\ r[k] = p[k + e] - n /\ p[k + e] \in 1..m
            /\ r[c - 1] = p[(c - 1) + e] - n /\ p[(c - 1) + e] \in 1..m /\ (c - 1) + e \in 0..q - 1
        BY <1>17, <2>1, <4>1
      <4>3. CASE k = c - 1
        <5>1. \A x \in 1..m - n : x + 1 <= m - n + 1
          BY <1>3
        <5>2. c - k = 1 /\ r[k] \in 1..m - n
          BY <1>15, <1>17, <2>1, <4>3
        <5> QED BY <5>1, <5>2
      <4>4. CASE k < c - 1
        <5>1. k + e < (c - 1) + e /\ ((c - 1) + e) - (k + e) = (c - 1) - k
          BY <1>15, <2>1, <4>4
        <5>2. p[k + e] + (((c - 1) + e) - (k + e)) <= p[(c - 1) + e]
          BY <1>11, <2>1, <4>2, <5>1
        <5>3. \A x, y \in 1..m : x + ((c - 1) - k) <= y => (x - n) + (c - k) <= m - n + 1
          BY <1>3, <1>15, <2>1
        <5> QED BY <4>2, <5>1, <5>2, <5>3
      <4> QED BY <1>15, <2>1, <4>3, <4>4
    <3> QED BY <1>17, <1>19, <2>2, <3>1, <3>2
  <2>3. CASE l # c
    <3>1. l \in 0..c - 1
      BY <1>15, <2>3
    <3>2. /\ l + e \in 0..q - 1 /\ r[l] = p[l + e] - n /\ r[k] = p[k + e] - n
          /\ p[l + e] \in 1..m /\ p[k + e] \in 1..m
      BY <1>17, <2>1, <3>1
    <3>3. k + e < l + e /\ (l + e) - (k + e) = l - k
      BY <1>3, <1>6, <1>21, <2>1
    <3>4. p[k + e] + ((l + e) - (k + e)) <= p[l + e] /\ lg[p[k + e]].speed > lg[p[l + e]].speed
      BY <1>11, <2>1, <3>2, <3>3
    <3>5. r[k] + (l - k) <= r[l]
      <4>1. \A x, y \in 1..m : x + (l - k) <= y => (x - n) + (l - k) <= y - n
        BY <1>3, <2>1
      <4> QED BY <3>2, <3>3, <3>4, <4>1
    <3> QED BY <1>19, <2>1, <3>1, <3>4, <3>5
  <2> QED BY <2>2, <2>3
<1>22. ASSUME NEW j \in 1..last
       PROVE  \E k \in 0..c : j <= r[k] /\ ln[j].speed <= ln[r[k]].speed
  <2>0. c \in 0..c /\ r[c] = last /\ ln[last].speed = v /\ v \in Nat /\ j <= last
    BY <1>3, <1>15, <1>17, <1>19
  <2>1. CASE j = last
    BY <2>0, <2>1
  <2>2. CASE j # last
    <3>1. j \in 1..m - n /\ j + n \in 1..m /\ ln[j] = lg[j + n]
      <4>1. j \in 1..m - n
        BY <1>3, <2>2
      <4> QED BY <1>19, <4>1
    <3>2. PICK k0 \in 0..q - 1 : j + n <= p[k0] /\ lg[j + n].speed <= lg[p[k0]].speed
      BY <1>11, <3>1
    <3>3. p[k0] \in 1..m /\ ~(p[k0] <= n)
      BY <1>3, <1>11, <3>1, <3>2
    <3>4. ~(k0 < e)
      BY <1>13, <3>3
    <3> DEFINE k == k0 - e
    <3>5. k \in 0..q - e - 1 /\ k + e = k0
      BY <1>3, <1>6, <3>4
    <3>6. lg[j + n].speed \in Nat /\ lg[p[k0]].speed \in Nat
      BY <1>4, <3>1, <3>3
    <3> HIDE DEF k
    <3>7. CASE k < c
      <4>1. k \in 0..c - 1 /\ k \in 0..c
        BY <1>15, <3>5, <3>7
      <4>2. r[k] = p[k0] - n /\ ln[r[k]] = lg[p[k0]]
        BY <1>17, <1>19, <3>5, <4>1
      <4>3. j <= r[k]
        <5>1. \A x \in 1..m, y \in 1..m - n : y + n <= x => y <= x - n
          BY <1>3
        <5> QED BY <3>1, <3>2, <3>3, <4>2, <5>1
      <4> QED BY <3>1, <3>2, <4>1, <4>2, <4>3
    <3>8. CASE ~(k < c)
      <4>1. k \in c..q - e - 1
        BY <1>15, <3>5, <3>8
      <4>2. lg[p[k0]].speed <= v
        BY <1>15, <3>5, <4>1
      <4>3. ln[j].speed <= v
        BY <3>1, <3>2, <3>6, <4>2
      <4> QED BY <2>0, <4>3
    <3> QED BY <3>7, <3>8
  <2> QED BY <2>1, <2>2
<1>23. Held(s4, ln)
  <2>1. ASSUME NEW j \in 1..last
        PROVE  LET i == Place((w + 1) % N, last - j)
               IN s4.speeds[i] = ln[j].speed /\ s4.timestamps[i] = ln[j].time
    <3>1. CASE j = last
      <4>1. last - j = 0
        BY <1>17, <3>1
      <4>2. Place((w + 1) % N, last - j) = w
        BY <1>9, <4>1
      <4>3. s1.speeds[w] = v /\ s1.timestamps[w] = t
        BY <1>3, <1>5 DEF SlidingMaximum
      <4> QED BY <1>16, <1>19, <3>1, <4>2, <4>3
    <3>2. CASE j # last
      <4>1. j \in 1..m - n /\ j + n \in 1..m /\ ln[j] = lg[j + n]
        <5>1. j \in 1..m - n
          BY <1>3, <3>2
        <5> QED BY <1>19, <5>1
      <4>2. last - j = (m - (j + n)) + 1 /\ m - (j + n) \in 0..N - 2
        <5>1. \A x \in 1..m - n : /\ (m - n + 1) - x = (m - (x + n)) + 1
                                 /\ m - (x + n) \in 0..N - 2
          BY <1>3
        <5> QED BY <4>1, <5>1
      <4>3. Place((w + 1) % N, last - j) = Place(w, m - (j + n))
        BY <1>9, <4>2
      <4> QED BY <1>10, <1>16, <4>1, <4>3
    <3> QED BY <3>1, <3>2
  <2> QED BY <1>16, <1>17, <2>1 DEF Held
<1>24. Stands(s4, ln, r)
  <2>1. \A k \in Int : k \in 0..Queued(s4) - 1 <=> k \in 0..c
    BY <1>15, <1>16
  <2>2. \A k \in 0..Queued(s4) - 1 : k \in 0..c
    BY <2>1
  <2> QED BY <1>16, <1>17, <1>20, <1>21, <1>22, <2>1, <2>2 DEF Stands
<1>25. \E f \in [0..Queued(s4) - 1 -> 1..Len(ln)] : Stands(s4, ln, f)
  BY <1>16, <1>17, <1>18, <1>24
<1> QED BY <1>1, <1>23, <1>25 DEF RingOK

\* add_windspeed keeps the ring to its fields.
LEMMA RingType ==
  ASSUME NEW sm \in SlidingMaximum, NEW v \in Nat, NEW t \in Int
  PROVE  add_windspeed(sm, v, t) \in SlidingMaximum
<1> DEFINE s1 == Written(sm, v, t)
<1> DEFINE s2 == DropOld(s1, t - TOO_OLD_DATA)
<1> DEFINE s3 == DropSmall(s2, v)
<1>1. s1 \in SlidingMaximum
  BY OneWritten
<1>2. t - TOO_OLD_DATA \in Int /\ sm.write_idx \in Index
  BY WeatherDataAssumption DEF SlidingMaximum
<1> HIDE DEF s1
<1>3. s2 \in SlidingMaximum
  BY <1>1, <1>2, OldDropped
<1> HIDE DEF s2
<1>4. s3 \in SlidingMaximum
  BY <1>3, SmallDropped
<1> HIDE DEF s3
<1>5. Enqueued(s3, sm.write_idx) \in SlidingMaximum
  BY <1>2, <1>4, OneQueued
<1> QED BY <1>5 DEF add_windspeed, s1, s2, s3

-----------------------------------------------------------------------------
(* The invariant. *)

\* The log is in order and holds no more than a day.
LogInv ==
  /\ Ordered(log)
  /\ \A i \in 1..Len(log) : log[i].time <= now /\ log[i].time >= log[Len(log)].time - TOO_OLD_DATA

\* Once the queue has run over nothing is said of the ring but its type.
WindInv == DataTypeOK /\ LogInv /\ (~overrun => RingOK(windspeeds, log))

\* The speeds that are too old come first in the log, so that OldIn finds them.
LEMMA Olds ==
  ASSUME log \in Seq(Entry), Ordered(log), NEW cutoff \in Int
  PROVE  /\ OldIn(cutoff) \in 0..Len(log)
         /\ \A i \in 1..Len(log) : log[i].time < cutoff <=> i <= OldIn(cutoff)
<1> DEFINE m == Len(log)
<1>1. m \in Nat /\ \A i \in 1..m : log[i].time \in Int
  <2>1. \A i \in 1..m : log[i] \in Entry
    OBVIOUS
  <2> QED BY <2>1 DEF Entry
<1> DEFINE Old == {k \in 0..m : k + 1 \in 1..m /\ log[k + 1].time < cutoff}
<1>2. PICK n \in 0..m : (\A k \in 0..n - 1 : k \in Old) /\ (n < m => n \notin Old)
  <2> HIDE DEF Old, m
  <2> QED BY <1>1, FromBeginning
<1>3. ASSUME NEW i \in 1..m PROVE log[i].time < cutoff <=> i <= n
  <2>1. CASE i <= n
    <3>1. i - 1 \in 0..n - 1 /\ (i - 1) + 1 = i
      BY <1>1, <2>1
    <3>2. i - 1 \in Old
      BY <1>2, <3>1
    <3> QED BY <2>1, <3>1, <3>2
  <2>2. CASE ~(i <= n)
    <3>1. n + 1 \in 1..m /\ n + 1 <= i /\ n < m
      BY <1>1, <2>2
    <3>2. ~(log[n + 1].time < cutoff)
      BY <1>2, <3>1
    <3>3. log[n + 1].time <= log[i].time
      BY <3>1 DEF Ordered
    <3>4. log[n + 1].time \in Int /\ log[i].time \in Int
      BY <1>1, <3>1
    <3> QED BY <2>2, <3>2, <3>3, <3>4
  <2> QED BY <2>1, <2>2
<1>4. \E k \in 0..Len(log) : \A i \in 1..Len(log) : log[i].time < cutoff <=> i <= k
  BY <1>3
<1> QED BY <1>4 DEF OldIn

\* The log after a sample: the recent part of it and the new speed.
LEMMA LogGrown ==
  ASSUME log \in Seq(Entry), LogInv, now \in Int, NEW v \in Nat,
         log' = Append(Recent(now - TOO_OLD_DATA), [speed |-> v, time |-> now])
  PROVE  /\ log' \in Seq(Entry)
         /\ OldIn(now - TOO_OLD_DATA) \in Nat
         /\ Renewed(log, log', OldIn(now - TOO_OLD_DATA), v, now)
         /\ Len(log') \in Nat /\ Len(log') >= 1
<1> DEFINE cutoff == now - TOO_OLD_DATA
<1> DEFINE n == OldIn(cutoff)
<1> DEFINE m == Len(log)
<1> DEFINE new == [speed |-> v, time |-> now]
<1>1. cutoff \in Int /\ m \in Nat
  BY WeatherDataAssumption
<1>2. n \in 0..m /\ \A i \in 1..m : log[i].time < cutoff <=> i <= n
  <2> HIDE DEF cutoff
  <2> QED BY <1>1, Olds DEF LogInv
<1>3. n \in Nat /\ n <= m
  BY <1>1, <1>2
<1>4. new \in Entry
  BY DEF Entry
<1> HIDE DEF n, new
<1> DEFINE rest == SubSeq(log, n + 1, m)
<1>5. rest \in Seq(Entry) /\ Len(rest) = m - n /\ \A j \in 1..m - n : rest[j] = log[j + n]
  <2>1. \A j \in n + 1..m : log[j] \in Entry
    BY <1>3
  <2>2. rest \in Seq(Entry)
    BY <1>1, <1>3, <2>1
  <2>3. Len(rest) = m - n
    BY <1>1, <1>3
  <2>4. \A j \in 1..m - n : rest[j] = log[j + n]
    BY <1>1, <1>3
  <2> QED BY <2>2, <2>3, <2>4
<1>6. log' = Append(rest, new)
  BY DEF Recent, n, new
<1> HIDE DEF rest
<1>7. /\ log' \in Seq(Entry) /\ Len(log') = m - n + 1
      /\ \A j \in 1..m - n : log'[j] = rest[j]
      /\ log'[m - n + 1] = new
  <2>1. Append(rest, new) \in Seq(Entry) /\ Len(Append(rest, new)) = Len(rest) + 1
    BY <1>4, <1>5
  <2>2. \A j \in 1..Len(rest) : Append(rest, new)[j] = rest[j]
    BY <1>4, <1>5
  <2>3. Append(rest, new)[Len(rest) + 1] = new
    BY <1>4, <1>5
  <2> QED BY <1>5, <1>6, <2>1, <2>2, <2>3
<1>8. Renewed(log, log', n, v, now)
  BY <1>2, <1>3, <1>5, <1>7 DEF Renewed, new
<1>9. Len(log') \in Nat /\ Len(log') >= 1
  BY <1>1, <1>3, <1>7
<1> QED BY <1>3, <1>7, <1>8, <1>9 DEF n

\* It is in order still, and of the last TOO_OLD_DATA.
LEMMA LogInOrder ==
  ASSUME NEW lg \in Seq(Entry), NEW ln \in Seq(Entry), NEW n \in Nat, NEW v \in Nat, NEW t \in Int,
         Renewed(lg, ln, n, v, t), Ordered(lg), \A i \in 1..Len(lg) : lg[i].time <= t
  PROVE  /\ Ordered(ln)
         /\ \A i \in 1..Len(ln) : ln[i].time <= t /\ ln[i].time >= ln[Len(ln)].time - TOO_OLD_DATA
<1> DEFINE m == Len(lg)
<1> DEFINE last == m - n + 1
<1>1. /\ m \in Nat /\ n <= m /\ Len(ln) = last /\ ln[last].time = t
      /\ \A i \in 1..m : lg[i].time < t - TOO_OLD_DATA <=> i <= n
      /\ \A j \in 1..m - n : ln[j] = lg[j + n]
  BY DEF Renewed
<1>2. TOO_OLD_DATA \in Nat
  BY WeatherDataAssumption
<1>3. \A i \in 1..m : lg[i].time \in Int
  <2>1. \A i \in 1..m : lg[i] \in Entry
    OBVIOUS
  <2> QED BY <2>1 DEF Entry
<1>4. ASSUME NEW j \in 1..last
      PROVE  j = last \/ (j \in 1..m - n /\ j + n \in 1..m /\ ~(j + n <= n) /\ ln[j] = lg[j + n])
  <2>1. j = last \/ j \in 1..m - n
    BY <1>1
  <2>2. ASSUME j \in 1..m - n PROVE j + n \in 1..m /\ ~(j + n <= n)
    BY <1>1, <2>2
  <2> QED BY <1>1, <2>1, <2>2
<1>5. ASSUME NEW j \in 1..last PROVE ln[j].time <= t /\ ln[j].time >= t - TOO_OLD_DATA /\ ln[j].time \in Int
  <2>1. CASE j = last
    BY <1>1, <1>2, <2>1
  <2>2. CASE j # last
    <3>1. j + n \in 1..m /\ ~(lg[j + n].time < t - TOO_OLD_DATA) /\ ln[j] = lg[j + n]
      BY <1>1, <1>4, <2>2
    <3>2. lg[j + n].time \in Int /\ lg[j + n].time <= t
      BY <1>3, <3>1
    <3> QED BY <1>2, <3>1, <3>2
  <2> QED BY <2>1, <2>2
<1>6. ASSUME NEW i \in 1..last, NEW j \in 1..last, i <= j PROVE ln[i].time <= ln[j].time
  <2>1. CASE j = last
    BY <1>1, <1>5, <2>1
  <2>2. CASE j # last
    <3>1. i # last
      <4>1. last \in Int
        BY <1>1
      <4> HIDE DEF last
      <4> QED BY <1>6, <2>2, <4>1
    <3>2. /\ j + n \in 1..m /\ ln[j] = lg[j + n]
          /\ i + n \in 1..m /\ ln[i] = lg[i + n]
      BY <1>4, <2>2, <3>1
    <3>3. i + n <= j + n
      BY <1>6
    <3> QED BY <3>2, <3>3 DEF Ordered
  <2> QED BY <2>1, <2>2
<1> QED BY <1>1, <1>5, <1>6 DEF Ordered

\* Nothing is in the ring at the start.
LEMMA WindInit == InitData => WindInv
<1> SUFFICES ASSUME InitData PROVE WindInv
  OBVIOUS
<1>1. /\ now = 0 /\ samples = 0 /\ overrun = FALSE /\ clash = FALSE /\ log = <<>>
      /\ collected = Nothing /\ given = [s \in Sensors |-> Epoch]
  BY DEF InitData
<1>2. Epoch \in Int /\ N \in Nat /\ N > 1 /\ MaxTime \in Nat /\ MaxSamples \in Nat /\ 0 \in Index
  BY WeatherDataAssumption DEF Epoch, Index
<1>3. /\ windspeeds.deq_head = 0 /\ windspeeds.deq_tail = 0
      /\ windspeeds \in SlidingMaximum
  BY <1>2 DEF InitData, SlidingMaximum
<1>4. collected \in [sense : VAL_FORCEDSHTDN..VAL_BROKEN, time : Int, val : Nat]
  BY <1>1, <1>2 DEF Nothing, VAL_FORCEDSHTDN, VAL_BROKEN
<1>5. log \in Seq(Entry) /\ Len(log) = 0
  BY <1>1
<1>6. DataTypeOK
  <2>1. given \in [Sensors -> Int]
    BY <1>1, <1>2
  <2>2. now \in 0..MaxTime /\ samples \in 0..MaxSamples /\ overrun \in BOOLEAN /\ clash \in BOOLEAN
    <3>1. overrun \in BOOLEAN /\ clash \in BOOLEAN
      BY <1>1, Zenon
    <3>2. now \in 0..MaxTime /\ samples \in 0..MaxSamples
      BY <1>1, <1>2
    <3> QED BY <3>1, <3>2
  <2> QED BY <1>3, <1>4, <1>5, <2>1, <2>2 DEF DataTypeOK, SlidingMaximum, Entry
<1>7. LogInv
  BY <1>5 DEF LogInv, Ordered
<1>8. RingOK(windspeeds, log)
  <2>1. Queued(windspeeds) = 0
    <3>1. 0 % N = 0
      BY <1>2
    <3> QED BY <1>3, <3>1 DEF Queued
  <2> DEFINE p == [k \in 0..0 - 1 |-> 1]
  <2>2. p \in [0..Queued(windspeeds) - 1 -> 1..Len(log)]
    BY <1>5, <2>1
  <2>3. Stands(windspeeds, log, p)
    BY <1>5, <2>1 DEF Stands
  <2>4. Held(windspeeds, log)
    BY <1>5 DEF Held
  <2> HIDE DEF p
  <2> QED BY <1>2, <1>5, <2>2, <2>3, <2>4 DEF RingOK
<1> QED BY <1>6, <1>7, <1>8 DEF WindInv

\* Time passes, and the log does not grow older than itself.
LEMMA WindSecond == WindInv /\ Second => WindInv'
<1> SUFFICES ASSUME WindInv, Second PROVE WindInv'
  OBVIOUS
<1>1. /\ now < MaxTime /\ now' = now + 1
      /\ collected' = collected /\ windspeeds' = windspeeds /\ given' = given /\ log' = log
      /\ samples' = samples /\ overrun' = overrun /\ clash' = clash
  BY DEF Second
<1>2. MaxTime \in Nat /\ now \in 0..MaxTime
  BY WeatherDataAssumption DEF WindInv, DataTypeOK
<1>3. DataTypeOK'
  <2>1. now' \in 0..MaxTime
    BY <1>1, <1>2
  <2> QED BY <1>1, <2>1 DEF WindInv, DataTypeOK
<1>4. LogInv'
  <2>1. \A i \in 1..Len(log) : log[i].time \in Int
    <3>1. log \in Seq(Entry)
      BY DEF WindInv, DataTypeOK, Entry
    <3>2. \A i \in 1..Len(log) : log[i] \in Entry
      BY <3>1
    <3> QED BY <3>2 DEF Entry
  <2>2. \A i \in 1..Len(log) : log[i].time <= now + 1
    <3>1. \A x \in Int : x <= now => x <= now + 1
      BY <1>2
    <3> QED BY <2>1, <3>1 DEF WindInv, LogInv
  <2> QED BY <1>1, <2>2 DEF WindInv, LogInv, Ordered
<1>5. ~overrun' => RingOK(windspeeds, log)'
  <2>1. ~overrun => RingOK(windspeeds, log)
    BY DEF WindInv
  <2>2. RingOK(windspeeds, log)' = RingOK(windspeeds', log')
    BY DEF RingOK, Held, Stands, Queued, At, Place
  <2>3. RingOK(windspeeds', log') = RingOK(windspeeds, log)
    BY <1>1
  <2> QED BY <1>1, <2>1, <2>2, <2>3
<1> QED BY <1>3, <1>4, <1>5 DEF WindInv

\* A station gives a value.
LEMMA WindSample == ASSUME WindInv, NEW s \in Sensors, Sample(s) PROVE WindInv'
<1>1. PICK v \in Speeds, late \in Late, force \in BOOLEAN :
        LET fresh == [sense |-> Sense[s], time |-> now - late, val |-> v]
        IN /\ windspeeds' = add_windspeed(windspeeds, v, now)
           /\ collected' = fix_new_data(collected, fresh, force)
           /\ given' = [given EXCEPT ![s] = fresh.time]
           /\ clash' = (clash \/ fresh.time <= collected.time)
           /\ log' = Append(Recent(now - TOO_OLD_DATA), [speed |-> v, time |-> now])
  <2>1. \A v \in Speeds : {FALSE, v >= BadSpeed} \subseteq BOOLEAN
    BY WeatherDataAssumption
  <2> QED BY <2>1 DEF Sample
<1>2. /\ samples < MaxSamples /\ samples' = samples + 1 /\ now' = now
      /\ overrun' = (overrun \/ Len(log') >= MAX_HISTORY)
  BY DEF Sample
<1>3. /\ now \in 0..MaxTime /\ samples \in 0..MaxSamples /\ overrun \in BOOLEAN /\ clash \in BOOLEAN
      /\ windspeeds \in SlidingMaximum /\ given \in [Sensors -> Int]
      /\ collected \in [sense : VAL_FORCEDSHTDN..VAL_BROKEN, time : Int, val : Nat]
      /\ log \in Seq(Entry) /\ LogInv
  BY DEF WindInv, DataTypeOK, SlidingMaximum, Entry
<1>4. now \in Int /\ v \in Nat /\ late \in Int /\ MaxSamples \in Nat /\ MaxTime \in Nat /\ N \in Nat
  BY <1>3, WeatherDataAssumption
<1>5. /\ log' \in Seq(Entry)
      /\ OldIn(now - TOO_OLD_DATA) \in Nat
      /\ Renewed(log, log', OldIn(now - TOO_OLD_DATA), v, now)
      /\ Len(log') \in Nat
  BY <1>1, <1>3, <1>4, LogGrown
<1>6. DataTypeOK'
  <2> DEFINE fresh == [sense |-> Sense[s], time |-> now - late, val |-> v]
  <2>1. fresh \in [sense : VAL_FORCEDSHTDN..VAL_BROKEN, time : Int, val : Nat]
    <3>1. Sense[s] \in 0..2
      BY Numbers
    <3>2. Sense[s] \in VAL_FORCEDSHTDN..VAL_BROKEN
      BY <3>1 DEF VAL_FORCEDSHTDN, VAL_BROKEN
    <3> QED BY <1>4, <3>2
  <2>2. collected' \in [sense : VAL_FORCEDSHTDN..VAL_BROKEN, time : Int, val : Nat]
    <3>1. collected' = fix_new_data(collected, fresh, force)
      BY <1>1
    <3>2. collected' \in {collected, fresh}
      BY <3>1, OneOfTwo
    <3> QED BY <1>3, <2>1, <3>2
  <2>3. windspeeds' \in SlidingMaximum
    BY <1>1, <1>3, <1>4, RingType
  <2>4. given' \in [Sensors -> Int]
    BY <1>1, <1>3, <1>4
  <2>5. samples' \in 0..MaxSamples /\ now' \in 0..MaxTime /\ overrun' \in BOOLEAN
    BY <1>2, <1>3, <1>4
  <2>6. clash' \in BOOLEAN
    BY <1>1, <1>3
  <2> QED BY <1>5, <2>2, <2>3, <2>4, <2>5, <2>6 DEF DataTypeOK, SlidingMaximum, Entry
<1>7. LogInv'
  <2>1. Ordered(log) /\ \A i \in 1..Len(log) : log[i].time <= now
    BY <1>3 DEF LogInv
  <2> DEFINE ln == log'
  <2>2. ln \in Seq(Entry) /\ Renewed(log, ln, OldIn(now - TOO_OLD_DATA), v, now)
    BY <1>5
  <2> HIDE DEF ln
  <2>3. /\ Ordered(ln)
        /\ \A i \in 1..Len(ln) : ln[i].time <= now /\ ln[i].time >= ln[Len(ln)].time - TOO_OLD_DATA
    BY <1>3, <1>4, <1>5, <2>1, <2>2, LogInOrder
  <2> QED BY <1>2, <2>3 DEF LogInv, Ordered, ln
<1>8. ASSUME ~overrun' PROVE RingOK(windspeeds, log)'
  <2>1. ~overrun /\ Len(log') < N
    <3>1. ~overrun /\ ~(Len(log') >= N)
      BY <1>2, <1>8
    <3>2. \A x, y \in Nat : ~(x >= y) => x < y
      OBVIOUS
    <3> QED BY <1>4, <1>5, <3>1, <3>2
  <2>2. RingOK(windspeeds, log)
    BY <2>1 DEF WindInv
  <2> DEFINE ln == log'
  <2>3. ln \in Seq(Entry) /\ Renewed(log, ln, OldIn(now - TOO_OLD_DATA), v, now) /\ Len(ln) < N
    BY <1>5, <2>1
  <2> HIDE DEF ln
  <2>4. RingOK(add_windspeed(windspeeds, v, now), ln)
    BY <1>3, <1>4, <1>5, <2>2, <2>3, OneAdded
  <2>5. RingOK(windspeeds', log')
    BY <1>1, <2>4 DEF ln
  <2> QED BY <2>5 DEF RingOK, Held, Stands, Queued, At, Place
<1> QED BY <1>6, <1>7, <1>8 DEF WindInv

\* A second passes, a value comes, or nothing happens.
LEMMA WindStep == WindInv /\ [NextData]_dataVars => WindInv'
<1> SUFFICES ASSUME WindInv, [NextData]_dataVars PROVE WindInv'
  OBVIOUS
<1>1. CASE Second
  BY <1>1, WindSecond
<1>2. ASSUME NEW s \in Sensors, Sample(s) PROVE WindInv'
  BY <1>2, WindSample
<1>3. CASE UNCHANGED dataVars
  <2>1. /\ now' = now /\ collected' = collected /\ windspeeds' = windspeeds /\ given' = given
        /\ log' = log /\ samples' = samples /\ overrun' = overrun /\ clash' = clash
    BY <1>3 DEF dataVars
  <2>2. DataTypeOK'
    BY <2>1 DEF WindInv, DataTypeOK
  <2>3. LogInv'
    BY <2>1 DEF WindInv, LogInv, Ordered
  <2>4. RingOK(windspeeds, log)' = RingOK(windspeeds', log')
    BY DEF RingOK, Held, Stands, Queued, At, Place
  <2>5. RingOK(windspeeds', log') = RingOK(windspeeds, log)
    BY <2>1
  <2>6. overrun' <=> overrun
    BY <2>1
  <2> QED BY <2>2, <2>3, <2>4, <2>5, <2>6 DEF WindInv
<1> QED BY <1>1, <1>2, <1>3 DEF NextData

\* The order of the log and its agreement with the ring are kept by every step.
THEOREM WindInvariant == SpecData => []WindInv
<1>1. InitData => WindInv
  BY WindInit
<1>2. WindInv /\ [NextData]_dataVars => WindInv'
  BY WindStep
<1> QED BY <1>1, <1>2, PTL DEF SpecData

\* The indices of add_windspeed's ring stay within the history, whatever comes and
\* even when the queue runs over, and the collected value keeps to its fields.
THEOREM DataTypes == SpecData => []DataTypeOK
<1>1. WindInv => DataTypeOK
  BY DEF WindInv
<1> QED BY <1>1, WindInvariant, PTL

\* The f-th of the queue is the first that came since t, and the greatest speed since.
FirstSince(sm, p, f, t) ==
  /\ log[p[f]].time >= t
  /\ \A k \in 0..Queued(sm) - 1 : log[p[k]].time >= t => f <= k
  /\ GreatestSince(t) = log[p[f]].speed

\* The greatest speed since a moment is that of the first of the queue that
\* came since.
LEMMA GreatestIsQueued ==
  ASSUME log \in Seq(Entry), Ordered(log), NEW sm \in SlidingMaximum,
         NEW p \in [0..Queued(sm) - 1 -> 1..Len(log)], Stands(sm, log, p),
         NEW t \in Int, Len(log) >= 1, log[Len(log)].time >= t
  PROVE  \E f \in 0..Queued(sm) - 1 : FirstSince(sm, p, f, t)
<1> DEFINE m == Len(log)
<1> DEFINE q == Queued(sm)
<1>0. /\ q \in Nat
      /\ \A j \in 1..m : \E k \in 0..q - 1 : j <= p[k] /\ log[j].speed <= log[p[k]].speed
      /\ \A k, l \in 0..q - 1 : k < l => log[p[k]].speed > log[p[l]].speed
  BY Queue DEF Stands
<1> HIDE DEF q
<1>1. m \in Nat /\ m \in 1..m
  OBVIOUS
<1>2. \A i \in 1..m : log[i].speed \in Nat /\ log[i].time \in Int
  <2>1. \A i \in 1..m : log[i] \in Entry
    OBVIOUS
  <2> QED BY <2>1 DEF Entry
<1>3. \A k \in 0..q - 1 : p[k] \in 1..m
  BY DEF q
<1>4. ASSUME NEW j \in 1..m, log[j].time >= t
      PROVE  \E k \in 0..q - 1 : log[p[k]].time >= t /\ log[j].speed <= log[p[k]].speed
  <2>1. PICK k \in 0..q - 1 : j <= p[k] /\ log[j].speed <= log[p[k]].speed
    BY <1>0
  <2>2. p[k] \in 1..m /\ log[j].time <= log[p[k]].time
    BY <1>3, <2>1 DEF Ordered
  <2>3. log[p[k]].time >= t
    <3>1. log[j].time \in Int /\ log[p[k]].time \in Int
      BY <1>2, <2>2
    <3>2. \A x, y \in Int : x >= t /\ x <= y => y >= t
      OBVIOUS
    <3> QED BY <1>4, <2>2, <3>1, <3>2
  <2> QED BY <2>1, <2>3
<1> DEFINE T == {k \in 0..q - 1 : log[p[k]].time >= t}
<1>5. T \in SUBSET Nat /\ T # {}
  <2>1. \E k \in 0..q - 1 : log[p[k]].time >= t
    BY <1>1, <1>4
  <2>2. 0..q - 1 \subseteq Nat
    BY <1>0
  <2> QED BY <2>1, <2>2
<1>6. PICK f \in T : \A k \in T : f <= k
  BY <1>5, Least
<1>7. f \in 0..q - 1 /\ log[p[f]].time >= t /\ \A k \in 0..q - 1 : log[p[k]].time >= t => f <= k
  BY <1>6
<1> HIDE DEF T
<1>8. ASSUME NEW j \in 1..m, log[j].time >= t PROVE log[j].speed <= log[p[f]].speed
  <2>1. PICK k \in 0..q - 1 : log[p[k]].time >= t /\ log[j].speed <= log[p[k]].speed
    BY <1>4, <1>8
  <2>2. f <= k
    BY <1>7, <2>1
  <2>3. log[j].speed \in Nat /\ log[p[k]].speed \in Nat /\ log[p[f]].speed \in Nat
    BY <1>2, <1>3, <1>7
  <2>4. CASE f = k
    BY <2>1, <2>4
  <2>5. CASE f < k
    <3>1. log[p[f]].speed > log[p[k]].speed
      BY <1>0, <1>7, <2>5
    <3>2. \A x, y, z \in Nat : x <= y /\ z > y => x <= z
      OBVIOUS
    <3> QED BY <2>1, <2>3, <3>1, <3>2
  <2> QED BY <1>0, <1>7, <2>2, <2>4, <2>5
<1> DEFINE recent == {i \in DOMAIN log : log[i].time >= t}
<1> DEFINE sp == {log[i].speed : i \in recent}
<1>9. DOMAIN log = 1..m
  OBVIOUS
<1>10. p[f] \in recent
  BY <1>3, <1>7, <1>9
<1>11. \A i \in recent : log[i].speed <= log[p[f]].speed
  BY <1>8, <1>9
<1>12. \A i \in recent : log[i].speed \in Nat
  BY <1>2, <1>9
<1>13. GreatestSince(t) = CHOOSE x \in sp : \A i \in recent : log[i].speed <= x
  BY <1>10 DEF GreatestSince
<1>14. log[p[f]].speed \in sp
  BY <1>10
<1>15. \A x \in sp : (\A i \in recent : log[i].speed <= x) => x = log[p[f]].speed
  <2> SUFFICES ASSUME NEW i \in recent, \A j \in recent : log[j].speed <= log[i].speed
               PROVE  log[i].speed = log[p[f]].speed
    OBVIOUS
  <2>1. log[p[f]].speed <= log[i].speed /\ log[i].speed <= log[p[f]].speed
    BY <1>10, <1>11
  <2>2. log[p[f]].speed \in Nat /\ log[i].speed \in Nat
    BY <1>10, <1>12
  <2>3. \A x, y \in Nat : x <= y /\ y <= x => x = y
    OBVIOUS
  <2> QED BY <2>1, <2>2, <2>3
<1>16. GreatestSince(t) = log[p[f]].speed
  <2> HIDE DEF sp, recent
  <2> QED BY <1>11, <1>13, <1>14, <1>15
<1> QED BY <1>7, <1>16 DEF q, FirstSince

\* The invariant makes the maxima real.
LEMMA WindReal == WindInv => WindMaxIsReal
<1> SUFFICES ASSUME WindInv, log # <<>>, log[Len(log)].time = now, ~overrun
             PROVE  LET day == GreatestSince(now - TOO_OLD_DATA)
                        hour == GreatestSince(now - T_ONE_HOUR)
                    IN /\ get_current_max(windspeeds) = day
                       /\ get_max_forT(windspeeds, now - T_ONE_HOUR) = IF hour = day THEN hour ELSE 0
  BY DEF WindMaxIsReal
<1> DEFINE m == Len(log)
<1> DEFINE q == Queued(windspeeds)
<1> DEFINE w == windspeeds.write_idx
<1> DEFINE day == GreatestSince(now - TOO_OLD_DATA)
<1> DEFINE hour == GreatestSince(now - T_ONE_HOUR)
<1> DEFINE dc == now - TOO_OLD_DATA
<1> DEFINE tc == now - T_ONE_HOUR
<1>1. /\ log \in Seq(Entry) /\ Ordered(log) /\ now \in Int /\ windspeeds \in SlidingMaximum
      /\ \A i \in 1..m : log[i].time >= dc
      /\ RingOK(windspeeds, log)
  <2>1. DataTypeOK /\ LogInv /\ RingOK(windspeeds, log)
    BY DEF WindInv
  <2>2. log \in Seq(Entry) /\ windspeeds \in SlidingMaximum
    BY <2>1 DEF DataTypeOK, Entry, SlidingMaximum
  <2>3. now \in Int
    BY <2>1, WeatherDataAssumption DEF DataTypeOK
  <2>4. Ordered(log) /\ \A i \in 1..m : log[i].time >= dc
    BY <2>1 DEF LogInv
  <2> QED BY <2>1, <2>2, <2>3, <2>4
<1>2. m \in Nat /\ m >= 1
  BY <1>1
<1>3. /\ dc \in Int /\ tc \in Int
      /\ log[m].time >= dc /\ log[m].time >= tc
  <2>1. TOO_OLD_DATA \in Nat /\ T_ONE_HOUR \in Nat
    BY WeatherDataAssumption
  <2> QED BY <1>1, <2>1
<1>4. q \in Nat
  BY <1>1, Queue
<1>5. PICK p \in [0..q - 1 -> 1..m] : Stands(windspeeds, log, p)
  BY <1>1 DEF RingOK
<1>6. \A k, l \in 0..q - 1 : k < l => log[p[k]].speed > log[p[l]].speed
  BY <1>5 DEF Stands
<1>7. \A j \in 1..m : \E k \in 0..q - 1 : j <= p[k] /\ log[j].speed <= log[p[k]].speed
  BY <1>5 DEF Stands
<1>8. ASSUME NEW k \in 0..q - 1
      PROVE  /\ p[k] \in 1..m /\ log[p[k]].speed \in Nat /\ log[p[k]].time \in Int
             /\ windspeeds.speeds[At(windspeeds, k)] = log[p[k]].speed
             /\ windspeeds.timestamps[At(windspeeds, k)] = log[p[k]].time
  <2>1. p[k] \in 1..m
    OBVIOUS
  <2>2. At(windspeeds, k) = Place(w, m - p[k])
    BY <1>5 DEF Stands
  <2>3. log[p[k]] \in Entry
    BY <1>1, <2>1
  <2>4. /\ windspeeds.speeds[Place(w, m - p[k])] = log[p[k]].speed
        /\ windspeeds.timestamps[Place(w, m - p[k])] = log[p[k]].time
    BY <1>1, <2>1 DEF RingOK, Held
  <2> QED BY <2>1, <2>2, <2>3, <2>4 DEF Entry
<1>0. ASSUME NEW t \in Int, log[m].time >= t
      PROVE  \E f \in 0..q - 1 : FirstSince(windspeeds, p, f, t)
  BY <1>0, <1>1, <1>2, <1>5, GreatestIsQueued
<1> HIDE DEF m, q, tc, dc
<1>9. PICK f \in 0..q - 1 : /\ \A k \in 0..q - 1 : log[p[k]].time >= dc => f <= k
                            /\ day = log[p[f]].speed
  BY <1>0, <1>3 DEF FirstSince, q, dc
<1>10. PICK g \in 0..q - 1 : /\ log[p[g]].time >= tc
                             /\ \A k \in 0..q - 1 : log[p[k]].time >= tc => g <= k
                             /\ hour = log[p[g]].speed
  BY <1>0, <1>3 DEF FirstSince, q, tc
<1>11. 0 \in 0..q - 1 /\ q # 0
  BY <1>4
<1>12. f = 0
  <2>1. p[0] \in 1..m
    BY <1>8, <1>11
  <2>2. f <= 0
    BY <1>1, <1>9, <1>11, <2>1
  <2> QED BY <1>4, <2>2
<1>13. get_current_max(windspeeds) = day
  BY <1>8, <1>9, <1>11, <1>12 DEF get_current_max, q
<1>14. TooOldAt(windspeeds, 0, tc) <=> log[p[0]].time < tc
  BY <1>8, <1>11 DEF TooOldAt
<1>15. CASE log[p[0]].time < tc
  <2>1. get_max_forT(windspeeds, tc) = 0
    BY <1>14, <1>15 DEF get_max_forT
  <2>2. g # 0
    BY <1>3, <1>8, <1>10, <1>15
  <2>3. 0 < g
    BY <1>4, <2>2
  <2>4. log[p[0]].speed > log[p[g]].speed
    BY <1>6, <1>11, <2>3
  <2>5. hour # day
    BY <1>8, <1>9, <1>10, <1>11, <1>12, <2>4
  <2> QED BY <1>13, <2>1, <2>5 DEF tc
<1>16. CASE ~(log[p[0]].time < tc)
  <2>1. get_max_forT(windspeeds, tc) = log[p[0]].speed
    BY <1>8, <1>11, <1>14, <1>16 DEF get_max_forT, q
  <2>2. log[p[0]].time >= tc
    BY <1>3, <1>8, <1>11, <1>16
  <2>3. g = 0
    <3>1. g <= 0
      BY <1>10, <1>11, <2>2
    <3> QED BY <1>4, <3>1
  <2>4. hour = log[p[0]].speed /\ day = log[p[0]].speed
    BY <1>9, <1>10, <1>12, <2>3
  <2> QED BY <1>13, <2>1, <2>4 DEF tc
<1> QED BY <1>15, <1>16

\* get_current_max and get_max_forT give the maxima that WindMaxIsReal asks for,
\* for any size of the ring, any day and any hour, as long as no day brought more
\* values than the queue can hold.
THEOREM WindMax == SpecData => []WindMaxIsReal
BY WindInvariant, WindReal, PTL
=============================================================================
