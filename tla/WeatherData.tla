----------------------------- MODULE WeatherData -----------------------------
(***************************************************************************)
(* weatherdaemon_multimeteo: a collected value, here the wind, made of the *)
(* values of several stations of different importance (fix_new_data), and  *)
(* the sliding maximum of the wind (add_windspeed and its readers).        *)
(***************************************************************************)
EXTENDS Integers, Sequences

CONSTANTS Sensors,     \* stations that measure the wind
          Sense,       \* Sense[s]: the sense of their values
          Speeds,      \* the speeds they measure
          BadSpeed,    \* those that may make the level worse
          Late,        \* how old a value may be when it is given
          MAX_HISTORY, \* size of the history
          TOO_OLD_DATA,
          T_ONE_HOUR,
          ahtung_delay,
          TooLate,     \* the 60 s of fix_new_data
          MaxTime,     \* bound of the clock
          MaxSamples   \* bound of the number of values

ASSUME WeatherDataAssumption ==
  /\ Speeds \subseteq Nat \ {0} /\ Late \subseteq Nat
  /\ MAX_HISTORY \in Nat \ {0, 1} /\ TOO_OLD_DATA \in Nat /\ T_ONE_HOUR \in Nat
  /\ BadSpeed \in Nat /\ ahtung_delay \in Nat /\ TooLate \in Nat /\ MaxTime \in Nat /\ MaxSamples \in Nat

\* valsense_t.
VAL_FORCEDSHTDN == 0
VAL_OBLIGATORY == 1
VAL_RECOMMENDED == 2
VAL_UNNECESSARY == 3
VAL_BROKEN == 4

ASSUME SenseAssumption == Sense \in [Sensors -> VAL_FORCEDSHTDN..VAL_RECOMMENDED]

VARIABLES
  now,        \* seconds since the start; the epoch is long before
  collected,  \* collected_data[NWIND]
  windspeeds, \* the sliding maximum
  given,      \* history: the time of what every station gave last
  log,        \* history: the speeds of the last TOO_OLD_DATA, [speed, time]
  samples,    \* history: how many there were in all
  overrun,    \* history: more of them came in that time than the queue can hold
  clash       \* history: a value came with the time of the one collected

dataVars == <<now, collected, windspeeds, given, log, samples, overrun, clash>>

Index == 0..MAX_HISTORY - 1
Epoch == -1 - ahtung_delay - TooLate - TOO_OLD_DATA
Nothing == [sense |-> VAL_BROKEN, time |-> Epoch, val |-> 0]

InitData ==
  /\ now = 0
  /\ collected = Nothing
  /\ windspeeds = [speeds |-> [i \in Index |-> 0], timestamps |-> [i \in Index |-> Epoch],
                   write_idx |-> 0, deq |-> [i \in Index |-> 0], deq_head |-> 0, deq_tail |-> 0]
  /\ given = [s \in Sensors |-> Epoch]
  /\ log = <<>> /\ samples = 0
  /\ overrun = FALSE /\ clash = FALSE

-----------------------------------------------------------------------------
(* The queue of indices between deq_head and deq_tail, which run in a ring. *)

\* Queued indices; a full ring looks empty.
Queued(sm) == (sm.deq_tail - sm.deq_head) % MAX_HISTORY
\* The k-th of them, from 0.
At(sm, k) == sm.deq[(sm.deq_head + k) % MAX_HISTORY]

\* How many at the head are older than cutoff.
TooOldAt(sm, k, cutoff) == sm.timestamps[At(sm, k)] < cutoff
Expired(sm, cutoff) ==
  CHOOSE n \in 0..Queued(sm) :
    /\ \A k \in 0..n - 1 : TooOldAt(sm, k, cutoff)
    /\ n < Queued(sm) => ~TooOldAt(sm, n, cutoff)
DropOld(sm, cutoff) ==
  [sm EXCEPT !.deq_head = (@ + Expired(sm, cutoff)) % MAX_HISTORY]

\* Mutant: the last value is compared only once.
KeptButOne(sm, speed) ==
  IF Queued(sm) > 0 /\ sm.speeds[At(sm, Queued(sm) - 1)] <= speed
    THEN Queued(sm) - 1 ELSE Queued(sm)

\* How many remain when those not greater than speed are taken from the tail.
Kept(sm, speed) ==
  CHOOSE n \in 0..Queued(sm) :
    /\ \A k \in n..Queued(sm) - 1 : sm.speeds[At(sm, k)] <= speed
    /\ n > 0 => sm.speeds[At(sm, n - 1)] > speed
DropSmall(sm, speed) ==
  [sm EXCEPT !.deq_tail = (sm.deq_head + Kept(sm, speed)) % MAX_HISTORY]

Written(sm, speed, t) ==
  [sm EXCEPT !.speeds[sm.write_idx] = speed, !.timestamps[sm.write_idx] = t,
             !.write_idx = (@ + 1) % MAX_HISTORY]

\* Mutant: the tail does not turn at the end of the ring.
EnqueuedStraight(sm, i) ==
  [sm EXCEPT !.deq[sm.deq_tail] = i, !.deq_tail = @ + 1]

Enqueued(sm, i) ==
  [sm EXCEPT !.deq[sm.deq_tail] = i, !.deq_tail = (@ + 1) % MAX_HISTORY]

add_windspeed(sm, speed, t) ==
  Enqueued(DropSmall(DropOld(Written(sm, speed, t), t - TOO_OLD_DATA), speed), sm.write_idx)

get_current_max(sm) == IF Queued(sm) = 0 THEN 0 ELSE sm.speeds[At(sm, 0)]

\* The loop asks for the time of the head, whatever it has come to: an old
\* head hides all that is behind it.
get_max_forT(sm, tcutoff) ==
  IF Queued(sm) = 0 \/ TooOldAt(sm, 0, tcutoff) THEN 0 ELSE sm.speeds[At(sm, 0)]

-----------------------------------------------------------------------------
(* fix_new_data.                                                           *)

\* Mutant: the age of the collected value is not looked at the right way round.
OutranksOld(c, fresh) == c.sense < fresh.sense /\ fresh.time - c.time >= ahtung_delay

\* The collected value is better than the fresh one and not yet too old.
Outranks(c, fresh) == c.sense < fresh.sense /\ fresh.time - c.time <= ahtung_delay

fix_new_data(c, fresh, force) ==
  IF \/ c.time >= fresh.time /\ (~force \/ c.time - fresh.time > TooLate)
     \/ Outranks(c, fresh)
    THEN c
    ELSE fresh

\* The log without the speeds older than cutoff, which come first.
OldIn(cutoff) ==
  CHOOSE n \in 0..Len(log) : \A i \in 1..Len(log) : log[i].time < cutoff <=> i <= n
Recent(cutoff) == SubSeq(log, OldIn(cutoff) + 1, Len(log))

\* refresh_sensval with a wind of station s; force if it made the level worse.
Sample(s) ==
  /\ samples < MaxSamples
  /\ \E v \in Speeds, late \in Late : \E force \in {FALSE, v >= BadSpeed} :
       LET fresh == [sense |-> Sense[s], time |-> now - late, val |-> v]
       IN /\ fresh.time >= given[s]
          /\ windspeeds' = add_windspeed(windspeeds, v, now)
          /\ collected' = fix_new_data(collected, fresh, force)
          /\ given' = [given EXCEPT ![s] = fresh.time]
          /\ clash' = (clash \/ fresh.time <= collected.time)
          /\ log' = Append(Recent(now - TOO_OLD_DATA), [speed |-> v, time |-> now])
  /\ samples' = samples + 1
  /\ overrun' = (overrun \/ Len(log') >= MAX_HISTORY)
  /\ UNCHANGED now

Second ==
  /\ now < MaxTime
  /\ now' = now + 1
  /\ UNCHANGED <<collected, windspeeds, given, log, samples, overrun, clash>>

NextData == Second \/ \E s \in Sensors : Sample(s)

SpecData == InitData /\ [][NextData]_dataVars
=============================================================================
