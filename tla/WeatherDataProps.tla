--------------------------- MODULE WeatherDataProps ---------------------------
(* What the collected wind is relied upon for. *)
EXTENDS WeatherData

\* The indices keep to the history and the collected value to its fields.
DataTypeOK ==
  /\ now \in 0..MaxTime /\ samples \in 0..MaxSamples
  /\ overrun \in BOOLEAN /\ clash \in BOOLEAN
  /\ collected \in [sense : VAL_FORCEDSHTDN..VAL_BROKEN, time : Int, val : Nat]
  /\ windspeeds \in [speeds : [Index -> Nat], timestamps : [Index -> Int], write_idx : Index,
                     deq : [Index -> Index], deq_head : Index, deq_tail : Index]
  /\ given \in [Sensors -> Int] /\ log \in Seq([speed : Nat, time : Int])

\* The greatest speed since a moment, 0 if there is none.
GreatestSince(t) ==
  LET recent == {i \in DOMAIN log : log[i].time >= t}
  IN IF recent = {} THEN 0
     ELSE CHOOSE v \in {log[i].speed : i \in recent} : \A i \in recent : log[i].speed <= v

\* When a speed has just come, and the queue has always been long enough for a
\* day, WINDMAX is the greatest speed of the day, and WINDMAX1 that of the hour
\* if it is that of the day as well; else WINDMAX1 is 0.
WindMaxIsReal ==
  LET day == GreatestSince(now - TOO_OLD_DATA)
      hour == GreatestSince(now - T_ONE_HOUR)
  IN log # <<>> /\ log[Len(log)].time = now /\ ~overrun =>
       /\ get_current_max(windspeeds) = day
       /\ get_max_forT(windspeeds, now - T_ONE_HOUR) = IF hour = day THEN hour ELSE 0

\* A station that no other outranks is believed as long as it was heard within
\* ahtung_delay, unless two values have come with the same second, or in the
\* wrong order.  (The second in rank has no such right: when the first falls
\* silent, whoever speaks next is believed.)
Highest(s) == \A t \in Sensors : Sense[s] <= Sense[t]
ImportantWins ==
  ~clash => \A s \in Sensors :
    Highest(s) /\ given[s] # Epoch /\ collected.time - given[s] <= ahtung_delay =>
      collected.sense = Sense[s]
=============================================================================
