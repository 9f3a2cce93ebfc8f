---------------------------- MODULE WeatherCond ----------------------------
(* What a measured value says of the weather: the limits of weather_cond_t. *)
EXTENDS Integers

GOOD == 0
BAD == 1
TERRIBLE == 2
PROHIBITED == 3
Levels == GOOD..PROHIBITED

\* Limits as in weather_cond_t; the conditions of the program are WeatherConf
\* (whole units) and the flags of mainweather.c (tenths of the 0 and 1 they take).
Cond(good, bad, terrible, prohibited, shtdnflag) ==
  [good |-> good, bad |-> bad, terrible |-> terrible, prohibited |-> prohibited,
   negflag |-> FALSE, shtdnflag |-> shtdnflag]

wind == Cond(5, 10, 15, 0, FALSE)
clouds == [Cond(2500, 2000, 500, 0, FALSE) EXCEPT !.negflag = TRUE]
badweathflag == Cond(1, 5, 20, 0, FALSE)
terrweathflag == Cond(1, 5, 7, 0, FALSE)
prohibweathflag == Cond(1, 5, 6, 7, FALSE)
shtdnflag == Cond(1, 5, 7, 8, TRUE)

\* The level of a value, -1 if it is neither good nor bad.  Whether there is a
\* limit for PROHIBITED is asked before the signs are turned.
NewLevel(curvalue, c) ==
  LET sign == IF c.negflag THEN -1 ELSE 1
      Over(limit) == sign * curvalue > sign * limit
  IN IF c.prohibited > c.terrible /\ Over(c.prohibited) THEN PROHIBITED
     ELSE IF Over(c.terrible) THEN TERRIBLE
     ELSE IF Over(c.bad) THEN BAD
     ELSE IF sign * curvalue < sign * c.good THEN GOOD
     ELSE -1

\* Values that turn everything off.
Shutdown(curvalue, c) == c.shtdnflag /\ NewLevel(curvalue, c) >= TERRIBLE

\* The level chkweatherlevel gives to a value.
Judged(curvalue, c) ==
  IF Shutdown(curvalue, c) THEN PROHIBITED ELSE NewLevel(curvalue, c)
=============================================================================
