-------------------------- MODULE WeatherRegister --------------------------
(***************************************************************************)
(* What get_weather_data promises to its callers: the record they get is   *)
(* the one published at some moment of their call, and no older than the   *)
(* last one before the memory they opened was withdrawn.  A call that      *)
(* overlaps a filling of the memory with zeros is promised nothing.        *)
(***************************************************************************)
CONSTANTS Readers,   \* the processes that call get_weather_data
          Records,   \* the records that may be published
          Zero       \* the record of a memory filled with zeros

VARIABLES value,     \* the published weather
          zeroing,   \* the memory is being filled with zeros
          reading,   \* the calls in progress
          attached,  \* those whose memory is still the current one
          view,      \* the record each of them is to return
          spoiled,   \* the calls that overlap a filling
          answer     \* the record of a call that has ended, Zero if there is none

vars == <<value, zeroing, reading, attached, view, spoiled, answer>>

Init == /\ value \in Records /\ zeroing = FALSE
        /\ reading = {} /\ attached = {} /\ spoiled = {}
        /\ view = [r \in Readers |-> Zero]
        /\ answer = [r \in Readers |-> Zero]

Begin(r) ==
  /\ r \notin reading
  /\ reading' = reading \cup {r}
  /\ attached' = attached \cup {r}
  /\ view' = [view EXCEPT ![r] = value]
  /\ spoiled' = IF zeroing THEN spoiled \cup {r} ELSE spoiled
  /\ UNCHANGED <<value, zeroing, answer>>

\* An update, which is whole for every reader.
Publish(v) ==
  /\ value' = v
  /\ view' = [r \in Readers |-> IF r \in attached THEN v ELSE view[r]]
  /\ UNCHANGED <<zeroing, reading, attached, spoiled, answer>>

\* A step of the filling with zeros; after the last one the record is Zero.
Fill ==
  /\ \/ zeroing' = TRUE /\ UNCHANGED value
     \/ zeroing' = FALSE /\ value' = Zero
  /\ spoiled' = spoiled \cup attached
  /\ UNCHANGED <<reading, attached, view, answer>>

\* The memory loses its name: the calls in progress keep what it holds.
Withdraw ==
  /\ attached' = {} /\ value' = Zero
  /\ UNCHANGED <<zeroing, reading, view, spoiled, answer>>

\* The call of r is over.
Leave(r) ==
  /\ r \in reading
  /\ reading' = reading \ {r}
  /\ attached' = attached \ {r}
  /\ spoiled' = spoiled \ {r}
  /\ view' = [view EXCEPT ![r] = Zero]
  /\ UNCHANGED <<value, zeroing>>

Return(r, a) ==
  /\ a = view[r] \/ r \in spoiled
  /\ Leave(r)
  /\ answer' = [answer EXCEPT ![r] = a]

\* A call fails, or its process dies.
Fail(r) == Leave(r) /\ UNCHANGED answer

\* The caller has done with the record.
Drop(r) ==
  /\ answer' = [answer EXCEPT ![r] = Zero]
  /\ UNCHANGED <<value, zeroing, reading, attached, view, spoiled>>

Next ==
  \/ \E r \in Readers : Begin(r) \/ Fail(r) \/ Drop(r) \/ \E a \in Records : Return(r, a)
  \/ \E v \in Records : Publish(v)
  \/ Fill \/ Withdraw

Spec == Init /\ [][Next]_vars
=============================================================================
