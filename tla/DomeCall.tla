------------------------------ MODULE DomeCall ------------------------------
(***************************************************************************)
(* What dome_poll() promises to the threads that call it: the calls go to  *)
(* the device one after another, each sends its command at most once, and  *)
(* each returns.  Nothing is promised about a command when an exchange     *)
(* with the device fails: dome_poll may then report success.               *)
(*                                                                         *)
(* DomePoll implements this, DomeServer is built on it.                    *)
(***************************************************************************)
EXTENDS DomeCommands

CONSTANTS Threads,   \* the threads that call dome_poll
          Commands,  \* the calls they make: records [cmd, par]
          Faults     \* whether exchanges with the device may fail

VARIABLES holder,   \* the thread whose call has the serial line
          request,  \* what each thread is doing in dome_poll
          order,    \* the last order the device obeyed
          faulted   \* an exchange has failed, or the daemon restarted

callVars == <<holder, request, order, faulted>>

Idle == [pc |-> "out", do |-> Poll, ok |-> FALSE, obeyed |-> FALSE]

CallTypeOK ==
  /\ holder \in Threads \cup {NoThread}
  /\ request \in [Threads -> [pc : {"out", "wait", "held", "sent", "done"},
                              do : Commands, ok : BOOLEAN, obeyed : BOOLEAN]]
  /\ order \in Orders \cup {"none"}
  /\ faulted \in BOOLEAN /\ (faulted => Faults)

CallInit ==
  /\ holder = NoThread
  /\ request = [t \in Threads |-> Idle]
  /\ order = "none"
  /\ faulted = FALSE

Blame(failed) == (failed => Faults) /\ faulted' = (faulted \/ failed)

\* A call begins; a poll that comes too early returns at once.
Enter(t, k) ==
  /\ request[t].pc = "out"
  /\ \/ request' = [request EXCEPT ![t] = [Idle EXCEPT !.pc = "wait", !.do = k]]
     \/ k.cmd = "DOME_POLL" /\ request' = [request EXCEPT ![t] =
                                             [Idle EXCEPT !.pc = "done", !.ok = TRUE]]
  /\ UNCHANGED <<holder, order, faulted>>

Lock(t) ==
  /\ request[t].pc = "wait"
  /\ holder = NoThread
  /\ holder' = t
  /\ request' = [request EXCEPT ![t].pc =
                    IF request[t].do.cmd = "DOME_POLL" THEN "sent" ELSE "held"]
  /\ UNCHANGED <<order, faulted>>

\* The command reaches the device or does not, and the answer says so or not.
Send(t) ==
  /\ request[t].pc = "held"
  /\ \E reached, failed \in BOOLEAN :
       /\ reached \/ failed
       /\ Blame(failed)
       /\ order' = IF reached /\ request[t].do.cmd \in Orders THEN request[t].do.cmd
                                                            ELSE order
       /\ request' = [request EXCEPT ![t].pc = "sent", ![t].obeyed = ~failed]
  /\ UNCHANGED holder

\* An exchange fails behind the command: its status request, or the one that
\* switches the motors off.
Stumble ==
  /\ holder # NoThread
  /\ Blame(TRUE)
  /\ UNCHANGED <<holder, request, order>>

\* Mutant: the call returns with the lock held.
AnswerKeepsLock(t) ==
  /\ request[t].pc = "sent"
  /\ \E ok \in BOOLEAN : /\ ok \/ faulted
                         /\ request' = [request EXCEPT ![t].pc = "done", ![t].ok = ok]
  /\ UNCHANGED <<holder, order, faulted>>

\* The call ends; it reports an error only if an exchange has failed.
Answer(t) ==
  /\ request[t].pc = "sent"
  /\ \E ok \in BOOLEAN : /\ ok \/ faulted
                         /\ request' = [request EXCEPT ![t].pc = "done", ![t].ok = ok]
  /\ holder' = NoThread
  /\ UNCHANGED <<order, faulted>>

\* The caller uses the result and goes on.
Take(t) ==
  /\ request[t].pc = "done"
  /\ request' = [request EXCEPT ![t] = Idle]
  /\ UNCHANGED <<holder, order, faulted>>

CallStep(t) == Lock(t) \/ Send(t) \/ Answer(t)

\* The process is started again.
Reset ==
  /\ Faults
  /\ faulted' = TRUE
  /\ holder' = NoThread
  /\ request' = [t \in Threads |-> Idle]
  /\ UNCHANGED order

CallNext ==
  \/ \E t \in Threads : CallStep(t) \/ Take(t) \/ \E k \in Commands : Enter(t, k)
  \/ Stumble
  \/ Reset

CallSpec == CallInit /\ [][CallNext]_callVars
=============================================================================
