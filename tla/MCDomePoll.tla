----------------------------- MODULE MCDomePoll -----------------------------
(* dome_poll called by two threads, with a roof of two covers. *)
EXTENDS DomePollProps, TLC

CONSTANTS north, south, t1, t2

MCCovers == {north, south}
MCRelays == {1}
MCThreads == {t1, t2}
\* Relay 1 is the one that feeds the motors: a client may switch it by hand.
MCCommands ==
  {Poll, [cmd |-> "DOME_OPEN", par |-> 0], [cmd |-> "DOME_STOP", par |-> 0],
   [cmd |-> "DOME_RELAY_OFF", par |-> 1]}
    \cup [cmd : {"DOME_CLOSE_ONE"}, par : MCCovers]

\* A roof with one cover and fewer commands, for the temporal properties.
MCCover == {north}
MCFewCommands == {Poll, Close}

\* No thread and no cover is special here.
Symmetry == Permutations(MCCovers) \cup Permutations(MCThreads)
=============================================================================
