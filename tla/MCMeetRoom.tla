----------------------------- MODULE MCMeetRoom -----------------------------
\* Instance of MeetRoom for TLC.
EXTENDS MeetRoom

CONSTANTS chair, h1, h2

SomePicks == {<<chair>>, <<h1, h2>>}

\* Once two processes have been at work at once, every property is left open.
NotCrossed == ~crossed

\* Each pardon that waits has a process left for its side turn; or it is the only one, and
\* what it waits for, or has killed, is the last process, which has outlived the others.
\* With a project selected the prompter finds no round to park or to continue: a process
\* less.
InReach ==
  LET waiting == pardon.waiting + pardon.killed
      Alone   == active = started /\ \A p \in Procs : p < started => proc[p].pc = "closed"
  IN
  /\ NotCrossed
  /\ started + waiting <= MaxProcs \/ (waiting = 1 /\ Alone)
  /\ inProject => started < MaxProcs

=============================================================================
