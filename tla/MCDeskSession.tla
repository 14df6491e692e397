---------------------------- MODULE MCDeskSession ----------------------------
\* Instances of DeskSession for TLC.  Projects, sessions and callers are
\* interchangeable.
EXTENDS DeskSession, TLC

Interchangeable ==
  Permutations(Slugs) \cup Permutations(Sessions) \cup Permutations(Callers)

=============================================================================
