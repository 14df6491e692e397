------------------------------ MODULE MCChatLog ------------------------------
\* Instances of ChatLog for TLC.
EXTENDS ChatLog

CONSTANTS m1, m2, p1, p2, q1

\* Requests of one message each; the same one may be sent twice at once.
TwoBatches == {<<m1>>, <<m2>>}

\* One pull may read a page, as the retry of a recovery does, the other two.
TwoCaps == [q \in Pullers |-> IF q = q1 THEN 1 ELSE 2]

\* The first request is p1's, for m1.  Messages and requests are interchangeable, so a
\* run that begins otherwise is one of these with the names exchanged.
NamedInOrder ==
  pushes = 1 => pc[p2] = "idle" /\ todo[p1] \in {<<>>, <<m1>>}

=============================================================================
