---------------------------- MODULE MCReplyQueue ----------------------------
\* Instance of ReplyQueue for TLC.
EXTENDS ReplyQueue

OneMessage == {1}

=============================================================================
