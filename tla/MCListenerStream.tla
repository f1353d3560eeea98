--------------------------- MODULE MCListenerStream ---------------------------
EXTENDS ListenerStream

MCDiffs == {-1, 3}
MCLiveDiffs == {-1}
=============================================================================
