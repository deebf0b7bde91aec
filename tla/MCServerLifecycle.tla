------------------------- MODULE MCServerLifecycle -------------------------
EXTENDS ServerLifecycle

\* Three processes: two servers and a command, or more commands.
CONSTANTS p1, p2, p3
ThreePids == {p1, p2, p3}
=============================================================================
