--------------------------- MODULE MCCommandQueue ---------------------------
\* The queue thread's own two commands and the one the command thread adds,
\* with their periods in turns of the queue thread: the heaviest load that is
\* still a light one.
EXTENDS CommandQueue
MCOwn == <<"keepalive", "swapdepth">>
MCPeriod == [keepalive |-> 6, swapdepth |-> 5, frameproxy |-> 6]

ASSUME MCLoad == LightLoad
=============================================================================
