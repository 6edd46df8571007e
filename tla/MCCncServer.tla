---------------------------- MODULE MCCncServer ----------------------------
\* Two browsers, one that drives and looks around with the camera, and one that
\* only drives.
EXTENDS CncServer

MCChords == [c \in Clients |-> IF c = "a" THEN SUBSET Keys ELSE {{}, {"W"}}]
=============================================================================
