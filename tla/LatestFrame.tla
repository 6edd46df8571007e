----------------------------- MODULE LatestFrame -----------------------------
\* What the buffers of a camera promise their reader: two frames, the one
\* shown and the one on offer; a new frame replaces the one on offer, and the
\* reader exchanges the two.  Exchanging without a new frame in between shows
\* the older frame again (src/ids/kinect.cpp:122).
EXTENDS Naturals

VARIABLES newest, offer, shown
vars == <<newest, offer, shown>>

Init == newest = 0 /\ offer = 0 /\ shown = 0

Publish ==
  /\ newest' = newest + 1
  /\ offer' = newest + 1
  /\ UNCHANGED shown

Take ==
  /\ shown' = offer
  /\ offer' = shown
  /\ UNCHANGED newest

Next == Publish \/ Take
Spec == Init /\ [][Next]_vars
=============================================================================
