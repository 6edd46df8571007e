---------------------------- MODULE MCHostFrames ----------------------------
\* Two sources, so that a change from one to the other exists beside the live
\* picture, and enough frames for each buffer to be filled and shown again.
\* One of the sources draws the room map: its facts are evaluated here too,
\* for every history of eight bits and every place within two sectors.
EXTENDS HostFrames, RoomMap

ASSUME RoomMapFacts ==
  CountFollowsHistory /\ OnePointPerPlace(0..2 * BlockSize) /\ OverlapBehind
=============================================================================
