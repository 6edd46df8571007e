--------------------------- MODULE MCMinosReceive ---------------------------
\* The first two packets may bear 0xAA, the value that also starts a packet, one
\* or both; the readings are 181 and up, so that some look like the commands of
\* replies; a PRINT is long enough to fill what is left of a packet it falls
\* into, and with a poll's answer more than fills the ring.
EXTENDS MinosReceive
MCText == <<49, 58, 32, 48, 10, 13, 50, 58, 32, 48, 10, 13, 51, 58, 32, 48, 10, 13, 52, 58>>
MCSequence == <<{1, 170}, {1, 170}, {1}>>
=============================================================================
