--------------------------- MODULE MCFirmwareLink ---------------------------
\* Two packets are ten bytes, more than twice the two-byte FIFO, so overruns,
\* left-over bytes and both places of a packet boundary occur; the sequence
\* number of one of them is 0xAA, the value that also starts a packet.
EXTENDS FirmwareLink
MCPacket == {[seq |-> 170, command |-> CMD_BATTERY, data1 |-> 0, data2 |-> 0],
             [seq |-> 1, command |-> CMD_ENABLE_SENSORS, data1 |-> 1, data2 |-> 170]}
=============================================================================
