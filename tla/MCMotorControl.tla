--------------------------- MODULE MCMotorControl ---------------------------
\* Each wheel may be asked to stand, to go forwards at the highest speed and to
\* go backwards at a low one; a reading is below SEN_MIN, between the
\* two limits or beyond SEN_MAX.
EXTENDS MotorControl
MCByte == {0, 127, 129}
MCPacket ==
  {[command |-> CMD_MOTORS, data1 |-> a, data2 |-> b] : a, b \in MCByte}
  \cup [command : {CMD_ENABLE_SENSORS, CMD_AUTONOMOUS_MODE}, data1 : {0, 1}, data2 : {0}]
  \cup [command : {CMD_SENSOR, CMD_GET_SENSOR_DATA, CMD_BATTERY}, data1 : {0}, data2 : {0}]
=============================================================================
