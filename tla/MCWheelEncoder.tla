--------------------------- MODULE MCWheelEncoder ---------------------------
\* With bytes of four values the counter has sixteen: both the carry from the
\* low byte and the wrap of the counter come within the wheel's travel.
EXTENDS WheelEncoder
=============================================================================
