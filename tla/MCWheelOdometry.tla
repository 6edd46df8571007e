-------------------------- MODULE MCWheelOdometry --------------------------
\* Bytes of four values: one tick reads as four and four as one, five ticks are
\* read as five, and one tick back, which turns the whole counter over, as one
\* back.
EXTENDS WheelOdometry
MCTicks == [w \in Wheels |-> IF w = "left" THEN 2 ELSE 3]
MCTravel == [w \in Wheels |-> IF w = "left" THEN -1..5 ELSE 0..1]
=============================================================================
