---------------------------- MODULE MCFuelGauge ----------------------------
\* The gauge may answer the battery is empty, full, or anything between.
EXTENDS FuelGauge
MCReading == {0, 55, 100}
=============================================================================
