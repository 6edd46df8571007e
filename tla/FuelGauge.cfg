SPECIFICATION Spec
CONSTANT Reading <- MCReading
INVARIANTS TypeOK BatteryNeverRead OnlyTheAddress
