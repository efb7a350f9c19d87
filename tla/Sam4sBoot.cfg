SPECIFICATION FairBootSpec
INVARIANTS SourceLocked ConfiguredClock
PROPERTIES NoRashSwitch BootEnds
CHECK_DEADLOCK FALSE
