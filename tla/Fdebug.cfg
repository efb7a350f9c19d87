SPECIFICATION FairSpec
CONSTANT MaxSent = 2
INVARIANTS SectionInv
PROPERTIES UnderOwnHeader EverythingShown
CHECK_DEADLOCK FALSE
