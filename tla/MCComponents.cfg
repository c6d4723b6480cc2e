SPECIFICATION FairSpec
CHECK_DEADLOCK FALSE \* a part stops when its work is done
INVARIANTS ComponentTypes NothingLost NothingDoubled
PROPERTIES NothingUndone WorkEnds
