SPECIFICATION CursorSpec
CONSTANTS
    Top = 4
    NoSeq = NoSeq
    First = {0, 3}
INVARIANTS CursorIsLastSeenPlusOne NoReplay NothingMissing
CHECK_DEADLOCK FALSE
