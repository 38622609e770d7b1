CONSTANTS
    MaxAttempts = 2
    ShrinkRounds = 2
    MaxMessages = 2
    MaxFits = 2
    MaxBreaks = 1
SPECIFICATION FairSpec
INVARIANTS
    EachMessageOnce
    NeverRefused
    AttemptsBounded
PROPERTIES
    RoomIsMade
