CONSTANTS
    Models <- MCModels
    Efforts <- MCEfforts
    Keyless <- MCKeyless
    FirstModel = "m1"
    FirstEffort = "low"
    MaxControls = 4
SPECIFICATION FairSpec
INVARIANTS
    SettingsInForce
    StartsInOrder
    RevokedNeverStarts
PROPERTY
    MessagesSettle
CHECK_DEADLOCK FALSE
