SPECIFICATION MCSpec
CONSTANTS
    Accounts = {alice, bob}
    Active = {alice}
    Nobody = Nobody
    Calls = {1, 2}
    MaxBlocks = 2
INVARIANTS CacheComplete SearchedOnce
PROPERTY FieldIsShown
