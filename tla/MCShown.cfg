SPECIFICATION EventCacheSpec
CONSTANTS
    Accounts = {alice, bob}
    Active = {alice}
    Nobody = Nobody
    Calls = {1, 2}
    MaxBlocks = 2
INVARIANT ShownIsConnected
