\* Everything the pool does, with two accounts that trade the admin and guardian roles.
CONSTANTS
    Users = {u1, u2}
    Pool = pool
    Usdc = usdc
    None = None
    Amounts = {1, 2}
    Caps = {0, 1}
    Hashes = {h1}
    MAX_BATCH_SIZE = 2
    MaxItems = 2
    EMERGENCY_DRAIN_TIMELOCK_SECONDS = 1
    MaxTime = 2
    I128Max = 2
    Genesis <- GenesisFunded
SPECIFICATION HSpec
INVARIANTS TypeOK MonitorAgrees
PROPERTIES OutflowsAuthorised DrainIsTimelocked
