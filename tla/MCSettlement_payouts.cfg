\* Payouts: withdrawals and batches under caps, minimum balances and claim windows,
\* across midnight, racing timelocked migrations.
CONSTANTS
    Devs = {1, 2}
    Principals = {a, v}
    Nominees = {}
    Self = self
    Tokens = {t1}
    None = None
    Amounts = {1, 2}
    LedgerSeqs = {}
    CapValues = {1}
    MinValues = {1}
    WindowBounds = {1}
    Hashes = {}
    MAX_BATCH_SIZE = 2
    MAX_SETTLEMENTS = 2
    MaxItems = 2
    DAY = 2
    DEVELOPER_MIGRATION_TIMELOCK_SECONDS = 1
    MaxTime = 2
    I128Max = 2
    Genesis <- GenesisFunded
SPECIFICATION HSpec
SYMMETRY SwapPrincipals
CONSTRAINT LimitsOnlyForOne
INVARIANTS DailyTally 
PROPERTIES PayoutsAreDebited DailyCapHeld PayoutsKeepLimits MigrationMovesApproved
