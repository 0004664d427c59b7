\* The move out of the V1 layout and the reconciliation job, with payments that insert
\* developers before, at and after the positions the two have reached.
CONSTANTS
    Devs = {1, 2, 3}
    Principals = {a, v}
    Nominees = {}
    Self = self
    Tokens = {t1}
    None = None
    Amounts = {1}
    LedgerSeqs = {1}
    CapValues = {}
    MinValues = {}
    WindowBounds = {}
    Hashes = {}
    MAX_BATCH_SIZE = 2
    MAX_SETTLEMENTS = 1
    MaxItems = 1
    DAY = 2
    DEVELOPER_MIGRATION_TIMELOCK_SECONDS = 2
    MaxTime = 0
    I128Max = 2
    Genesis <- OneEach
    Operator = a
    BatchSizes = {0, 3}
    StrayOffsets = {0}
    MaxRestarts = 1
    Deployed <- DeployedV1
    PageLimits = {1, 3}
    MAX_DEVELOPER_BALANCES_PAGE_SIZE = 2
SPECIFICATION WalkSpec
INVARIANTS MigrationLosesNothing WalksMissNobody
PROPERTY LoopFinishes
