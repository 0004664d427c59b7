\* Credits and roles: duplicated and reordered payments, single and in batches,
\* force credits, rotating admins and vaults.
CONSTANTS
    Devs = {1, 2}
    Principals = {a, v}
    Nominees = {v}
    Self = self
    Tokens = {t1}
    None = None
    Amounts = {1}
    LedgerSeqs = {0, 1, 2}
    CapValues = {}
    MinValues = {}
    WindowBounds = {}
    Hashes = {h1}
    MAX_BATCH_SIZE = 2
    MAX_SETTLEMENTS = 2
    MaxItems = 2
    DAY = 2
    DEVELOPER_MIGRATION_TIMELOCK_SECONDS = 2
    MaxTime = 0
    I128Max = 2
    Genesis <- GenesisEmpty
SPECIFICATION HSpec
INVARIANTS TypeOK NoPaymentAppliedTwice IndexComplete IndexerAgrees
PROPERTY RolesAreTwoStep
