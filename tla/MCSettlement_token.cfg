\* A migration proposed in one token and executed after set_usdc_token.
CONSTANTS
    Devs = {1, 2}
    Principals = {a, v}
    Nominees = {}
    Self = self
    Tokens = {t1, t2}
    None = None
    Amounts = {1}
    LedgerSeqs = {}
    CapValues = {}
    MinValues = {}
    WindowBounds = {}
    Hashes = {}
    MAX_BATCH_SIZE = 2
    MAX_SETTLEMENTS = 2
    MaxItems = 1
    DAY = 2
    DEVELOPER_MIGRATION_TIMELOCK_SECONDS = 1
    MaxTime = 1
    I128Max = 1
    Genesis <- GenesisEmpty
SPECIFICATION HSpec
PROPERTY MigratesApprovedToken
