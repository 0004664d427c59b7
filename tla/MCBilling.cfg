\* Claims that are lost, repeated and delayed, over one USDC ledger, with payouts and pauses.
CONSTANTS
    Devs = {1, 2}
    Principals = {backend, vault}
    Nominees = {}
    Self = self
    Tokens = {t1}
    None = None
    Amounts = {1}
    LedgerSeqs = {}
    CapValues = {}
    MinValues = {}
    WindowBounds = {}
    Hashes = {}
    MAX_BATCH_SIZE = 2
    MAX_SETTLEMENTS = 2
    MaxItems = 2
    DAY = 2
    DEVELOPER_MIGRATION_TIMELOCK_SECONDS = 2
    MaxTime = 0
    I128Max = 9
    Genesis <- NoGenesis
    Owner = owner
    Backend = backend
    Wallet = wallet
    VaultAddr = vault
    Charges <- SomeCharges
    Prepaid = 3
SPECIFICATION BillingSpec
 
PROPERTY DebitsGetCredited
