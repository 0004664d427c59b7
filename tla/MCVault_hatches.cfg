\* Governance: rotating admins, the pause and upgrade hatches, changing windows, a moving clock.
CONSTANTS
    u1 = u1
    u2 = u2
    Users = {u1, u2}
    VaultAddr = vault
    None = None
    Amounts = {}
    Openings = {0}
    Limits = {1}
    Caps = {1}
    RequestIds = {1}
    MaxBatch = 0
    Slots = {"pause", "upgrade"}
    Hashes = {h1}
    Windows = {0, 1, 2, 3}
    Nominees = {u1, u2}
    Genesis <- GenesisPoor
    MIN_TIMELOCK_SECONDS = 1
    DEFAULT_TIMELOCK_SECONDS = 2
    MAX_TIMELOCK_SECONDS = 2
    U64Max = 4
    I128Max = 1
SPECIFICATION WFairSpec
INVARIANTS TypeOK DelayHonoured 
PROPERTIES UpgradeIsTimelocked AdminIsTwoStep ProposalsMature
