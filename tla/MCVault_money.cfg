\* Money: deposits, single and batch deductions, gifts, sweeps, changing limits and
\* settlement addresses; one admin, one window.
CONSTANTS
    u1 = u1
    u2 = u2
    Users = {u1, u2}
    VaultAddr = vault
    None = None
    Amounts = {1, 2}
    Openings = {0, 2}
    Limits = {1, 2}
    Caps = {}
    RequestIds = {r1}
    MaxBatch = 2
    Slots = {"sweep"}
    Hashes = {}
    Windows = {}
    Nominees = {}
    Genesis <- GenesisFunded
    MIN_TIMELOCK_SECONDS = 1
    DEFAULT_TIMELOCK_SECONDS = 1
    MAX_TIMELOCK_SECONDS = 1
    U64Max = 2
    I128Max = 3
SPECIFICATION HSpec
INVARIANT CoveredDespiteSweeps
PROPERTIES SurplusFallsOnlyByMaturedSweep NeverOverdrawn DeductionsReachSettlement PauseFreezesMoney
