\* Every rounding of a small denominator; charges, refills and configurations that change;
\* batches smaller and larger than what is active; repeated and unordered keys.
CONSTANTS
    Signers = {s1, s2}
    Shares <- AllShares
    Splits <- AnySplit
    BPS_DENOMINATOR = 10
    I128Max = 50
    Capacities = {1, 3}
    RefillRates <- Rates
    Charges = {1, 2}
    MaxLedger = 4
    MaxCharges = 4
    BucketMax = 5
    Payloads = {p1, p2}
    ArchiveSizes = {1, 2, 4}
    MaxHead = 3
    Keys = {1, 2, 3}
    Values = {x, y}
    MaxEntries = 2
SPECIFICATION LibSpec
INVARIANTS  DiffIsExact
PROPERTIES RebalanceIsSafe NoEventSkipped
CHECK_DEADLOCK FALSE
