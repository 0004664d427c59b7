\* Single and batch creations up to the last id, over a moving clock and two admins.
CONSTANTS
    Users = {u1, u2}
    None = None
    Subjects = {s1, s2}
    Balances <- SignedBalances
    MAX_BATCH_SIZE = 2
    MaxItems = 3
    MAX_PAGE_SIZE = 2
    MaxTime = 2
    U64Max = 5
SPECIFICATION Spec
INVARIANTS TypeOK IdsDense ChronologicalIds PagingSeesAll
PROPERTY HistoryImmutable
