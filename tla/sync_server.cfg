SPECIFICATION FairSpec
CONSTANTS
    server = server
    mcp = mcp
    ticker = ticker
    http = http
    tool = tool
    r1 = r1
    r2 = r2
    e1 = e1
    e2 = e2
    e3 = e3
    f1 = f1
    NoRepo = NoRepo
    ProcOf <- OneProc
    RepoOf <- MCRepoOf
    TS <- MCTS
    Procs = {server}
    Callers = {ticker, http}
    Tickers = {ticker}
    Repos = {r1, r2}
    Flaky = {r2}
    Events = {e1, e2, e3}
    PageSize = 3
    MaxOutages = 1
    MaxPanics = 1
    MaxCrashes = 1
INVARIANTS TypeOK SyncExclusive BusyFlagExact
    EveryRepoAccounted
PROPERTIES SyncEnds PushedIsStored
