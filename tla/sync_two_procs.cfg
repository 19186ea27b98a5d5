SPECIFICATION Spec
CONSTANTS
    server = server
    mcp = mcp
    ticker = ticker
    http = http
    tool = tool
    r1 = r1
    r2 = r2
    e1 = e1
    e2 = e2
    e3 = e3
    f1 = f1
    NoRepo = NoRepo
    ProcOf <- OneProc
    RepoOf <- MCRepoOf
    TS <- MCTS
    Procs = {server, mcp}
    Callers = {ticker, tool}
    Tickers = {ticker}
    Repos = {r1}
    Flaky = {r1}
    Events = {e1, e2, e3}
    PageSize = 2
    MaxOutages = 0
    MaxPanics = 0
    MaxCrashes = 1
SYMMETRY Symmetry
INVARIANTS NoGap CursorBacked ScannedMeansStored
PROPERTY MirrorSpec
