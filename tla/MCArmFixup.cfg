CONSTANTS
    f1 = f1  f2 = f2
    Threads = {t}
    Funs = {f1, f2}
    FunAt <- MCFunAt
    Flag <- NoFlag
    Prologues <- MCPrologues
    Replacements = {r1, r2}
    Handlers = {h}
    Arm = FALSE
    ArenaAt = 1000
    PageSize = 110
    BridgeSize = 40
    MaxPages = 2
    MaxEntries = 2
    MaxChunks = 4
    Null = Null
    MaxPrefixes = 2
    ModRMs <- MCModRMs
    Sources <- MCSources
    CopyAt = 1000
SPECIFICATION MCSpec
INVARIANT BranchesStayInCopy
CHECK_DEADLOCK FALSE
