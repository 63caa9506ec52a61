CONSTANTS
    Threads = {java, native}
    Native = {native}
    Listeners = {l1, l2}
    MaxDepth = 2
    Null = Null
    so1 = so1  so2 = so2
    Modules = {so1, so2}
    LoadedAt <- MCLoadedAt
    MapsTo = {7, 50}
    Bases = {0, 7, 9}
    Offset = 3
    NoModule = NoModule
    Half = 2
    MaxLines = 3
SPECIFICATION MCSpec
INVARIANTS ReadyWhenHooked AttachedWhileNeeded SmallestCover
    FoundIfDefined AddressOfSymbol
PROPERTY LoadsReturn
CHECK_DEADLOCK FALSE
