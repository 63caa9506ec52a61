CONSTANTS
    t1 = t1  t2 = t2  m1 = m1  f1 = f1  p1 = p1  p2 = p2
    Threads = {t1, t2}
    Callers = {t1}
    Members = {m1}
    Funcs = {f1}
    Patches = {p1, p2}
    FuncOf <- MCFuncOf
    Priority <- MCPriority
    LoaderHash <- MCHash
    IdentityHash <- MCHash
    MaxId = 2
    MaxDepth = 2
    Null = Null
    Helpers = {h1, h2, h3}
    Owner = owner
    Original = original
    NULL = NULL
    NoThrow = NoThrow
    Uses <- MCSafeUses
    main = main  remote = remote  a = a  b = b  other = other
    app = app  elsewhere = elsewhere  appRemote = appRemote
    NoFile = NoFile
    Processes = {main, remote}
    Classes <- MCClasses
    Files <- MCFiles
    Default = a
    Target <- MCTarget
    PackageOf <- MCPackageOf
    NameOf <- MCNameOf
SPECIFICATION MCSpec
INVARIANTS ResultDecided Bracketed SentinelStaysInside LastResultWins
    LoadedOnce EveryLoaderCalled
PROPERTY LoadingEnds
