CONSTANTS
    t1 = t1  t2 = t2  m1 = m1  m2 = m2  f1 = f1  f2 = f2
    p1 = p1  p2 = p2  p3 = p3
    Threads = {t1, t2}
    Members = {m1, m2}
    Funcs = {f1, f2}
    Patches = {p1, p2, p3}
    FuncOf <- MCCanonical
    Priority <- MCPriority
    LoaderHash <- MCLoaderHash
    IdentityHash <- MCIdentityHash
    MaxId = 3
    Null = Null
SPECIFICATION FairSpec
INVARIANTS TypeOK NoGhost RegisteredInEffect RecoverAnswersExistence HigherPriorityFirst
PROPERTIES CallsReturn PatchAnswersInEffect ImplementsRegistry
