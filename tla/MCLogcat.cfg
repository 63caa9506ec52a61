CONSTANTS
    Threads = {t1}
    Classes = {c1, c2}
    MaxDepth = 5
    Null = Null
    list = list
    bean = bean
    copy = copy
    map = map
    word = word
    getters = getters
    short = short
    NullObject = NullObject
    Callers = {t1}
    Custom = {getters, short}
    Objects <- MCObjects
    KindOf <- MCKindOf
    ClassOf <- MCClassOf
    ItemsOf <- MCItemsOf
    Takes <- MCTakes
    ValuesOf <- MCValuesOf
SPECIFICATION MCSpec
INVARIANTS DepthIsNesting IgnoresWhileFormatting ElidedNameIsAbove
    CutsExactlyCycles ChainTakesEveryObject
PROPERTY ToStringEnds
