CONSTANTS
    Helpers = {h1}
    Owner = owner
    Original = original
    NULL = NULL
    NoThrow = NoThrow
    Uses <- MCFreeUses
SPECIFICATION RegistersSpec
INVARIANT SentinelStaysInside
