SPECIFICATION FairSpec
CONSTANTS
    c1 = c1
    c2 = c2
    Callers = {c1, c2}
    Kinds = {"get", "post"}
    Minute = 4
    Rates = {0, 2}
    MAX_RETRIES = 1
    BaseBackoff = 1
    NoCall = NoCall
    MaxCalls = 2
    IdleUntil = 0
INVARIANTS
    TypeOK
    SlotsSpaced
    SlotsAwaited
    ResendsBounded
PROPERTY
    CallsEnd
