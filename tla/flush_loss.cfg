SPECIFICATION Spec
CONSTANTS
    t1 = t1
    t2 = t2
    p1 = p1
    p2 = p2
    p3 = p3
    Threads = {t1, t2}
    NoThread = NoThread
    Pairs = {p1, p2, p3}
    NoPair = NoPair
    NoClient = NoClient
    Bundles <- MCBundles
    Ops = {"url", "get", "cover", "refresh"}
    Persist = TRUE
    WriteFaults = {"flush"}
    MaxCalls = 1
    MaxRotations = 1
INVARIANT DurableBeforeAdopt
