SPECIFICATION Spec
CONSTANTS
    Ops = {"album"}
    MaxTracks = 2
    Concurrencies = {2}
    MaxWorkers = 2
INVARIANT FailsOnlyWhenAllFailed
