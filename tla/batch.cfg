SPECIFICATION FairSpec
CONSTANTS
    Ops = {"album", "playlist", "artist"}
    MaxTracks = 3
    Concurrencies = {0, 1, 2}
    MaxWorkers = 2
INVARIANTS
    TypeOK
    ItemsExclusive
    NoTrackForgotten
    TagsMatchFiles
PROPERTIES
    KeepsPromise
    BatchesReturn
