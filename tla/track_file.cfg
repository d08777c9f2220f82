SPECIFICATION FairSpec
CONSTANTS
    HeadBlocks = 2
    BodyBlocks = 3
    TagSizes = {1, 2, 4}
    MAX_DOWNLOAD_RETRIES = 2
    Ops = {"track", "album"}
INVARIANTS
    TypeOK
    FileIsSound
PROPERTIES
    OkIsComplete
    FinishedStaysFinished
    FileResumes
    CallsEnd
