SPECIFICATION FairSpec
CONSTANTS
    HeadBlocks = 2
    BodyBlocks = 2
    TagSizes = {1}
    MAX_DOWNLOAD_RETRIES = 1
    Ops = {"album"}
PROPERTY FinishedNotCorrupted
