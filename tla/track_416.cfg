SPECIFICATION Spec
CONSTANTS
    HeadBlocks = 2
    BodyBlocks = 2
    TagSizes = {2, 4}
    MAX_DOWNLOAD_RETRIES = 1
    Ops = {"track", "album"}
INVARIANT AlreadyCompleteHandled
