SPECIFICATION Spec
CONSTANTS
    s1 = s1
    NoPair = NoPair
    None = None
    Texts <- MCTexts
    NoText = ""
    Unquoted <- MCUnquoted
    Commented <- MCCommented
    Services = {s1}
    Bundles <- MCBundles
    HostFiles <- MCHostFiles
    Configs <- MCConfigs
    Users = {"u", "v"}
    Tokens = {"t"}
    Owner <- MCOwner
    Variables <- MCVariables
    MaxLines = 3
INVARIANTS
    TypeOK
    PairNeverMixed
    SavedIsLoaded
    OtherLinesKept
    SessionIsAsked
PROPERTY
    GuessIsAnchored
