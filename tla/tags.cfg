SPECIFICATION Spec
CONSTANTS
    None = None
    Songs <- MCSongs
    Configs <- MCConfigs
    Lower <- MCLower
    ULongMax = 9999
    UIntSize = 5000
INVARIANTS
    TypeOK
    OnlyEnabled
    KeysOnce
    ArtistsOnce
    ComposersDistinct
    DatesFollowCalendar

