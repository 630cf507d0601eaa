SPECIFICATION MCSpec
CONSTANTS
    Key = {1, 2, 3, 4}
    ManifestKey = {1, 4}
    BackupKey = {2, 3}
    NamedKey = {2, 4}
    Manifest <- MCManifest
    Resource <- MCResource
    Modified = {1, 2}
    Normal <- MCNormal
    PageSize = 3
    None = None
    app = app
    Character <- MCCharacter
    MaxGiven = 3
INVARIANTS
    RestoreTypeOK
    FindsWhatIsKept
    Ranking
    SuccessMeansDone
    NamesArriveWhole
PROPERTIES
    NothingWaitsForEver
CHECK_DEADLOCK FALSE
