CONSTANTS
    Appliance = "zfssa"
    ValidName <- MCName
    NoVolumeId = NoVolumeId
    NoSnapshotId = NoSnapshotId
    Share <- MCShare
    SnapName = {"s", "t"}
    OtherHref <- MCOtherHref
    MaxEntries = {0, 1}
    MaxPlaceholders = 1
    MaxRequests = 5
SPECIFICATION MCSpec
INVARIANTS PagesTile ListedIsFound
PROPERTIES ListsAreExact
