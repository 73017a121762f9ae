SPECIFICATION MCSpec
CONSTANTS
    Pages = {g, p}
    GlobalPage = g
    Stores <- MCStores
    Snaps = {s1, s2}
    AddrCount = 2
    MaxBytes = 2
    Bytes = {b1, b2}
    Symbols = {u1}
    NoStore = NoStore
    NoCell = NoCell
    Unknown = Unknown
    Fuel = 6
SYMMETRY MCSymmetry
INVARIANTS
    TypeOK
    StorageHasOnePage
    BinaryMappedFirst
PROPERTIES
    SnapshotsNeverChange
    ImplementsAbstractMemory
