SPECIFICATION FairSpec
CONSTANTS
    Customers = {c1}
    NoRow = NoRow
    NoCustomer = NoCustomer
    RawDays = 2
    ExportDays = 1
    Grace = 2
    RedactDelay = 1
    MaxAttempts = 2
    MaxSyncs = 2
    MaxFaults = 2
    LegacyCustomers = {c1}
INVARIANTS
    TypeOK
    PurgedDataIsOrphaned
PROPERTIES
    ErasedForGood
    CompletedPayloadsExpire
    ExportsExpire
    DataRequestsConclude
    ShopErasureConcludes
CHECK_DEADLOCK FALSE
