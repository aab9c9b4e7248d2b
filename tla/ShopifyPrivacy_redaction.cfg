SPECIFICATION Spec
CONSTANTS
    Customers = {c1}
    NoRow = NoRow
    NoCustomer = NoCustomer
    RawDays = 2
    ExportDays = 1
    Grace = 2
    RedactDelay = 1
    MaxAttempts = 2
    MaxSyncs = 2
    MaxFaults = 1
    LegacyCustomers = {c1}
INVARIANTS
    RedactionHolds
CHECK_DEADLOCK FALSE
