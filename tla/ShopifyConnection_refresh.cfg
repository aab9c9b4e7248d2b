SPECIFICATION Spec
CONSTANTS
    Tenants = {t1}
    NoTenant = NoTenant
    Flows = {f1, f2}
    Callbacks = {c1}
    Refreshers = {r1}
    NoFlow = NoFlow
    NoToken = NoToken
    NoJob = NoJob
    MaxEpoch = 2
    Grace = 2
    RedactDelay = 1
    MaxAttempts = 3
    MaxFailures = 0
    MaxCrashes = 0
PROPERTIES
    OnlyConsentReconnects
