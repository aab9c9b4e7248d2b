SPECIFICATION FairSpec
CONSTANTS
    Tenants = {t1}
    NoTenant = NoTenant
    Flows = {f1, f2}
    Callbacks = {c1}
    Refreshers = {}
    NoFlow = NoFlow
    NoToken = NoToken
    NoJob = NoJob
    MaxEpoch = 2
    Grace = 2
    RedactDelay = 1
    MaxAttempts = 2
    MaxFailures = 1
    MaxCrashes = 1
PROPERTIES
    RevocationConcludes
