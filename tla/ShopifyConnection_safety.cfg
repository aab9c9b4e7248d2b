SPECIFICATION Spec
CONSTANTS
    Tenants = {t1, t2}
    NoTenant = NoTenant
    Flows = {f1, f2}
    Callbacks = {c1, c2}
    Refreshers = {r1}
    NoFlow = NoFlow
    NoToken = NoToken
    NoJob = NoJob
    MaxEpoch = 2
    Grace = 2
    RedactDelay = 1
    MaxAttempts = 1
    MaxFailures = 2
    MaxCrashes = 1
INVARIANTS
    TypeOK
    TokensByConsent
    NonceSpentOnce
    PurgeScheduled
PROPERTIES
    OneTenantPerShop
SYMMETRY ConnectionSymmetry
