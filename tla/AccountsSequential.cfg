SPECIFICATION TurnsSpec
CONSTANTS
    Users = {u1, u2}
    Emails = {e1, e2}
    Providers = {google, github}
    ProviderIds = {g1, g2}
    VerificationIds = {i1, i2}
    Secrets = {s1, s2}
    Channels = {mail, totp}
    Authenticator = totp
    Requests = {r1, r2}
    AtomicSave = FALSE
    None = None
SYMMETRY Interchangeable
INVARIANTS
    TypeOK
    HasLoginMethod
    TotpKeyStored
PROPERTIES
    VerificationsChangeByOwner
    TfaChangesByOwner
    LinksChangeByOwner
    ImplementsLoginMethods
    ImplementsSecondFactors
