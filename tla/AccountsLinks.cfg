SPECIFICATION Spec
CONSTANTS
    Users = {u1, u2}
    Emails = {e1}
    Providers = {google, github}
    ProviderIds = {g1, g2}
    VerificationIds = {}
    Secrets = {}
    Channels = {mail, totp}
    Authenticator = totp
    Requests = {r1, r2}
    AtomicSave = TRUE
    None = None
SYMMETRY Interchangeable
INVARIANTS
    AccountsDistinct
    HasLoginMethod
