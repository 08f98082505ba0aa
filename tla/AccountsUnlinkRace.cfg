SPECIFICATION Spec
CONSTANTS
    Users = {u1}
    Emails = {}
    Providers = {google, github}
    ProviderIds = {g1, g2}
    VerificationIds = {}
    Secrets = {}
    Channels = {mail, totp}
    Authenticator = totp
    Requests = {r1, r2}
    AtomicSave = FALSE
    None = None
SYMMETRY Interchangeable
INVARIANT HasLoginMethod
