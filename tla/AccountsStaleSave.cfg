SPECIFICATION Spec
CONSTANTS
    Users = {u1}
    Emails = {e1}
    Providers = {}
    ProviderIds = {}
    VerificationIds = {i1, i2, i3}
    Secrets = {s1, s2}
    Channels = {mail, totp}
    Authenticator = totp
    Requests = {r1, r2}
    AtomicSave = TRUE
    None = None
SYMMETRY Interchangeable
PROPERTY TfaChangesByOwner
