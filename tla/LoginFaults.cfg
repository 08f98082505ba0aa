SPECIFICATION Spec
CONSTANTS
    Clients = {c1}
    Ids = {i1, i2, i3}
    Requests = {r1}
    Sends = {s1}
    Channels = {"Email", "Authenticator"}
    Lifetime = 1
    SetupLifetime = 1
    Window = 1
    MaxAttempts = 1
    MaxWrong = 1
    Faults = {"overlap", "refuse", "slowSend", "crash", "lastHalf"}
    None = None
SYMMETRY Interchangeable
INVARIANTS
    TypeOK
    CookieMatchesEntry
    EntryHasCode
