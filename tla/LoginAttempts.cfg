SPECIFICATION Spec
CONSTANTS
    Clients = {c1}
    Ids = {i1, i2}
    Requests = {r1, r2}
    Sends = {s1}
    Channels = {"Email", "Authenticator"}
    Lifetime = 2
    SetupLifetime = 2
    Window = 1
    MaxAttempts = 2
    MaxWrong = 4
    Faults = {"overlap", "lastHalf"}
    None = None
INVARIANTS
    AttemptsBounded
