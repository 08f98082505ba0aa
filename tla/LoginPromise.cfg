SPECIFICATION FairSpec
CONSTANTS
    Clients = {c1}
    Ids = {i1, i2, i3}
    Requests = {r1}
    Sends = {s1}
    Channels = {"Email"}
    Lifetime = 2
    SetupLifetime = 2
    Window = 1
    MaxAttempts = 2
    MaxWrong = 2
    Faults = {}
    None = None
PROPERTIES
    LoginGetsItsEntry
