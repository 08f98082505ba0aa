SPECIFICATION Spec
CONSTANTS
    Clients = {c1, c2}
    Ids = {i1, i2, i3, i4}
    Requests = {r1}
    Sends = {s1, s2}
    Channels = {"Email", "Authenticator"}
    Lifetime = 3
    SetupLifetime = 3
    Window = 2
    MaxAttempts = 2
    MaxWrong = 3
    Faults = {"refuse"}
    None = None
SYMMETRY Interchangeable
INVARIANTS
    AttemptsCounted
    AttemptsBounded
    CodeOfItsLogin
PROPERTIES
    ImplementsLoginProtocol
