SPECIFICATION PatientSetupSpec
CONSTANTS
    Clients = {c1}
    Ids = {i1, i2, i3}
    Requests = {r1}
    Sends = {s1}
    Channels = {"Email", "Authenticator"}
    Lifetime = 2
    SetupLifetime = 2
    Window = 1
    MaxAttempts = 1
    MaxWrong = 1
    Faults = {"refuse"}
    None = None
INVARIANTS
    SetupTypeOK
    SetupStillNeeded
    CookieMatchesEntry
    CodeOfItsLogin
PROPERTIES
    ImplementsLoginProtocol
    ImplementsSecondFactors
    PatientClientSignsIn
    PatientOwnerVerifies
