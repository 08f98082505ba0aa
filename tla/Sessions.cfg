SPECIFICATION ReturningSpec
CONSTANTS
    Users = {u1, u2}
    Clients = {c1}
    Providers = {"Google"}
    Requests = {r1, r2}
    AccessLifetime = 2
    RefreshLifetime = 3
    StateLifetime = 2
    None = None
INVARIANTS
    TypeOK
    TokensTogether
    GuardAgrees
    RemovedLoginFades
PROPERTIES
    SessionKeepsUser
    ImplementsLoginMethods
    ReturningPersonSignsIn
