\* Both servers, two requests at a time, one set of credentials and requests
\* without any.
SPECIFICATION Spec
CONSTANTS
    Requests = {r1, r2}
    Users = {u1}
    NoUser = NoUser
    Idle = Idle
    Messages = {m1}
    NoMessage = NoMessage
    Queues = {q1}
    Counters = {c1}
SYMMETRY Symmetry
INVARIANT
    OwnCredentials
