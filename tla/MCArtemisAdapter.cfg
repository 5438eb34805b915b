\* Both servers, two requests at a time, two sets of credentials, two messages,
\* one queue bound to the topic, two counters.
SPECIFICATION Spec
CONSTANTS
    Requests = {r1, r2}
    Users = {u1, u2}
    NoUser = NoUser
    Idle = Idle
    Messages = {m1, m2}
    NoMessage = NoMessage
    Queues = {q1}
    Counters = {c1, c2}
SYMMETRY Symmetry
INVARIANTS
    TypeOK
    CredentialsOfOne
    RemovalIsReported
    SentIsQueued
    ResetTriesAll
