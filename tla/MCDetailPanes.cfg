\* One pane at a time: one message that two queues may have, two browses
\* outstanding, two visits; two connections, two reads outstanding; two
\* subscribers.
SPECIFICATION BoundedSpec
CONSTANTS
    Brokers = {b1}
    Unset = Unset
    Failures <- NoFailures
    Queues = {q1, q2}
    NoQueue = NoQueue
    Messages = {m1}
    NoMessage = NoMessage
    MaxBrowses = 2
    MaxVisits = 2
    Connections = {c1, c2}
    NoConnection = NoConnection
    NoRead = NoRead
    MaxReads = 2
    Subscribers = {s1, s2}
    MaxRows = 2
SYMMETRY PaneSymmetry
INVARIANTS
    TypeOK
    FreshIsShown
    ReportedNotListed
    DetailsShown
    CheckIsComplete
