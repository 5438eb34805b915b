\* One message, deleted while its pane is closed.
SPECIFICATION BoundedSpec
CONSTANTS
    Brokers = {b1}
    Unset = Unset
    Failures <- NoFailures
    Queues = {q1, q2}
    NoQueue = NoQueue
    Messages = {m1}
    NoMessage = NoMessage
    MaxBrowses = 2
    MaxVisits = 2
    Connections = {c1, c2}
    NoConnection = NoConnection
    NoRead = NoRead
    MaxReads = 2
    Subscribers = {s1, s2}
    MaxRows = 2
SYMMETRY PaneSymmetry
INVARIANT
    DeletedNotListed
