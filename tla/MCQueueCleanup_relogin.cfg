\* Two brokers, one queue name: a login to another broker during a run.
SPECIFICATION Spec
CONSTANTS
    Brokers = {b1, b2}
    Unset = Unset
    Queues = {q1}
    NoQueue = NoQueue
    MaxVisits = 1
    UseSingle = FALSE
    Failures <- NoFailures
INVARIANT
    RecheckedWhereDeleted
