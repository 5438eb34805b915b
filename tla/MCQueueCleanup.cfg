\* One broker, two queues, every failure, two visits of the tab with runs that
\* overlap, the single deletion.  Bounds: see FewStates, OneQueue, RunInSession
\* and Calm.
SPECIFICATION BoundedSpec
CONSTANTS
    Brokers = {b1}
    Unset = Unset
    Queues = {q1, q2}
    NoQueue = NoQueue
    MaxVisits = 2
    UseSingle = TRUE
    Failures <- Unauthorized
INVARIANTS
    TypeOK
    ReportIsTrue
    EachNameOnce
    SingleDeletesAsked
PROPERTIES
    ImplementsCleanup
    SessionSpec
    RunsEnd
