\* One broker, two topics, failures, the single deletion; a second visit while
\* at most one topic is in play.
SPECIFICATION BoundedSpec
CONSTANTS
    Brokers = {b1}
    Unset = Unset
    Topics = {t1, t2}
    NoTopic = NoTopic
    TopicStates <- FewStates
    MaxVisits = 2
    UseSingle = TRUE
    Failures <- SomeFailures
SYMMETRY TopicSymmetry
INVARIANTS
    TypeOK
    ReportIsTrue
    EachNameOnce
    SingleDeletesAsked
PROPERTY
    ImplementsCleanup
