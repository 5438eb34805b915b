\* One broker that answers, one topic with every kind of use.
SPECIFICATION CheckSpec
CONSTANTS
    Brokers = {b1}
    Unset = Unset
    Topics = {t1}
    NoTopic = NoTopic
    TopicStates <- DurableStates
    MaxVisits = 1
    UseSingle = FALSE
    Failures <- NoFailures
INVARIANT
    EligibleWasUnused
