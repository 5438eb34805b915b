\* One broker, three connections of the STOMP client, a table of two messages
\* that overflows.
SPECIFICATION FairSpec
CONSTANTS
    Brokers = {b1}
    Unset = Unset
    Failures <- OnlyRefusals
    MaxMessages = 2
    MaxConnects = 3
    MaxReceived = 4
INVARIANTS
    TypeOK
    OnlyCurrentListens
    SubscribedOnce
    NewestFirst
PROPERTIES
    LogoutHangsUp
    SilenceNoticed
