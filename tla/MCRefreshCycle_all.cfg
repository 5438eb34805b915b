\* Two brokers, every failure, the stomp-only mode.
SPECIFICATION FairSpec
CONSTANTS
    Brokers = {b1, b2}
    Unset = Unset
    None = None
    UseStompOnly = TRUE
    MaxOps = 1
    Incomplete = {2, 3}
    Failures <- AllFailures
INVARIANTS
    TypeOK
    ConnectedToTarget
    NoForeignRequest
    TimerHasOwner
PROPERTIES
    ImplementsSession
    OnlyThrowsStick
    StuckForGood
    CyclesEnd
    TimerRetriesLogin
