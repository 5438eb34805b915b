\* One broker behind the proxy that answers "502" with a JSON body.
SPECIFICATION Spec
CONSTANTS
    Brokers = {b1}
    Unset = Unset
    None = None
    UseStompOnly = FALSE
    MaxOps = 0
    Incomplete = {}
    Failures <- AllFailures
INVARIANT
    FlagMeansPending
