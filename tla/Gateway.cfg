SPECIFICATION FairGatewaySpec
CONSTANTS
    Nodes = {n1, n2}
    Tasks = {t1}
    AuthOn = TRUE
    Junk = Junk
INVARIANTS GatewayInv OneAnswer RefusedAfterAll
PROPERTIES EffortFalls RequestsAnswered
CHECK_DEADLOCK FALSE
