SPECIFICATION FairLifecycleSpec
CONSTANTS
    Callers = {n1, load}
    Background = {load}
    Nodes = {n1}
    Servers = {"algod", "indexer"}
    H2C = {"algod"}
    MaxRequests = 1
    Limit = 2
    Wait = 1
    MaxWait = 2
INVARIANTS LifecycleTypeOK GivesUpForCause TriesAddUp ExitDrains
PROPERTIES MainExits RetriesEnd
CHECK_DEADLOCK FALSE
