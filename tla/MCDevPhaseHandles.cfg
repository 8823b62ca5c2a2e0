CONSTANTS
    Callers = {a, b}
    Clusters = {main, other}
    Main = main
    Drivers = {logserver, sidevm}
    LogDriver = logserver
    Scripts <- MCScripts
    MaxInstances = 2
    MaxDeposits = 2
    MaxLogs = 2
    MaxFaults = 1
    a = a
    b = b
    main = main
    other = other
    logserver = logserver
    sidevm = sidevm
SPECIFICATION FairSpec
INVARIANTS
    ConnectionsAreHeld
    AnswersAgree
    FundsAreEnsured
    LogsAreRead
PROPERTIES
    CallsEnd
CHECK_DEADLOCK FALSE
