SPECIFICATION Spec
CONSTANTS
    Nobody = "nobody"
    Procs = {"p1", "p2"}
    Pids = {1, 2}
    Ports = {1}
    Clients = {"c1", "c2"}
    Ceiling = 3
    Requests <- MCRequests
    Budgets <- MCBudgets
INVARIANTS
    StampedIsWhole
    RegistryIsTrusted
    CommandsOwnTheirServers
    AnswersAreCommittedOnce
PROPERTIES
    ServersMakeProgress
CHECK_DEADLOCK FALSE
