CONSTANTS
    Clients = {t1, t2}
    IntArgs <- MCIntArgs
    WorkerArgs = {0, 4}
SPECIFICATION Spec
INVARIANT
    ChainmanWipeSupported
