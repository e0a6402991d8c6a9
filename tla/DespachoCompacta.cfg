SPECIFICATION Spec
CONSTANTS
    p1 = p1
    p2 = p2
    p3 = p3
    c1 = c1
    c2 = c2
    Nadie = Nadie
    PIDS <- DosPids
    CPUS <- DosCpus
    ALGORITMO = "FIFO"
    SYSCALLS <- ConPedidos
    RESPUESTAS <- TodasRespuestas
    MAX_COMPACTACIONES = 1
    MAX_EN_VUELO = 1
INVARIANTS
    InvReady
    AcksRecibidos
PROPERTY ImplementaCiclo
CHECK_DEADLOCK FALSE
