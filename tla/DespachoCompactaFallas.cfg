SPECIFICATION Spec
CONSTANTS
    p1 = p1
    p2 = p2
    p3 = p3
    c1 = c1
    c2 = c2
    Nadie = Nadie
    PIDS <- DosPids
    CPUS <- DosCpus
    ALGORITMO = "FIFO"
    SYSCALLS <- ConPedidos
    RESPUESTAS <- ConCompactacion
    MAX_COMPACTACIONES = 1
    MAX_EN_VUELO = 1
\* TLC stops at the first it finds violated: leave one at a time to see the others.
INVARIANTS
    NadieEjecutaAlCompactar
    EjecutaElAsignado
    TokensDeCpu
CHECK_DEADLOCK FALSE
