SPECIFICATION Spec
CONSTANTS
    p1 = p1
    p2 = p2
    p3 = p3
    c1 = c1
    c2 = c2
    Nadie = Nadie
    PIDS <- DosPids
    CPUS <- UnaCpu
    ALGORITMO = "RR"
    SYSCALLS <- Bloqueantes
    RESPUESTAS <- SinCompactacion
    MAX_COMPACTACIONES = 0
    MAX_EN_VUELO = 2
INVARIANTS
    SinNulos
CHECK_DEADLOCK FALSE
