SPECIFICATION Spec
CONSTANTS
    p1 = p1
    p2 = p2
    p3 = p3
    c1 = c1
    c2 = c2
    Nadie = Nadie
    PIDS <- TresPids
    CPUS <- DosCpus
    ALGORITMO = "FIFO"
    SYSCALLS <- Todas
    RESPUESTAS <- SinCompactacion
    MAX_COMPACTACIONES = 0
    MAX_EN_VUELO = 1
SYMMETRY Simetria
INVARIANTS
    UnLugar
    ReadyContado
    TokensDeCpu
    EjecutaElAsignado
    SinNulos
CHECK_DEADLOCK FALSE
