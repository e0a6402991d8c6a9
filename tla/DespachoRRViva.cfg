SPECIFICATION SpecJusta
CONSTANTS
    p1 = p1
    p2 = p2
    p3 = p3
    c1 = c1
    c2 = c2
    Nadie = Nadie
    PIDS <- TresPids
    CPUS <- UnaCpu
    ALGORITMO = "RR"
    SYSCALLS <- ConLibera
    RESPUESTAS <- SinCompactacion
    MAX_COMPACTACIONES = 0
    MAX_EN_VUELO = 2
INVARIANT TokensDeCpu
PROPERTY SeAtiende
CHECK_DEADLOCK FALSE
