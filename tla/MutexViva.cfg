SPECIFICATION FairSpec
CONSTANTS
    a = a  b = b  c = c
    PIDS = {a, b, c}
    CPUS = {x, y}
    MUTEX = {m}
    CREADOS = {m}
    Nadie = Nadie
    ALGORITMO = "RR"
    CANTIDAD_COLAS = 2
    ORIGINAL <- Prioridades
    SIN_MEMORIA = {a, b, c}
    AVISADOS = {}
    SYSCALLS = {"MUTEX_LOCK", "MUTEX_UNLOCK", "EXIT"}
PROPERTY
    ObtieneMutex
CHECK_DEADLOCK FALSE
