SPECIFICATION Spec
CONSTANTS
    a = a  b = b  c = c
    PIDS = {a, c}
    CPUS = {x, y}
    MUTEX = {m, n}
    CREADOS = {m, n}
    Nadie = Nadie
    ALGORITMO = "FIFO"
    CANTIDAD_COLAS = 2
    ORIGINAL <- Prioridades
    SIN_MEMORIA = {}
    AVISADOS = {}
    SYSCALLS = {"MUTEX_LOCK", "MUTEX_UNLOCK"}
INVARIANT
    HerenciaRespetada
CHECK_DEADLOCK FALSE
