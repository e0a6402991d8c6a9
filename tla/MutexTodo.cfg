SPECIFICATION Spec
CONSTANTS
    a = a  b = b  c = c
    PIDS = {a, b, c}
    CPUS = {x, y}
    MUTEX = {m, n}
    CREADOS = {m}
    Nadie = Nadie
    ALGORITMO = "CMN"
    CANTIDAD_COLAS = 2
    ORIGINAL <- Prioridades
    SIN_MEMORIA = {c}
    AVISADOS = {a, b}
    SYSCALLS = {"MUTEX_CREATE", "MUTEX_LOCK", "MUTEX_UNLOCK", "SLEEP", "EXIT"}
SYMMETRY Simetria
INVARIANTS
    Exclusion
    EsperaConsistente
    SinHuerfanos
    DevuelvePrioridad
    UnLugar
PROPERTY
    ImplementaTurnos
CHECK_DEADLOCK FALSE
