SPECIFICATION Spec
CONSTANTS
    p1 = p1
    p2 = p2
    p3 = p3
    c1 = c1
    c2 = c2
    NULL = NULL
    ALLOCATION_STRATEGY = "BEST"
    PIDS <- MCDos
    CPUS <- MCCpus
    prioridad <- MCPrioridad
    DISPOSITIVOS = {"STDOUT"}
    TAMANIOS = {1, 2}
    TEXTOS = {"entero"}
    DIRECCIONES_INVALIDAS = 1
    MEMORIA = 3
    SWAP_NUM_BLOQUES = 1
    MAX_AVISOS = 2
SYMMETRY MCSimetria
INVARIANT SinAbrazo
CHECK_DEADLOCK FALSE
