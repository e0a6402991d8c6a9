SPECIFICATION SpecJusta
CONSTANTS
    p1 = p1
    p2 = p2
    p3 = p3
    c1 = c1
    c2 = c2
    NULL = NULL
    ALLOCATION_STRATEGY = "BEST"
    PIDS <- MCDos
    CPUS <- MCUna
    prioridad <- MCPrioridad
    DISPOSITIVOS = {"SLEEP", "STDOUT"}
    TAMANIOS = {1}
    TEXTOS = {"entero"}
    DIRECCIONES_INVALIDAS = 1
    MEMORIA = 1
    SWAP_NUM_BLOQUES = 2
    MAX_AVISOS = 1
INVARIANT EsperaEnSuLista
PROPERTY SeReanuda
CHECK_DEADLOCK FALSE
