SPECIFICATION Spec
CONSTANTS
    p1 = p1
    p2 = p2
    p3 = p3
    c1 = c1
    c2 = c2
    NULL = NULL
    ALLOCATION_STRATEGY = "BEST"
    PIDS <- MCTres
    CPUS <- MCUna
    prioridad <- MCPrioridad
    DISPOSITIVOS = {"STDIN"}
    TAMANIOS = {1, 2}
    TEXTOS = {"entero"}
    DIRECCIONES_INVALIDAS = 1
    MEMORIA = 2
    SWAP_NUM_BLOQUES = 2
    MAX_AVISOS = 1
SYMMETRY MCSimetria
INVARIANTS
    MismaSuspension
    NadieOlvidado
    UnUsoPorDispositivo
    TextoAntesDeSeguir
CHECK_DEADLOCK FALSE
