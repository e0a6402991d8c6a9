SPECIFICATION SpecDatos
CONSTANTS
    p1 = p1
    p2 = p2
    v1 = v1
    v2 = v2
    PIDS <- MCPids
    IDS <- MCIds
    TAMANIOS <- MCTamanios
    STICKS <- MCSticks
    ALLOCATION_STRATEGY = "WORST"
    SEGMENT_MAX_SIZE = 2
    SWAP_BLOCK_SIZE = 2
    SWAP_NUM_BLOQUES = 2
    MAX_MEMORIA = 4
    UINT32 = 8
    VALORES <- MCValores
    TAM_REGISTRO <- MCRegistro
    MAX_ACCESOS = 1
    TAM_COPIA <- MCCopia
SYMMETRY Simetria
INVARIANT TraduccionExacta
PROPERTY ImplementaLogica
CHECK_DEADLOCK FALSE
