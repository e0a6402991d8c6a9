SPECIFICATION SpecDatos
CONSTANTS
    p1 = p1
    p2 = p2
    v1 = v1
    v2 = v2
    PIDS <- MCPids
    IDS <- MCIdsDos
    TAMANIOS <- MCTamanios
    STICKS <- MCSticksGrande
    ALLOCATION_STRATEGY = "WORST"
    SEGMENT_MAX_SIZE = 2
    SWAP_BLOCK_SIZE = 2
    SWAP_NUM_BLOQUES = 1
    MAX_MEMORIA = 4
    UINT32 = 8
    VALORES <- MCValores
    TAM_REGISTRO <- MCNinguno
    MAX_ACCESOS = 1
    TAM_COPIA <- MCNinguno
SYMMETRY Simetria
PROPERTY CompactarConserva
CHECK_DEADLOCK FALSE
