SPECIFICATION Spec
CONSTANTS
    a = a
    b = b
    PIDS <- MCPids
    IDS <- MCIds
    TAMANIOS <- MCTamanios
    STICKS <- MCSticks
    ALLOCATION_STRATEGY = "BEST"
    SEGMENT_MAX_SIZE = 2
    SWAP_BLOCK_SIZE = 2
    SWAP_NUM_BLOQUES = 1
    MAX_MEMORIA = 5
SYMMETRY Simetria
INVARIANT LibreSiempreExacta
CHECK_DEADLOCK FALSE
