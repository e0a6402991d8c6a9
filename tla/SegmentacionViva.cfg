SPECIFICATION SpecJusta
CONSTANTS
    a = a
    b = b
    PIDS <- MCPids
    IDS <- MCIds
    TAMANIOS <- MCTamanios
    STICKS <- MCSticksViva
    ALLOCATION_STRATEGY = "WORST"
    SEGMENT_MAX_SIZE = 2
    SWAP_BLOCK_SIZE = 1
    SWAP_NUM_BLOQUES = 2
    MAX_MEMORIA = 4
PROPERTY PedidoTermina
CHECK_DEADLOCK FALSE
