SPECIFICATION Spec
CONSTANTS
    TAMANIOS <- MCTamaniosConCero
    STICKS <- MCSticks
    MAX_MEMORIA = 5
    ALLOCATION_STRATEGY = "BEST"
INVARIANT FusionaAdyacentes
