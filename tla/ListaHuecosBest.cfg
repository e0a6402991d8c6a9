SPECIFICATION Spec
CONSTANTS
    TAMANIOS <- MCTamanios
    STICKS <- MCSticks
    MAX_MEMORIA = 8
    ALLOCATION_STRATEGY = "BEST"
INVARIANTS
    OrdenadaYFusionada
    ConjuntoFiel
PROPERTY ImplementaBytes
