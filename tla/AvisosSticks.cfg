SPECIFICATION SpecJusta
CONSTANTS
    c1 = c1
    c2 = c2
    c3 = c3
    s1 = s1
    s2 = s2
    NULL = NULL
    CPUS <- MCCpus
    idCpu <- MCIdCpu
    STICKS <- MCSticks
INVARIANT ListaPrefijo
PROPERTY ConoceSticks
CHECK_DEADLOCK FALSE
