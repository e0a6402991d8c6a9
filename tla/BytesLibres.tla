---------------------------- MODULE BytesLibres ----------------------------
(***************************************************************************)
(* What an allocator of contiguous memory promises, without lists: the set *)
(* of free addresses, and the ranges it has handed out.  A hole is a run   *)
(* of free addresses that no free address extends.  ListaHuecos implements *)
(* it.                                                                     *)
(***************************************************************************)
EXTENDS Integers

CONSTANTS
    TAMANIOS,               \* sizes that may be asked for
    STICKS,                 \* sizes of the sticks that may connect
    MAX_MEMORIA,            \* bound of the model: bytes all sticks may add up to
    ALLOCATION_STRATEGY     \* memory.config: "BEST", anything else is worst fit

VARIABLES
    libres,     \* free addresses
    tomados,    \* ranges in use
    total       \* bytes of all the sticks

vars == <<libres, tomados, total>>

Direcciones(base, limite) == base .. base + limite - 1

\* The runs of free addresses that cannot be extended.
Tramos ==
    {t \in [base : libres, limite : 1 .. total] :
        /\ Direcciones(t.base, t.limite) \subseteq libres
        /\ t.base - 1 \notin libres
        /\ t.base + t.limite \notin libres}

Mejor(t, u) == IF ALLOCATION_STRATEGY = "BEST" THEN t.limite < u.limite ELSE t.limite > u.limite

\* The run to cut: the best of those where the request fits, the leftmost of equals.
Elegidos(tamanio) ==
    {t \in Tramos :
        /\ t.limite >= tamanio
        /\ \A u \in Tramos :
            u.limite >= tamanio =>
                Mejor(t, u) \/ (t.limite = u.limite /\ t.base <= u.base)}

Init == libres = {} /\ tomados = {} /\ total = 0

Asignar(tamanio) ==
    /\ \E t \in Elegidos(tamanio) :
        /\ libres' = libres \ Direcciones(t.base, tamanio)
        /\ tomados' = tomados \cup {[base |-> t.base, limite |-> tamanio]}
    /\ UNCHANGED total

Liberar(s) ==
    /\ libres' = libres \cup Direcciones(s.base, s.limite)
    /\ tomados' = tomados \ {s}
    /\ UNCHANGED total

AgregarStick(tamanio) ==
    /\ total + tamanio <= MAX_MEMORIA
    /\ libres' = libres \cup Direcciones(total, tamanio)
    /\ total' = total + tamanio
    /\ UNCHANGED tomados

Next ==
    \/ \E tamanio \in TAMANIOS : Asignar(tamanio)
    \/ \E s \in tomados : Liberar(s)
    \/ \E tamanio \in STICKS : AgregarStick(tamanio)

Spec == Init /\ [][Next]_vars
=============================================================================
