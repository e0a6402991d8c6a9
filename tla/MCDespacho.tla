----------------------------- MODULE MCDespacho -----------------------------
(* Values for TLC: up to three processes and two CPUs.                       *)
EXTENDS Despacho, TLC

CONSTANTS p1, p2, p3, c1, c2

DosPids == {p1, p2}
TresPids == {p1, p2, p3}
UnaCpu == {c1}
DosCpus == {c1, c2}

Todas == {"SLEEP", "EXIT", "SEG_FAULT", "MEM_FREE", "MEM_ALLOC", "INIT_PROC"}
Bloqueantes == {"SLEEP", "EXIT", "INIT_PROC"}
ConMemoria == {"SLEEP", "EXIT", "MEM_FREE", "INIT_PROC"}
ConPedidos == {"SLEEP", "EXIT", "MEM_FREE", "MEM_ALLOC", "INIT_PROC"}
ConLibera == {"EXIT", "MEM_FREE", "INIT_PROC"}
SinCompactacion == {"MEMORIA_DISPONIBLE", "MEMORIA_NO_DISPONIBLE"}
TodasRespuestas == SinCompactacion \cup {"COMPACTACION"}
ConCompactacion == {"MEMORIA_DISPONIBLE", "COMPACTACION"}

Simetria == Permutations(TresPids) \cup Permutations(DosCpus)
=============================================================================
