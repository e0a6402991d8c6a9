--------------------------- MODULE MCMutexUsuario ---------------------------
(* Values for TLC: a and b are created equal, c is more urgent.              *)
EXTENDS MutexUsuario

CONSTANTS a, b, c

Prioridades == [p \in PIDS |-> IF p = c THEN 0 ELSE 1]

\* a and b differ in nothing, nor do the CPUs.
Simetria == Permutations({a, b}) \cup Permutations(CPUS)
=============================================================================
