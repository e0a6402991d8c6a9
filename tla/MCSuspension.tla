---------------------------- MODULE MCSuspension ----------------------------
(* Values for TLC: the processes have the same priority.                      *)
EXTENDS Suspension, TLC

CONSTANTS p1, p2, p3, c1, c2

MCDos == {p1, p2}
MCTres == {p1, p2, p3}
MCUna == {c1}
MCCpus == {c1, c2}
MCPrioridad == [p \in PIDS |-> 0]
MCSimetria == Permutations(PIDS)
=============================================================================
