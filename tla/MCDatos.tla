------------------------------ MODULE MCDatos -------------------------------
(* Values for TLC: two processes, one segment each that may span two sticks.  *)
EXTENDS Datos, TLC

CONSTANTS p1, p2, v1, v2

MCPids == {p1, p2}
MCIds == {0}
MCIdsDos == {0, 1}
MCTamanios == {1, 2}
MCSticks == {2}
MCSticksGrande == {4}
MCValores == {v1, v2}
MCRegistro == {1, 2}
MCNinguno == {}
MCCopia == {1, 7}

Simetria == Permutations(MCPids) \cup Permutations(MCValores)
=============================================================================
