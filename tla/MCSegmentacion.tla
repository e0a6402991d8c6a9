--------------------------- MODULE MCSegmentacion ---------------------------
(* Values for TLC: two processes with two segments each.                     *)
EXTENDS Segmentacion, TLC

CONSTANTS a, b

MCPids == {a, b}
MCIds == {0, 1}
MCTamanios == {1, 2}
MCSticks == {2, 3}
MCSticksViva == {2}

Simetria == Permutations(MCPids)
=============================================================================
