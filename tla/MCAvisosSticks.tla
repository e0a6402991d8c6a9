--------------------------- MODULE MCAvisosSticks ---------------------------
(* Values for TLC: a CPU, the same one started again, and another one.        *)
EXTENDS AvisosSticks, TLC

CONSTANTS c1, c2, c3, s1, s2

MCCpus == {c1, c2, c3}
MCIdCpu == [c \in MCCpus |-> IF c = c3 THEN "2" ELSE "1"]
MCSticks == {s1, s2}
=============================================================================
