--------------------------- MODULE MCListaHuecos ---------------------------
(* Values for TLC: memories of up to MAX_MEMORIA bytes made of small sticks.  *)
EXTENDS ListaHuecos

MCTamanios == {1, 2, 3}
MCTamaniosConCero == {0, 1, 2}
MCSticks == {2, 3}
=============================================================================
