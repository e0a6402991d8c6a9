------------------------------- MODULE Huecos -------------------------------
(***************************************************************************)
(* The list of free holes of kernel_memory (lista_huecos) and the two      *)
(* operations every allocation and every release goes through:             *)
(* encontrar_hueco and insertar_hueco_y_fusionar (segmentacion.c).         *)
(*                                                                         *)
(* The list is kept by base address, no hole is empty and no two share a   *)
(* base, so a set of records carries the same information: "the next one  *)
(* in the list" is the one with the least greater base.                    *)
(***************************************************************************)
EXTENDS Integers

CONSTANT ALLOCATION_STRATEGY    \* memory.config: "BEST", anything else is worst fit

Hueco == [base : Nat, limite : Nat]

\* First address after a hole or a segment.
Fin(x) == x.base + x.limite

Disjuntos(x, y) == Fin(x) <= y.base \/ Fin(y) <= x.base

Contiene(x, dir) == x.base <= dir /\ dir < Fin(x)

\* Mutant of Caben: the size is not compared.
CabenSinControl(hs, tamanio) == hs

Caben(hs, tamanio) == {h \in hs : h.limite >= tamanio}

\* The scan keeps the first hole of the best (or worst) size it meets.
Preferido(estrategia, h, g) ==
    \/ IF estrategia = "BEST" THEN h.limite < g.limite
                              ELSE h.limite > g.limite
    \/ h.limite = g.limite /\ h.base <= g.base

\* The hole a strategy chooses, as a set: empty stands for NULL.
Elegido(estrategia, hs, tamanio) ==
    {h \in Caben(hs, tamanio) : \A g \in Caben(hs, tamanio) : Preferido(estrategia, h, g)}

EncontrarHueco(hs, tamanio) == Elegido(ALLOCATION_STRATEGY, hs, tamanio)

\* Mutant of Achicar: the base of the hole does not move.
AchicarSinMover(hs, h, tamanio) ==
    (hs \ {h}) \cup {r \in {[base |-> h.base, limite |-> h.limite - tamanio]} : r.limite # 0}

\* What is left of the list once the first bytes of hole h are handed out.
Achicar(hs, h, tamanio) ==
    (hs \ {h}) \cup
        {r \in {[base |-> h.base + tamanio, limite |-> h.limite - tamanio]} : r.limite # 0}

\* Mutant of Anterior: the new hole is never fused with the one before it.
SinAnterior(hs, n) == {}

\* The neighbours in the list, when they touch the new hole.
Siguiente(hs, n) ==
    {h \in hs : /\ h.base > n.base
                /\ \A g \in hs : g.base > n.base => h.base <= g.base
                /\ Fin(n) = h.base}

Anterior(hs, n) ==
    {h \in hs : /\ h.base <= n.base
                /\ \A g \in hs : g.base <= n.base => g.base <= h.base
                /\ Fin(h) = n.base}

InsertarYFusionar(hs, n) ==
    LET sig == Siguiente(hs, n)
        ant == Anterior(hs, n)
        desde == IF ant = {} THEN n.base ELSE (CHOOSE h \in ant : TRUE).base
        hasta == IF sig = {} THEN Fin(n) ELSE Fin(CHOOSE h \in sig : TRUE)
    IN  (hs \ (sig \cup ant)) \cup {[base |-> desde, limite |-> hasta - desde]}

-----------------------------------------------------------------------------
(* What a well-kept list is.                                               *)

\* No hole is empty or leaves the memory, and two holes never touch.
Fusionados(hs, total) ==
    /\ \A h \in hs : h.limite > 0 /\ Fin(h) <= total
    /\ \A g, h \in hs : g # h => Fin(g) < h.base \/ Fin(h) < g.base

\* The pieces leave no address of the memory out.
Cubren(piezas, total) == \A dir \in 0 .. total - 1 : \E x \in piezas : Contiene(x, dir)
=============================================================================
