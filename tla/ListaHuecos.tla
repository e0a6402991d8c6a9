---------------------------- MODULE ListaHuecos ----------------------------
(***************************************************************************)
(* The list of holes as the code keeps it, element by element: the loops   *)
(* of encontrar_hueco_best_fit and encontrar_hueco_worst_fit, the changes  *)
(* crear_segmento makes to the hole it cuts, and the insertion with fusion *)
(* of insertar_hueco_y_fusionar (segmentacion.c).                          *)
(*                                                                         *)
(* Indices are those of the list plus one.  The callers are reduced to     *)
(* what the list sees of them: a size goes out, a range comes back, a      *)
(* stick brings a range.                                                   *)
(***************************************************************************)
EXTENDS Huecos, Sequences, SequencesExt

CONSTANTS
    TAMANIOS,       \* sizes that may be asked for
    STICKS,         \* sizes of the sticks that may connect
    MAX_MEMORIA     \* bound of the model: bytes all sticks may add up to

\* A stick has bytes.  A program may ask for none (segmentacion.c:79).
ASSUME ListaAssumption ==
    /\ TAMANIOS \subseteq Nat
    /\ STICKS \subseteq Nat \ {0}
    /\ MAX_MEMORIA \in Nat

VARIABLES
    lista_huecos,   \* the list, front first
    tomados,        \* ranges of the segments in memory
    total           \* memoria_total_size

vars == <<lista_huecos, tomados, total>>

TypeOK ==
    /\ lista_huecos \in Seq(Hueco)
    /\ tomados \in SUBSET Hueco
    /\ total \in Nat

-----------------------------------------------------------------------------

\* mejor (or peor) after the loop over the list, as a set: empty stands for NULL.
BestFit(lista, tamanio) ==
    FoldLeft(LAMBDA mejor, h :
                IF h.limite >= tamanio /\ \A m \in mejor : h.limite < m.limite THEN {h} ELSE mejor,
             {}, lista)

WorstFit(lista, tamanio) ==
    FoldLeft(LAMBDA peor, h :
                IF h.limite >= tamanio /\ \A m \in peor : h.limite > m.limite THEN {h} ELSE peor,
             {}, lista)

EncontrarEnLista(lista, tamanio) ==
    IF ALLOCATION_STRATEGY = "BEST" THEN BestFit(lista, tamanio) ELSE WorstFit(lista, tamanio)

\* The first bytes of the hole are handed out; an empty hole leaves the list.
Recortar(lista, h, tamanio) ==
    LET resto == [base |-> h.base + tamanio, limite |-> h.limite - tamanio]
        i == CHOOSE j \in DOMAIN lista : lista[j] = h
    IN  IF resto.limite = 0 THEN RemoveAt(lista, i) ELSE ReplaceAt(lista, i, resto)

\* Mutant of Posicion: the new hole goes to the end.
SiempreAlFinal(lista, nuevo) == Len(lista) + 1

\* Where the new hole goes: before the first one with a greater base.
Posicion(lista, nuevo) ==
    SelectInSeq(lista \o <<[base |-> nuevo.base + 1, limite |-> 0]>>,
                LAMBDA h : h.base > nuevo.base)

\* Mutant of AbsorberSiguiente: the size is not added to the new hole.
QuitarSiguiente(lista, pos) ==
    IF pos < Len(lista) /\ Fin(lista[pos]) = lista[pos + 1].base
    THEN RemoveAt(lista, pos + 1)
    ELSE lista

\* The hole at pos swallows the next one when it ends where that begins.
AbsorberSiguiente(lista, pos) ==
    IF pos < Len(lista) /\ Fin(lista[pos]) = lista[pos + 1].base
    THEN RemoveAt([lista EXCEPT ![pos].limite = @ + lista[pos + 1].limite], pos + 1)
    ELSE lista

\* Mutant of AbsorberEnAnterior: the last hole of the list is not fused with the one before.
AbsorberSalvoUltimo(lista, pos) ==
    IF pos > 1 /\ pos < Len(lista) /\ Fin(lista[pos - 1]) = lista[pos].base
    THEN RemoveAt([lista EXCEPT ![pos - 1].limite = @ + lista[pos].limite], pos)
    ELSE lista

\* The hole before pos swallows it when it ends where pos begins.
AbsorberEnAnterior(lista, pos) ==
    IF pos > 1 /\ Fin(lista[pos - 1]) = lista[pos].base
    THEN RemoveAt([lista EXCEPT ![pos - 1].limite = @ + lista[pos].limite], pos)
    ELSE lista

InsertarEnLista(lista, nuevo) ==
    LET pos == Posicion(lista, nuevo)
    IN  AbsorberEnAnterior(AbsorberSiguiente(InsertAt(lista, pos, nuevo), pos), pos)

-----------------------------------------------------------------------------

Init == lista_huecos = <<>> /\ tomados = {} /\ total = 0

Asignar(tamanio) ==
    /\ \E h \in EncontrarEnLista(lista_huecos, tamanio) :
        /\ tomados' = tomados \cup {[base |-> h.base, limite |-> tamanio]}
        /\ lista_huecos' = Recortar(lista_huecos, h, tamanio)
    /\ UNCHANGED total

Liberar(s) ==
    /\ tomados' = tomados \ {s}
    /\ lista_huecos' = InsertarEnLista(lista_huecos, s)
    /\ UNCHANGED total

AgregarStick(tamanio) ==
    /\ total + tamanio <= MAX_MEMORIA
    /\ lista_huecos' = InsertarEnLista(lista_huecos, [base |-> total, limite |-> tamanio])
    /\ total' = total + tamanio
    /\ UNCHANGED tomados

Next ==
    \/ \E tamanio \in TAMANIOS : Asignar(tamanio)
    \/ \E s \in tomados : Liberar(s)
    \/ \E tamanio \in STICKS : AgregarStick(tamanio)

Spec == Init /\ [][Next]_vars

-----------------------------------------------------------------------------
\* segmentacion.c:36, "Inserta un hueco en lista_huecos (ordenada por base) y fusiona con
\* adyacentes": each hole ends before the next one begins, with used bytes in between.
OrdenadaYFusionada ==
    \A i \in 1 .. Len(lista_huecos) - 1 : Fin(lista_huecos[i]) < lista_huecos[i + 1].base

\* The same sentence for holes with bytes only: false once a program allocates and frees a
\* segment of size zero, whose empty hole keeps its neighbours apart (ListaHuecosCero.cfg).
FusionaAdyacentes ==
    \A g, h \in ToSet(lista_huecos) : g.limite > 0 /\ h.limite > 0 => Fin(g) # h.base

\* The set operators of Huecos, which Segmentacion uses, say what the loops over the list do,
\* for both strategies and every request and every release possible in the state.
ConjuntoFiel ==
    /\ \A tamanio \in TAMANIOS :
        /\ BestFit(lista_huecos, tamanio) = Elegido("BEST", ToSet(lista_huecos), tamanio)
        /\ WorstFit(lista_huecos, tamanio) = Elegido("WORST", ToSet(lista_huecos), tamanio)
        /\ \A h \in EncontrarEnLista(lista_huecos, tamanio) :
            ToSet(Recortar(lista_huecos, h, tamanio)) = Achicar(ToSet(lista_huecos), h, tamanio)
    /\ \A s \in tomados :
        ToSet(InsertarEnLista(lista_huecos, s)) = InsertarYFusionar(ToSet(lista_huecos), s)

\* The list implements the set of free addresses: cutting the best hole of the list cuts the
\* best run of free memory there is.
Bytes == INSTANCE BytesLibres WITH
    libres <- UNION {h.base .. Fin(h) - 1 : h \in ToSet(lista_huecos)}

ImplementaBytes == Bytes!Spec
=============================================================================
