-------------------------------- MODULE Mmu ---------------------------------
(***************************************************************************)
(* Address translation (utils/mmu.c, and pedazos_fisico of compactacion.c):*)
(* a logical range becomes the pieces of memory sticks that hold it.  The  *)
(* CPUs use it for MOV_IN, MOV_OUT and COPY_MEM, kernel_memory for STDIN,  *)
(* STDOUT and swap.                                                        *)
(*                                                                         *)
(* sticks is the list of memory sticks in the order they connected, each   *)
(* with its base_acumulada and its size; a piece names the stick by its    *)
(* position, which stands for the socket.  An operator that may return     *)
(* NULL returns a set: empty for NULL, one element otherwise.              *)
(***************************************************************************)
EXTENDS Integers, Sequences, FiniteSetsExt

CONSTANTS
    SEGMENT_MAX_SIZE,
    UINT32            \* the number of values of a uint32_t

\* A sum of two uint32_t.
Mas(x, y) == (x + y) % UINT32

numero_de_segmento(dir) == dir \div SEGMENT_MAX_SIZE
desplazamiento(dir) == dir % SEGMENT_MAX_SIZE

hay_segmentation_fault(desp, limite, tamanio) == Mas(desp, tamanio) > limite

\* The first stick of the list that ends after the address.
buscar_stick_base(sticks, dir) ==
    LET despues == {k \in DOMAIN sticks : sticks[k].base + sticks[k].size > dir}
    IN  IF despues = {} THEN {} ELSE {Min(despues)}

\* The stick that starts where stick k ends.
buscar_siguiente_stick(sticks, k) ==
    LET pegados == {j \in DOMAIN sticks : sticks[j].base = sticks[k].base + sticks[k].size}
    IN  IF pegados = {} THEN {} ELSE {Min(pegados)}

\* Mutant of EnElSiguiente: the offset is not reset when the loop goes on to the next stick.
SinReiniciar(k, a, leo) == [stick |-> k, desde |-> a.desde, restan |-> a.restan - leo]

\* Where the loop goes on: the next stick, from its first byte.
EnElSiguiente(k, a, leo) == [stick |-> k, desde |-> 0, restan |-> a.restan - leo]

\* crear_lista_con_memories_stick_a_llamar: as much as fits in each stick, until nothing is
\* missing or there is no stick left.
Pedazos(sticks, primero, offset, tamanio) ==
    LET lugares == {a \in [stick : DOMAIN sticks, desde : Nat, restan : 0 .. tamanio] :
                       a.desde < sticks[a.stick].size}
        bucle[a \in lugares] ==
            LET cabe   == sticks[a.stick].size - a.desde
                leo    == IF cabe >= a.restan THEN a.restan ELSE cabe
                pedazo == [stick |-> a.stick, desde |-> a.desde, tamanio |-> leo]
            IN  IF a.restan = 0 THEN {<<>>}
                ELSE IF leo = a.restan THEN {<<pedazo>>}
                ELSE {<<pedazo>> \o resto : resto \in
                         UNION {bucle[EnElSiguiente(k, a, leo)] :
                                   k \in buscar_siguiente_stick(sticks, a.stick)}}
    IN  bucle[[stick |-> primero, desde |-> offset, restan |-> tamanio]]

traducir_logica_a_fisica(segmentos, sticks, dir, tamanio) ==
    UNION {UNION {Pedazos(sticks, k, s.base + desplazamiento(dir) - sticks[k].base, tamanio) :
                     k \in buscar_stick_base(sticks, s.base + desplazamiento(dir))} :
              s \in {t \in segmentos :
                        /\ t.id = numero_de_segmento(dir)
                        /\ ~hay_segmentation_fault(desplazamiento(dir), t.limite, tamanio)}}

\* encontrar_stick_por_dir_fisica.
StickDe(sticks, dir) ==
    LET lo == {k \in DOMAIN sticks : dir >= sticks[k].base /\ dir < sticks[k].base + sticks[k].size}
    IN  IF lo = {} THEN {} ELSE {Min(lo)}

\* The same for a physical range, without a segment.
pedazos_fisico(sticks, dir, tamanio) ==
    UNION {Pedazos(sticks, k, dir - sticks[k].base, tamanio) : k \in StickDe(sticks, dir)}

-----------------------------------------------------------------------------
\* The physical addresses of a piece and of a list of pieces, in order.
DireccionesDe(sticks, pedazo) ==
    [i \in 1 .. pedazo.tamanio |-> sticks[pedazo.stick].base + pedazo.desde + i - 1]

Direcciones(sticks, pedazos) ==
    LET desde[n \in 0 .. Len(pedazos)] ==
            IF n = 0 THEN <<>> ELSE desde[n - 1] \o DireccionesDe(sticks, pedazos[n])
    IN  desde[Len(pedazos)]
=============================================================================
