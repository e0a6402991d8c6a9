------------------------------- MODULE Datos --------------------------------
(***************************************************************************)
(* Segmentacion with the bytes: what the memory sticks and the swap file   *)
(* hold, what the operations of kernel_memory copy between them            *)
(* (swap_gestor.c, compactacion.c, swap.c, memo_stick.c), and the accesses *)
(* of the processes: MOV_IN, MOV_OUT and COPY_MEM of a CPU, and STDIN and  *)
(* STDOUT, which kernel_memory performs in the same way.                   *)
(*                                                                         *)
(* An access is translated once and then goes on piece by piece, each a    *)
(* message to one memory stick (memo_stick.c serves it under its mutex);   *)
(* between two pieces anything may happen to the other processes.          *)
(*                                                                         *)
(* The environment promises, besides what Segmentacion says: nothing is    *)
(* asked of kernel_memory about a process while it accesses memory, and a  *)
(* compaction starts when no access is under way (it is Despacho that says *)
(* when the processes are off their CPUs); the CPU knows every stick       *)
(* (AvisosSticks); COPY_MEM is not asked for zero bytes.                   *)
(***************************************************************************)
EXTENDS Segmentacion, Sequences, SequencesExt

CONSTANTS
    UINT32,           \* the number of values of a uint32_t
    VALORES,          \* what a byte may be
    TAM_REGISTRO,     \* sizes MOV_IN and MOV_OUT access
    TAM_COPIA,        \* values of the register that says how much COPY_MEM copies
    MAX_ACCESOS       \* bound of the model: accesses under way at once

ASSUME DatosAssumption ==
    /\ UINT32 \in Nat \ {0}
    /\ SEGMENT_MAX_SIZE \in 1 .. UINT32 - 1
    /\ MAX_MEMORIA < UINT32
    /\ TAM_REGISTRO \cup TAM_COPIA \subseteq 1 .. UINT32 - 1
    /\ IDS \subseteq Nat

INSTANCE Mmu

VARIABLES
    lista_memory_sticks,   \* in the order they connected
    bytes,                 \* physical address -> what the stick holds there
    archivo,               \* the swap file
    copia,                 \* desuspender_proceso: datos, read from the block
    acceso                 \* pid -> the access under way

datos == <<lista_memory_sticks, bytes, archivo, copia, acceso>>
varsDatos == <<vars, datos>>

Ninguno ==
    [op |-> "ninguno", dir |-> 0, destino |-> 0, tamanio |-> 0, datos |-> <<>>, hecho |-> 0,
     faltan |-> <<>>]

InitDatos ==
    /\ Init
    /\ lista_memory_sticks = <<>>
    /\ bytes = [d \in {} |-> 0]
    /\ \E cero \in VALORES :
           archivo = [i \in 0 .. SWAP_NUM_BLOQUES * SWAP_BLOCK_SIZE - 1 |-> cero]
    /\ copia = <<>>
    /\ acceso = [p \in PIDS |-> Ninguno]

-----------------------------------------------------------------------------
(* Bytes.                                                                  *)

Dirs(pedazos) == Direcciones(lista_memory_sticks, pedazos)

leer_pedazos(pedazos) == [i \in DOMAIN Dirs(pedazos) |-> bytes[Dirs(pedazos)[i]]]

\* Mutant of escribir_pedazos: every piece gets the data from its first byte.
EscribirSinAvanzar(pedazos, valores) ==
    LET aca(d) == {x \in (DOMAIN pedazos) \X (DOMAIN valores) :
                      /\ x[2] <= pedazos[x[1]].tamanio
                      /\ DireccionesDe(lista_memory_sticks, pedazos[x[1]])[x[2]] = d}
    IN  [d \in DOMAIN bytes |->
            IF aca(d) # {} THEN valores[(CHOOSE x \in aca(d) : TRUE)[2]] ELSE bytes[d]]

\* bytes once the pieces hold the values.
escribir_pedazos(pedazos, valores) ==
    LET dirs == Dirs(pedazos)
    IN  [d \in DOMAIN bytes |->
            IF Contains(dirs, d) THEN valores[CHOOSE i \in DOMAIN dirs : dirs[i] = d] ELSE bytes[d]]

leer_Bloque(b, tamanio) == [i \in 1 .. tamanio |-> archivo[b * SWAP_BLOCK_SIZE + i - 1]]

escribir_Bloque(b, valores) ==
    [d \in DOMAIN archivo |->
        LET i == d - b * SWAP_BLOCK_SIZE + 1 IN IF i \in DOMAIN valores THEN valores[i] ELSE archivo[d]]

\* The whole of a segment, as suspender_proceso and desuspender_proceso translate it.
PedazosDe(p, id, tamanio) ==
    traducir_logica_a_fisica(tabla_segmentos[p], lista_memory_sticks, id * SEGMENT_MAX_SIZE, tamanio)

-----------------------------------------------------------------------------
(* What kernel_memory does with them.                                      *)

\* Copied to the block and marked in it.
Guardar ==
    /\ OcuparBloque
    /\ \E t \in tabla_swap' \ tabla_swap :
       \E pedazos \in PedazosDe(t.pid, t.segmento_id, t.tamanio) :
           archivo' = escribir_Bloque(t.bloque, leer_pedazos(pedazos))
    /\ UNCHANGED <<lista_memory_sticks, bytes, copia, acceso>>

\* Read from the block; the segment has a new base.
Traer ==
    /\ AsignarFisica
    /\ \E t \in ProximoBloque(hilo.pid) : copia' = leer_Bloque(t.bloque, t.tamanio)
    /\ UNCHANGED <<lista_memory_sticks, bytes, archivo, acceso>>

\* Written at the new base; the block is free.
Restaurar ==
    /\ DesocuparBloque
    /\ \E pedazos \in PedazosDe(hilo.pid, hilo.id, Len(copia)) :
           bytes' = escribir_pedazos(pedazos, copia)
    /\ copia' = <<>>
    /\ UNCHANGED <<lista_memory_sticks, archivo, acceso>>

Movidos(s) ==
    UNION {{escribir_pedazos(hasta, leer_pedazos(desde)) :
               hasta \in pedazos_fisico(lista_memory_sticks, cursor, s.limite)} :
              desde \in pedazos_fisico(lista_memory_sticks, s.base, s.limite)}

\* One turn of the loop of compactar: the segment is read whole before it is written.
Mover ==
    /\ MoverSegmento
    /\ \E x \in todos \ todos' :
        IF x[2].base # cursor /\ Movidos(x[2]) # {} THEN bytes' \in Movidos(x[2]) ELSE UNCHANGED bytes
    /\ UNCHANGED <<lista_memory_sticks, archivo, copia, acceso>>

\* agregar_memory_stick; the stick holds what malloc gave it.
Conectar(tamanio) ==
    /\ AgregarStick(tamanio)
    /\ lista_memory_sticks' =
           Append(lista_memory_sticks, [base |-> memoria_total_size, size |-> tamanio])
    /\ \E basura \in [memoria_total_size .. memoria_total_size + tamanio - 1 -> VALORES] :
           bytes' = [d \in 0 .. memoria_total_size + tamanio - 1 |->
                        IF d \in DOMAIN bytes THEN bytes[d] ELSE basura[d]]
    /\ UNCHANGED <<archivo, copia, acceso>>

\* Requests about p that come from p itself or from its end.
Pedidos(p) ==
    \/ InicializarProceso(p)
    \/ FinEnSwap(p)
    \/ IniciarSuspension(p)
    \/ IniciarDesuspension(p)
    \/ \E id \in IDS :
        \/ EliminarSegmento(p, id)
        \/ \E tamanio \in TAMANIOS : CrearSegmento(p, id, tamanio) \/ PedirCompactacion(p, id, tamanio)

SinCopia ==
    \/ \E p \in PIDS : acceso[p] = Ninguno /\ (Pedidos(p) \/ IniciarFin(p)) /\ UNCHANGED datos
    \/ /\ IniciarCompactacion
       /\ \A p \in PIDS : acceso[p].op \in {"ninguno", "fallo"}
       /\ UNCHANGED datos
    \/ /\ \/ LiberarDeMuerto \/ TerminarFin \/ LiberarFisica \/ TerminarSuspension
          \/ FallarSuspension \/ TerminarDesuspension \/ TerminarCompactacion
       /\ UNCHANGED datos
    \/ FallarDesuspension /\ UNCHANGED datos

-----------------------------------------------------------------------------
(* Accesses.                                                               *)

\* p is on a CPU, or blocked in STDIN or STDOUT, with its segments in memory.
PuedeAcceder(p) ==
    /\ p \in lista_procesos \ perdidos
    /\ ~en_swap[p]
    /\ acceso[p] = Ninguno
    /\ hilo.op # "compactar"
    /\ hilo.op \in {"suspender", "liberar"} => hilo.pid # p
    /\ Cardinality({q \in PIDS : acceso[q] # Ninguno}) < MAX_ACCESOS

\* The pieces of the range, or the fault that kills the process (lanzar_seg_fault).
Traducido(a, p) ==
    LET pedazos == traducir_logica_a_fisica(tabla_segmentos[p], lista_memory_sticks, a.dir, a.tamanio)
    IN  IF pedazos = {} THEN [a EXCEPT !.op = "fallo", !.destino = 0, !.datos = <<>>]
        ELSE [a EXCEPT !.faltan = CHOOSE l \in pedazos : TRUE]

Nuevo(op, dir, destino, tamanio, valores) ==
    [Ninguno EXCEPT !.op = op, !.dir = dir, !.destino = destino, !.tamanio = tamanio, !.datos = valores]

Acceder(p, a) ==
    /\ PuedeAcceder(p)
    /\ acceso' = [acceso EXCEPT ![p] = Traducido(a, p)]
    /\ UNCHANGED <<vars, lista_memory_sticks, bytes, archivo, copia>>

DIRECCIONES == {id * SEGMENT_MAX_SIZE + desp : id \in IDS, desp \in 0 .. SEGMENT_MAX_SIZE - 1}

ejecutar_mov_in(p) == \E dir \in DIRECCIONES, tamanio \in TAM_REGISTRO :
    Acceder(p, Nuevo("leer", dir, 0, tamanio, <<>>))

ejecutar_mov_out(p) == \E dir \in DIRECCIONES, tamanio \in TAM_REGISTRO :
    \E valores \in [1 .. tamanio -> VALORES] :
        Acceder(p, Nuevo("escribir", dir, 0, tamanio, valores))

ejecutar_copy_mem(p) == \E dir, destino \in DIRECCIONES, tamanio \in TAM_COPIA :
    Acceder(p, Nuevo("copiar", dir, destino, tamanio, <<>>))

\* The stick answers the next piece of leer_en_memoria.
LeerPedazo(p) ==
    /\ acceso[p].op \in {"leer", "copiar"}
    /\ acceso[p].faltan # <<>>
    /\ acceso' = [acceso EXCEPT ![p].datos = @ \o leer_pedazos(<<Head(acceso[p].faltan)>>),
                                ![p].faltan = Tail(@)]
    /\ UNCHANGED <<vars, lista_memory_sticks, bytes, archivo, copia>>

\* COPY_MEM translates the destination once it has read everything.
TraducirDestino(p) ==
    /\ acceso[p].op = "copiar"
    /\ acceso[p].faltan = <<>>
    /\ acceso' = [acceso EXCEPT ![p] =
           Traducido([@ EXCEPT !.op = "escribir", !.dir = acceso[p].destino], p)]
    /\ UNCHANGED <<vars, lista_memory_sticks, bytes, archivo, copia>>

\* The stick answers the next piece of escribir_en_memoria.
EscribirPedazo(p) ==
    LET a == acceso[p]
        n == Head(a.faltan).tamanio
    IN  /\ a.op = "escribir"
        /\ a.faltan # <<>>
        /\ bytes' = escribir_pedazos(<<Head(a.faltan)>>, SubSeq(a.datos, a.hecho + 1, a.hecho + n))
        /\ acceso' = [acceso EXCEPT ![p].hecho = @ + n, ![p].faltan = Tail(@)]
        /\ UNCHANGED <<vars, lista_memory_sticks, archivo, copia>>

TerminarAcceso(p) ==
    /\ acceso[p].op \in {"leer", "escribir"}
    /\ acceso[p].faltan = <<>>
    /\ acceso' = [acceso EXCEPT ![p] = Ninguno]
    /\ UNCHANGED <<vars, lista_memory_sticks, bytes, archivo, copia>>

\* SEG_FAULT reaches the scheduler, which ends the process.
FinPorFallo(p) ==
    /\ acceso[p].op = "fallo"
    /\ IniciarFin(p)
    /\ acceso' = [acceso EXCEPT ![p] = Ninguno]
    /\ UNCHANGED <<lista_memory_sticks, bytes, archivo, copia>>

Programa(p) ==
    \/ ejecutar_mov_in(p) \/ ejecutar_mov_out(p) \/ ejecutar_copy_mem(p)
    \/ LeerPedazo(p) \/ TraducirDestino(p) \/ EscribirPedazo(p) \/ TerminarAcceso(p)
    \/ FinPorFallo(p)

NextDatos ==
    \/ SinCopia
    \/ Guardar \/ Traer \/ Restaurar \/ Mover
    \/ \E tamanio \in STICKS : Conectar(tamanio)
    \/ \E p \in PIDS : Programa(p)

SpecDatos == InitDatos /\ [][NextDatos]_varsDatos

-----------------------------------------------------------------------------
(* Properties.                                                             *)

\* What p's program sees of a segment: its block while the segment is in swap or on the way
\* back, its bytes in the sticks otherwise.  A process given up has nothing.
ContenidoDe(p, id) ==
    LET seg   == {s \in tabla_segmentos[p] : s.id = id}
        fuera == {t \in tabla_swap : t.pid = p /\ t.segmento_id = id}
    IN  IF p \in perdidos \/ seg = {} THEN <<>>
        ELSE IF fuera # {}
        THEN LET t == CHOOSE u \in fuera : TRUE IN leer_Bloque(t.bloque, t.tamanio)
        ELSE LET s == CHOOSE u \in seg : TRUE
             IN  [i \in 1 .. s.limite |-> bytes[s.base + i - 1]]

AccesoLogico(a) == [dir |-> a.dir, destino |-> a.destino, tamanio |-> a.tamanio, op |-> a.op,
                    datos |-> a.datos, hecho |-> a.hecho]

Logica == INSTANCE MemoriaLogica WITH
    contenido <- [p \in PIDS |-> [id \in IDS |-> ContenidoDe(p, id)]],
    acceso <- [p \in PIDS |-> AccesoLogico(acceso[p])]

\* A process reads what it wrote last and nobody else writes there: the copies of suspension,
\* resumption and compaction, across sticks and blocks, and the accesses of the others in the
\* middle of them, lose no byte; legal accesses are carried out and the others are refused
\* (mmu.c, swap_gestor.c, compactacion.c, instrucciones.c).
ImplementaLogica == Logica!Spec

\* A compaction changes where the bytes are and not what they are.  False once a suspension
\* has failed half-way: en_swap does not say that some segments of the process left the memory,
\* compactar copies what lies there now to the cursor, and the room it takes for them makes it
\* write over segments of others that it has not moved yet (compactacion.c:52).
CompactarConserva ==
    [][hilo.op = "compactar" =>
        \A p \in PIDS, id \in IDS : ContenidoDe(p, id)' = ContenidoDe(p, id)]_varsDatos

\* Whatever the table and the sticks, the translation gives the bytes of the range in order,
\* or NULL if the range leaves the segment, also when desplazamiento + tamanio does not fit in
\* a uint32_t: hay_segmentation_fault lets such a range through (mmu.c:39) and it is refused
\* because the sticks end first.
TraduccionExacta ==
    \A p \in lista_procesos \ perdidos : PuedeAcceder(p) =>
        \A dir \in DIRECCIONES, tamanio \in 1 .. UINT32 - 1 :
            LET pedazos == traducir_logica_a_fisica(tabla_segmentos[p], lista_memory_sticks,
                                                    dir, tamanio)
                lo == {s \in tabla_segmentos[p] :
                          /\ s.id = numero_de_segmento(dir)
                          /\ desplazamiento(dir) + tamanio <= s.limite}
            IN  {Dirs(l) : l \in pedazos} =
                {[i \in 1 .. tamanio |-> s.base + desplazamiento(dir) + i - 1] : s \in lo}
=============================================================================
