---------------------------- MODULE Segmentacion ----------------------------
(***************************************************************************)
(* Physical memory as kernel_memory administers it: the segment tables of  *)
(* the resident processes, the list of holes, the table of swap blocks,    *)
(* and the requests of the scheduler that change them (segmentacion.c,     *)
(* swap_gestor.c, compactacion.c, inicializar.c, memory_sticks.c).         *)
(*                                                                         *)
(* One thread, atender_scheduler, serves the requests one at a time; the   *)
(* main thread adds memory sticks meanwhile (AgregarStick).  A step is one *)
(* critical section of memoria_mutex or swap_mutex, so a stick may arrive  *)
(* between any two sections of a suspension.  Compaction and the release   *)
(* of a dead process hold memoria_mutex for their whole loop: their steps  *)
(* are the iterations of that loop and AgregarStick waits for the end.     *)
(*                                                                         *)
(* Requests come from an open environment that keeps the promises of the  *)
(* scheduler and of the programs: it names processes it created and has    *)
(* not given up (perdidos); only processes that are not suspended allocate *)
(* or free; a program allocates an identifier it does not hold, with a     *)
(* size that is not zero; after an answer COMPACTACION nothing is sent     *)
(* before PROCESOS_DESALOJADOS (mutex_socket_memory stays locked).         *)
(***************************************************************************)
EXTENDS Huecos, FiniteSets, FiniteSetsExt

CONSTANTS
    PIDS,               \* process identifiers
    IDS,                \* segment identifiers a program uses
    TAMANIOS,           \* sizes a program passes to MEM_ALLOC
    STICKS,             \* sizes of the memory sticks that may connect
    SEGMENT_MAX_SIZE,   \* memory.config
    SWAP_BLOCK_SIZE,    \* swap.config
    SWAP_NUM_BLOQUES,   \* swap_total_size / swap_block_size
    MAX_MEMORIA         \* bound of the model: bytes all sticks may add up to

ASSUME TamaniosAssumption ==
    /\ TAMANIOS \subseteq Nat \ {0}
    /\ STICKS \subseteq Nat \ {0}

ASSUME LimitesAssumption ==
    /\ SEGMENT_MAX_SIZE \in Nat
    /\ SWAP_BLOCK_SIZE \in Nat
    /\ SWAP_NUM_BLOQUES \in Nat
    /\ MAX_MEMORIA \in Nat

VARIABLES
    lista_procesos,      \* pids with a t_proceso_memory
    en_swap,             \* pid -> the flag of its t_proceso_memory
    tabla_segmentos,     \* pid -> its segments
    lista_huecos,
    memoria_total_size,
    memoria_libre_size,
    tabla_swap,          \* the occupied blocks
    hilo,                \* what atender_scheduler is in the middle of
    todos,               \* compactar: segments not yet visited
    cursor,              \* compactar: first address not yet packed
    perdidos             \* pids the scheduler gave up after an error answer

vars == <<lista_procesos, en_swap, tabla_segmentos, lista_huecos, memoria_total_size,
          memoria_libre_size, tabla_swap, hilo, todos, cursor, perdidos>>

contables == <<lista_huecos, memoria_libre_size>>
procesos  == <<lista_procesos, en_swap, perdidos>>
bucle     == <<todos, cursor>>

Bloques  == 0 .. SWAP_NUM_BLOQUES - 1
Segmento == [id : IDS, base : Nat, limite : Nat]
BloqueSwap == [bloque : Bloques, pid : PIDS, segmento_id : IDS, tamanio : Nat]

Ocioso == [op |-> "ocioso"]
Hilo == {Ocioso}
        \cup [op : {"suspender", "desuspender", "finalizar"}, pid : PIDS]
        \cup [op : {"liberar", "desocupar"}, pid : PIDS, id : IDS]
        \cup [op : {"desalojar", "compactar"}]

TypeOK ==
    /\ lista_procesos \in SUBSET PIDS
    /\ en_swap \in [PIDS -> BOOLEAN]
    /\ tabla_segmentos \in [PIDS -> SUBSET Segmento]
    /\ lista_huecos \in SUBSET Hueco
    /\ memoria_total_size \in Nat
    /\ memoria_libre_size \in Int
    /\ tabla_swap \in SUBSET BloqueSwap
    /\ hilo \in Hilo
    /\ todos \in SUBSET (PIDS \X Segmento)
    /\ cursor \in Nat
    /\ perdidos \in SUBSET PIDS

Init ==
    /\ lista_procesos = {}
    /\ en_swap = [p \in PIDS |-> FALSE]
    /\ tabla_segmentos = [p \in PIDS |-> {}]
    /\ lista_huecos = {}
    /\ memoria_total_size = 0
    /\ memoria_libre_size = 0
    /\ tabla_swap = {}
    /\ hilo = Ocioso
    /\ todos = {}
    /\ cursor = 0
    /\ perdidos = {}

-----------------------------------------------------------------------------
(* What the operations share.                                              *)

Ids(p) == {s.id : s \in tabla_segmentos[p]}

\* All the segment tables together, each segment with the process that owns it.
Segmentos ==
    {x \in PIDS \X UNION {tabla_segmentos[p] : p \in PIDS} : x[2] \in tabla_segmentos[x[1]]}

\* The segment of p already has a copy in a swap block.
EnBloque(p, id) == \E t \in tabla_swap : t.pid = p /\ t.segmento_id = id

\* Mutant of BloqueLibre: the flag ocupado is not looked at.
PrimerBloque == {b \in Bloques : \A c \in Bloques : b <= c}

\* swap_bloque_libre, as a set: empty stands for -1.
BloqueLibre ==
    {b \in Bloques : /\ \A t \in tabla_swap : t.bloque # b
                     /\ \A c \in Bloques : (\A t \in tabla_swap : t.bloque # c) => b <= c}

\* Mutant of LiberarSegmento: the bytes are counted and the hole is forgotten.
LiberarSinHueco(s) ==
    /\ memoria_libre_size' = memoria_libre_size + s.limite
    /\ UNCHANGED lista_huecos

LiberarSegmento(s) ==
    /\ lista_huecos' = InsertarYFusionar(lista_huecos, [base |-> s.base, limite |-> s.limite])
    /\ memoria_libre_size' = memoria_libre_size + s.limite

\* Mutant of TomarHueco: the counter is not updated.
TomarSinContar(h, tamanio) ==
    /\ lista_huecos' = Achicar(lista_huecos, h, tamanio)
    /\ UNCHANGED memoria_libre_size

TomarHueco(h, tamanio) ==
    /\ lista_huecos' = Achicar(lista_huecos, h, tamanio)
    /\ memoria_libre_size' = memoria_libre_size - tamanio

\* The entry of the table once seg->base is assigned.
Reubicado(s, dir) == [id |-> s.id, base |-> dir, limite |-> s.limite]

\* A request about p may be sent now.
Atendible(p) == hilo = Ocioso /\ p \in lista_procesos \ perdidos

-----------------------------------------------------------------------------
(* Processes and segments.                                                 *)

InicializarProceso(p) ==
    /\ hilo = Ocioso
    /\ p \notin lista_procesos
    /\ lista_procesos' = lista_procesos \cup {p}
    /\ en_swap' = [en_swap EXCEPT ![p] = FALSE]
    /\ tabla_segmentos' = [tabla_segmentos EXCEPT ![p] = {}]
    /\ UNCHANGED <<contables, memoria_total_size, tabla_swap, hilo, bucle, perdidos>>

\* A program asks for a segment and the size passes the limit.
Solicitable(p, id, tamanio) ==
    /\ Atendible(p)
    /\ ~en_swap[p]
    /\ id \notin Ids(p)
    /\ tamanio <= SEGMENT_MAX_SIZE

\* The request finds a hole; the answer MEMORIA_NO_DISPONIBLE would change nothing.
CrearSegmento(p, id, tamanio) ==
    /\ Solicitable(p, id, tamanio)
    /\ \E h \in EncontrarHueco(lista_huecos, tamanio) :
        /\ tabla_segmentos' = [tabla_segmentos EXCEPT ![p] =
                @ \cup {[id |-> id, base |-> h.base, limite |-> tamanio]}]
        /\ TomarHueco(h, tamanio)
    /\ UNCHANGED <<procesos, memoria_total_size, tabla_swap, hilo, bucle>>

\* Enough bytes, no hole of that size: the answer is COMPACTACION, and the scheduler sends
\* nothing else until it has taken every process off its CPU.
PedirCompactacion(p, id, tamanio) ==
    /\ Solicitable(p, id, tamanio)
    /\ EncontrarHueco(lista_huecos, tamanio) = {}
    /\ memoria_libre_size >= tamanio
    /\ hilo' = [op |-> "desalojar"]
    /\ UNCHANGED <<procesos, contables, memoria_total_size, tabla_segmentos, tabla_swap, bucle>>

EliminarSegmento(p, id) ==
    /\ Atendible(p)
    /\ ~en_swap[p]
    /\ \E s \in tabla_segmentos[p] :
        /\ s.id = id
        /\ LiberarSegmento(s)
        /\ tabla_segmentos' = [tabla_segmentos EXCEPT ![p] = @ \ {s}]
    /\ UNCHANGED <<procesos, memoria_total_size, tabla_swap, hilo, bucle>>

\* finalizar_proceso: the process leaves the list; its segments are released one by one
\* when they are in memory, or its blocks are when they are in swap.
IniciarFin(p) ==
    /\ Atendible(p)
    /\ ~en_swap[p]
    /\ lista_procesos' = lista_procesos \ {p}
    /\ hilo' = [op |-> "finalizar", pid |-> p]
    /\ UNCHANGED <<contables, memoria_total_size, tabla_segmentos, tabla_swap, en_swap,
                   perdidos, bucle>>

LiberarDeMuerto ==
    /\ hilo.op = "finalizar"
    /\ \E s \in tabla_segmentos[hilo.pid] :
        /\ LiberarSegmento(s)
        /\ tabla_segmentos' = [tabla_segmentos EXCEPT ![hilo.pid] = @ \ {s}]
    /\ UNCHANGED <<procesos, memoria_total_size, tabla_swap, hilo, bucle>>

TerminarFin ==
    /\ hilo.op = "finalizar"
    /\ tabla_segmentos[hilo.pid] = {}
    /\ hilo' = Ocioso
    /\ UNCHANGED <<procesos, contables, memoria_total_size, tabla_segmentos, tabla_swap, bucle>>

FinEnSwap(p) ==
    /\ Atendible(p)
    /\ en_swap[p]
    /\ lista_procesos' = lista_procesos \ {p}
    /\ tabla_swap' = {t \in tabla_swap : t.pid # p}
    /\ tabla_segmentos' = [tabla_segmentos EXCEPT ![p] = {}]
    /\ en_swap' = [en_swap EXCEPT ![p] = FALSE]
    /\ UNCHANGED <<contables, memoria_total_size, perdidos, hilo, bucle>>

-----------------------------------------------------------------------------
(* Suspension: segment after segment, the copy goes to the first free      *)
(* block and only then is the memory released.                             *)

IniciarSuspension(p) ==
    /\ Atendible(p)
    /\ ~en_swap[p]
    /\ hilo' = [op |-> "suspender", pid |-> p]
    /\ UNCHANGED <<procesos, contables, memoria_total_size, tabla_segmentos, tabla_swap, bucle>>

OcuparBloque ==
    /\ hilo.op = "suspender"
    /\ \E s \in tabla_segmentos[hilo.pid], b \in BloqueLibre :
        /\ ~EnBloque(hilo.pid, s.id)
        /\ s.limite <= SWAP_BLOCK_SIZE
        /\ tabla_swap' = tabla_swap \cup
               {[bloque |-> b, pid |-> hilo.pid, segmento_id |-> s.id, tamanio |-> s.limite]}
        /\ hilo' = [op |-> "liberar", pid |-> hilo.pid, id |-> s.id]
    /\ UNCHANGED <<procesos, contables, memoria_total_size, tabla_segmentos, bucle>>

LiberarFisica ==
    /\ hilo.op = "liberar"
    /\ \E s \in tabla_segmentos[hilo.pid] : s.id = hilo.id /\ LiberarSegmento(s)
    /\ hilo' = [op |-> "suspender", pid |-> hilo.pid]
    /\ UNCHANGED <<procesos, memoria_total_size, tabla_segmentos, tabla_swap, bucle>>

TerminarSuspension ==
    /\ hilo.op = "suspender"
    /\ \A s \in tabla_segmentos[hilo.pid] : EnBloque(hilo.pid, s.id)
    /\ en_swap' = [en_swap EXCEPT ![hilo.pid] = TRUE]
    /\ hilo' = Ocioso
    /\ UNCHANGED <<lista_procesos, perdidos, contables, memoria_total_size, tabla_segmentos,
                   tabla_swap, bucle>>

\* Mutant of NoEntraEnSwap: a full swap is not noticed.
NoEntraEnBloque(s) == s.limite > SWAP_BLOCK_SIZE

NoEntraEnSwap(s) == s.limite > SWAP_BLOCK_SIZE \/ BloqueLibre = {}

\* A segment larger than a block, or no block left: the answer is MEMORIA_NO_DISPONIBLE, what
\* was done stays done, and the scheduler drops the process (utils_scheduler.c:784-791).
FallarSuspension ==
    /\ hilo.op = "suspender"
    /\ \E s \in tabla_segmentos[hilo.pid] :
        /\ ~EnBloque(hilo.pid, s.id)
        /\ NoEntraEnSwap(s)
    /\ perdidos' = perdidos \cup {hilo.pid}
    /\ hilo' = Ocioso
    /\ UNCHANGED <<lista_procesos, en_swap, contables, memoria_total_size, tabla_segmentos,
                   tabla_swap, bucle>>

-----------------------------------------------------------------------------
(* The way back: block after block in index order.                         *)

IniciarDesuspension(p) ==
    /\ Atendible(p)
    /\ en_swap[p]
    /\ hilo' = [op |-> "desuspender", pid |-> p]
    /\ UNCHANGED <<procesos, contables, memoria_total_size, tabla_segmentos, tabla_swap, bucle>>

\* The next block of the list desuspender_proceso built.
ProximoBloque(p) ==
    {t \in tabla_swap : t.pid = p /\ \A u \in tabla_swap : u.pid = p => t.bloque <= u.bloque}

AsignarFisica ==
    /\ hilo.op = "desuspender"
    /\ \E t \in ProximoBloque(hilo.pid) :
       \E s \in tabla_segmentos[hilo.pid], h \in EncontrarHueco(lista_huecos, t.tamanio) :
        /\ s.id = t.segmento_id
        /\ tabla_segmentos' = [tabla_segmentos EXCEPT ![hilo.pid] =
               (@ \ {s}) \cup {Reubicado(s, h.base)}]
        /\ TomarHueco(h, t.tamanio)
        /\ hilo' = [op |-> "desocupar", pid |-> hilo.pid, id |-> s.id]
    /\ UNCHANGED <<procesos, memoria_total_size, tabla_swap, bucle>>

DesocuparBloque ==
    /\ hilo.op = "desocupar"
    /\ tabla_swap' = {t \in tabla_swap : t.pid # hilo.pid \/ t.segmento_id # hilo.id}
    /\ hilo' = [op |-> "desuspender", pid |-> hilo.pid]
    /\ UNCHANGED <<procesos, contables, memoria_total_size, tabla_segmentos, bucle>>

TerminarDesuspension ==
    /\ hilo.op = "desuspender"
    /\ \A t \in tabla_swap : t.pid # hilo.pid
    /\ en_swap' = [en_swap EXCEPT ![hilo.pid] = FALSE]
    /\ hilo' = Ocioso
    /\ UNCHANGED <<lista_procesos, perdidos, contables, memoria_total_size, tabla_segmentos,
                   tabla_swap, bucle>>

\* No hole for the next segment: the answer is an error, en_swap stays true over the segments
\* already back in memory, and the scheduler drops the process (utils_scheduler.c:907-911).
FallarDesuspension ==
    /\ hilo.op = "desuspender"
    /\ \E t \in ProximoBloque(hilo.pid) : EncontrarHueco(lista_huecos, t.tamanio) = {}
    /\ perdidos' = perdidos \cup {hilo.pid}
    /\ hilo' = Ocioso
    /\ UNCHANGED <<lista_procesos, en_swap, contables, memoria_total_size, tabla_segmentos,
                   tabla_swap, bucle>>

-----------------------------------------------------------------------------
(* Compaction: the segments of the processes that are not in swap, from    *)
(* left to right, each to the cursor.                                      *)

\* Mutant of ACompactar: suspended processes are not skipped.
ACompactarTodos == {x \in Segmentos : x[1] \in lista_procesos}

ACompactar == {x \in Segmentos : x[1] \in lista_procesos /\ ~en_swap[x[1]]}

\* PROCESOS_DESALOJADOS arrives.
IniciarCompactacion ==
    /\ hilo.op = "desalojar"
    /\ todos' = ACompactar
    /\ cursor' = 0
    /\ hilo' = [op |-> "compactar"]
    /\ UNCHANGED <<procesos, contables, memoria_total_size, tabla_segmentos, tabla_swap>>

\* The leftmost segments still in the sorted list.
MasALaIzquierda == {x \in todos : \A y \in todos : x[2].base <= y[2].base}

\* pedazos_fisico finds sticks for every byte of the range.
EnSticks(dir, tamanio) == dir < memoria_total_size /\ dir + tamanio <= memoria_total_size

\* What the two "continue" of the loop look for.
Movible(s) == \/ s.base = cursor
              \/ EnSticks(s.base, s.limite) /\ EnSticks(cursor, s.limite)

\* A segment that cannot be moved stays, and the cursor too.
MoverSegmento ==
    /\ hilo.op = "compactar"
    /\ \E x \in MasALaIzquierda :
        /\ todos' = todos \ {x}
        /\ IF Movible(x[2])
           THEN /\ tabla_segmentos' = [tabla_segmentos EXCEPT ![x[1]] =
                       (@ \ {x[2]}) \cup {Reubicado(x[2], cursor)}]
                /\ cursor' = cursor + x[2].limite
           ELSE UNCHANGED <<tabla_segmentos, cursor>>
    /\ UNCHANGED <<procesos, contables, memoria_total_size, tabla_swap, hilo>>

\* Mutants of HuecosFinales: the old list is kept; the last byte is lost.
HuecosDeAntes == lista_huecos
HuecosSinUltimo == {h \in {[base |-> cursor, limite |-> memoria_total_size - cursor - 1]} : h.limite > 0}

\* The one hole a compaction leaves, if any byte is free.
HuecosFinales ==
    IF cursor < memoria_total_size
    THEN {[base |-> cursor, limite |-> memoria_total_size - cursor]}
    ELSE {}

TerminarCompactacion ==
    /\ hilo.op = "compactar"
    /\ todos = {}
    /\ lista_huecos' = HuecosFinales
    /\ cursor' = 0
    /\ hilo' = Ocioso
    /\ UNCHANGED <<procesos, memoria_libre_size, memoria_total_size, tabla_segmentos, tabla_swap,
                   todos>>

-----------------------------------------------------------------------------
(* The main thread, whenever memoria_mutex is free.                        *)

AgregarStick(tamanio) ==
    /\ hilo.op \notin {"compactar", "finalizar"}
    /\ memoria_total_size + tamanio <= MAX_MEMORIA
    /\ memoria_total_size' = memoria_total_size + tamanio
    /\ memoria_libre_size' = memoria_libre_size + tamanio
    /\ lista_huecos' =
           InsertarYFusionar(lista_huecos, [base |-> memoria_total_size, limite |-> tamanio])
    /\ UNCHANGED <<procesos, tabla_segmentos, tabla_swap, hilo, bucle>>

\* The steps of atender_scheduler once a request is under way.
Continuar ==
    \/ LiberarDeMuerto \/ TerminarFin
    \/ OcuparBloque \/ LiberarFisica \/ TerminarSuspension \/ FallarSuspension
    \/ AsignarFisica \/ DesocuparBloque \/ TerminarDesuspension \/ FallarDesuspension
    \/ MoverSegmento \/ TerminarCompactacion

Next ==
    \/ \E p \in PIDS :
        \/ InicializarProceso(p)
        \/ IniciarFin(p)
        \/ FinEnSwap(p)
        \/ IniciarSuspension(p)
        \/ IniciarDesuspension(p)
        \/ \E id \in IDS :
            \/ EliminarSegmento(p, id)
            \/ \E tamanio \in TAMANIOS :
                CrearSegmento(p, id, tamanio) \/ PedirCompactacion(p, id, tamanio)
    \/ IniciarCompactacion
    \/ Continuar
    \/ \E tamanio \in STICKS : AgregarStick(tamanio)

Spec == Init /\ [][Next]_vars

\* atender_scheduler never stops in the middle of a request.
SpecJusta == Spec /\ WF_vars(Continuar)

-----------------------------------------------------------------------------
(* Properties.  A suspension or a desuspension that fails half-way leaves  *)
(* records that no longer tell where the bytes are (see README, findings); *)
(* the invariants say what holds as long as none has failed.               *)

NadiePerdido == perdidos = {}

\* The bytes of the segment are in the memory sticks.  A block may already (or still) hold a
\* copy while the thread is between marking the block and releasing the memory, or between
\* taking the memory and releasing the block.
EnMemoria(p, id) ==
    \/ ~EnBloque(p, id)
    \/ hilo.op \in {"liberar", "desocupar"} /\ hilo.pid = p /\ hilo.id = id

Residentes == {x \in Segmentos : EnMemoria(x[1], x[2].id)}

\* No byte belongs to two segments, whichever processes own them, also in the middle of a
\* compaction, a suspension or a desuspension (segmentacion.c, swap_gestor.c, compactacion.c).
SegmentosDisjuntos ==
    NadiePerdido => \A x, y \in Residentes : x # y => Disjuntos(x[2], y[2])

\* A hole never covers a byte of a segment, so no allocation hands out memory in use.
HuecosLibres ==
    NadiePerdido /\ hilo.op # "compactar" =>
        \A h \in lista_huecos, x \in Residentes : Disjuntos(h, x[2])

\* "Inserta un hueco en lista_huecos (ordenada por base) y fusiona con adyacentes"
\* (segmentacion.c:36): holes are never empty, lie inside the memory, and a used byte
\* separates any two of them.
HuecosFusionados == NadiePerdido => Fusionados(lista_huecos, memoria_total_size)

\* Every byte the sticks gave is in a hole or in a segment: no sequence of allocations,
\* releases, suspensions and compactions leaks memory.
SinFugas ==
    NadiePerdido /\ hilo.op # "compactar" =>
        Cubren(lista_huecos \cup {x[2] : x \in Residentes}, memoria_total_size)

\* memory_gestor.h:53, "suma de bytes libres en todos los huecos (se mantiene actualizada)":
\* the counter that decides between COMPACTACION and MEMORIA_NO_DISPONIBLE is exact.
LibreExacta ==
    NadiePerdido =>
        memoria_libre_size = MapThenSumSet(LAMBDA h : h.limite, lista_huecos)

\* The same sentence without the exception: false once a suspension fails half-way, because
\* the next compaction packs segments whose bytes it already released (run swap_lleno).
LibreSiempreExacta ==
    memoria_libre_size = MapThenSumSet(LAMBDA h : h.limite, lista_huecos)

\* memory_gestor.h:26 without the exception: false once a desuspension fails half-way, with
\* some segments back in memory and the flag still set (SegmentacionDesuspensionParcial.cfg).
EnSwapCompleto ==
    \A p \in lista_procesos : en_swap[p] /\ hilo = Ocioso => \A id \in Ids(p) : EnBloque(p, id)

\* memory_gestor.h:26, "true cuando todos los segmentos del proceso estan en SWAP": a process
\* has en_swap exactly when every segment has its own block of its size, no block is held for
\* anybody else, and only the process being moved is in between.
SwapConsistente ==
    NadiePerdido =>
        /\ \A t \in tabla_swap :
            /\ t.pid \in lista_procesos
            /\ en_swap[t.pid] \/ (hilo.op \in {"suspender", "liberar"} /\ hilo.pid = t.pid)
            /\ \E s \in tabla_segmentos[t.pid] : s.id = t.segmento_id /\ s.limite = t.tamanio
        /\ \A t, u \in tabla_swap :
            t # u => t.bloque # u.bloque /\ <<t.pid, t.segmento_id>> # <<u.pid, u.segmento_id>>
        /\ \A p \in lista_procesos :
            en_swap[p] /\ ~(hilo.op \in {"desuspender", "desocupar"} /\ hilo.pid = p) =>
                \A id \in Ids(p) : EnBloque(p, id)

-----------------------------------------------------------------------------
(* The inductive invariant behind them (MemoriaProofs).                    *)

\* The map of the memory: holes and segments tile it, and the holes are fused.
Mapa(segs, hs, total) ==
    /\ Fusionados(hs, total)
    /\ \A x \in segs : x[2].limite > 0 /\ Fin(x[2]) <= total
    /\ \A x, y \in segs : x # y => Disjuntos(x[2], y[2])
    /\ \A h \in hs, x \in segs : Disjuntos(h, x[2])
    /\ Cubren(hs \cup {x[2] : x \in segs}, total)

\* Compaction under way: what was moved is packed below the cursor, what was not lies above it.
Empaquetado(segs, faltan, hasta, total) ==
    /\ \A x \in segs : x[2].limite > 0 /\ Fin(x[2]) <= total
    /\ \A x, y \in segs : x # y => Disjuntos(x[2], y[2])
    /\ faltan \subseteq segs
    /\ \A x \in faltan : hasta <= x[2].base
    /\ \A x \in segs \ faltan : Fin(x[2]) <= hasta
    /\ Cubren({x[2] : x \in segs \ faltan}, hasta)

TablasBien ==
    \A p \in PIDS : \A s, t \in tabla_segmentos[p] : s.limite > 0 /\ (s.id = t.id => s = t)

\* How the flags, the tables and the thread go together.
RegistroBien ==
    /\ \A p \in PIDS :
        /\ en_swap[p] => p \in lista_procesos
        /\ p \notin lista_procesos =>
               tabla_segmentos[p] = {} \/ (hilo.op = "finalizar" /\ hilo.pid = p)
    /\ hilo.op \in {"suspender", "liberar"} => hilo.pid \in lista_procesos /\ ~en_swap[hilo.pid]
    /\ hilo.op \in {"desuspender", "desocupar"} => en_swap[hilo.pid]
    /\ hilo.op \in {"liberar", "desocupar"} =>
           hilo.id \in Ids(hilo.pid) /\ EnBloque(hilo.pid, hilo.id)
    /\ hilo.op = "finalizar" => hilo.pid \notin lista_procesos

MemoriaBien ==
    /\ TablasBien
    /\ RegistroBien
    /\ SwapConsistente
    /\ Fusionados(lista_huecos, memoria_total_size)
    /\ IF hilo.op = "compactar"
       THEN Empaquetado(Residentes, todos, cursor, memoria_total_size)
       ELSE Mapa(Residentes, lista_huecos, memoria_total_size)

InvMemoria == NadiePerdido => MemoriaBien

-----------------------------------------------------------------------------
\* What a compaction is for: when it ends, any request the free bytes can hold finds a hole.
ReintentoEntra ==
    [][NadiePerdido /\ hilo.op = "compactar" /\ hilo' = Ocioso =>
        \A tamanio \in TAMANIOS :
            tamanio <= memoria_libre_size => Caben(lista_huecos, tamanio)' # {}]_vars

\* atender_scheduler never gets stuck half-way through a request: in the middle of a suspension, a
\* desuspension, a compaction or the release of a dead process there is always a next section
\* it may run, whatever blocks were taken and whatever stick came since the last one
\* (swap_gestor.c 63-136 and 144-207, compactacion.c, inicializar.c 91-99).
SigueAtendiendo == hilo.op \notin {"ocioso", "desalojar"} => ENABLED Continuar

\* Every request is answered: the loops over segments and blocks end, whatever sticks arrive.
\* Whether PROCESOS_DESALOJADOS ever comes is up to the scheduler.
PedidoTermina == hilo.op \notin {"ocioso", "desalojar"} ~> hilo = Ocioso
=============================================================================
