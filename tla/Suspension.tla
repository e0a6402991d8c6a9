----------------------------- MODULE Suspension -----------------------------
(***************************************************************************)
(* The middle term: processes that block on a device, the timer that sends *)
(* them to swap, the end of the operation, and the way back when           *)
(* kernel_memory says that they fit (scheduler.c, gestion_IO_scheduler.c,  *)
(* utils_scheduler.c; memory.c, swap_gestor.c; io/src/main.c).             *)
(*                                                                         *)
(* Threads of the scheduler: one per CPU connection, one per device that   *)
(* sends to it and one that reads its answers, one per running timer, and  *)
(* hilo_escuchar_memory for the notices.  A timer holds block_mutex until  *)
(* kernel_memory answered, so it is one step; a resumption keeps           *)
(* mutex_susp_ready over two requests, and is two.  kernel_memory serves   *)
(* one request at a time: a request is part of the step that sends it, and *)
(* one without an answer may as well be served at once, since every later  *)
(* one queues behind it on the same socket; only the notices travel apart. *)
(*                                                                         *)
(* Left to other modules: which process is dispatched and its preemption   *)
(* (Despacho), waiting for a mutex (MutexUsuario), the bytes and the       *)
(* suspension of several segments (Datos, Segmentacion): here a process    *)
(* holds one segment or none.                                              *)
(***************************************************************************)
EXTENDS Huecos, Sequences, FiniteSets, SequencesExt

CONSTANTS
    PIDS, CPUS, NULL,
    prioridad,              \* pid -> the number es_mas_prioritario compares
    DISPOSITIVOS,           \* the io modules that run: among "SLEEP", "STDIN", "STDOUT"
    TAMANIOS,               \* sizes a program passes to MEM_ALLOC
    TEXTOS,                 \* what is typed: "entero" as long as asked for, "corto" shorter
    DIRECCIONES_INVALIDAS,  \* bound of the model: programs that name an address they do not hold,
                            \* at one time
    MEMORIA,                \* memory_total_size
    SWAP_NUM_BLOQUES,
    MAX_AVISOS              \* bound of the model: notices on their way when a program or a
                            \* timer causes another one

ASSUME SuspensionAssumption ==
    /\ NULL \notin PIDS \cup TEXTOS
    /\ IsFiniteSet(CPUS)
    /\ DISPOSITIVOS \subseteq {"SLEEP", "STDIN", "STDOUT"}
    /\ TEXTOS \subseteq {"entero", "corto"}
    /\ TAMANIOS \subseteq Nat \ {0}
    /\ {DIRECCIONES_INVALIDAS, MEMORIA, SWAP_NUM_BLOQUES, MAX_AVISOS} \subseteq Nat
    /\ prioridad \in [PIDS -> Nat]

VARIABLES
    ready, exec, cpus_libres,   \* cpus_libres: the value of sem_hay_cpu_libre
    block, susp_block, susp_ready,
    rechazados,     \* pids whose desuspension was refused: they are in no list any more
    timers,         \* pids with a timer asleep whose token is the one of the pcb
    hilo_cpu,       \* CPU -> what its thread is in the middle of
    cola,           \* device -> the requests not yet sent to it
    disponible,     \* device -> the value of its semaphore
    en_io,          \* device -> the requests sent to it, until its answer is read
    hilo_io,        \* device -> what the thread that reads its answers is in the middle of
    cadena,         \* pid -> cadenaStdin of its t_proc_suspendido
    espera_texto,   \* pids that asked for text their memory does not hold yet
    destino_invalido,   \* of them, those that named an address they do not hold
    lista_huecos, segmento, en_swap,    \* kernel_memory
    avisos,         \* notices on their way, each the set of pids it names
    hilo_escucha,   \* "pedir": the listener resumed a process and has still to ask for the others
    roto            \* memory that was freed has been used

ejecucion == <<ready, exec, cpus_libres>>
listas == <<block, susp_block, susp_ready, rechazados>>
dispositivos == <<cola, disponible, en_io>>
texto == <<cadena, espera_texto, destino_invalido>>
memoria == <<lista_huecos, segmento, en_swap>>
escucha == <<avisos, hilo_escucha>>
vars == <<ejecucion, listas, timers, hilo_cpu, dispositivos, hilo_io, texto, memoria, escucha, roto>>

Libre == [paso |-> "libre"]
Pasos == {Libre} \cup [paso : {"armar"}, pid : PIDS, io : DISPOSITIVOS]
                \cup [paso : {"espera_stdout", "bloquear", "leer"}, pid : PIDS,
                      io : DISPOSITIVOS \cap {"STDOUT"}]
PorDesocupar == [paso |-> "desocupar"]
PasosIO == {Libre, PorDesocupar}
           \cup [paso : {"agregar", "pedir", "pedir_liberado", "pedir_mas"}, pid : PIDS]

\* Holes and segments lie within the memory.
EnMemoria == {h \in Hueco : Fin(h) <= MEMORIA}

TypeOK ==
    /\ {ready, block, susp_block, rechazados, timers, espera_texto, destino_invalido, en_swap}
          \subseteq SUBSET PIDS
    /\ exec \in [CPUS -> PIDS \cup {NULL}]
    /\ cpus_libres \in Nat
    /\ susp_ready \in Seq(PIDS)
    /\ hilo_cpu \in [CPUS -> Pasos]
    /\ {cola, en_io} \subseteq [DISPOSITIVOS -> Seq(PIDS)]
    /\ disponible \in [DISPOSITIVOS -> Nat]
    /\ hilo_io \in [DISPOSITIVOS -> PasosIO]
    /\ cadena \in [PIDS -> TEXTOS \cup {NULL}]
    /\ lista_huecos \in SUBSET EnMemoria
    /\ segmento \in [PIDS -> SUBSET EnMemoria]
    /\ \A p \in PIDS : \A s, t \in segmento[p] : s = t
    /\ avisos \in Seq(SUBSET PIDS)
    /\ hilo_escucha \in {"libre", "pedir"}
    /\ roto \in BOOLEAN

Init ==
    /\ ready = PIDS
    /\ exec = [c \in CPUS |-> NULL]
    /\ cpus_libres = Cardinality(CPUS)
    /\ block = {} /\ susp_block = {} /\ susp_ready = <<>> /\ rechazados = {}
    /\ timers = {}
    /\ hilo_cpu = [c \in CPUS |-> Libre]
    /\ cola = [d \in DISPOSITIVOS |-> <<>>]
    /\ disponible = [d \in DISPOSITIVOS |-> 1]
    /\ en_io = [d \in DISPOSITIVOS |-> <<>>]
    /\ hilo_io = [d \in DISPOSITIVOS |-> Libre]
    /\ cadena = [p \in PIDS |-> NULL]
    /\ espera_texto = {} /\ destino_invalido = {}
    /\ lista_huecos = {[base |-> 0, limite |-> MEMORIA]}
    /\ segmento = [p \in PIDS |-> {}]
    /\ en_swap = {}
    /\ avisos = <<>> /\ hilo_escucha = "libre"
    /\ roto = FALSE

-----------------------------------------------------------------------------
(* kernel_memory: the requests of the scheduler.                           *)

\* One process alone on a copy of the holes, as notificar_desuspendibles tries it.
Cabe(p, huecos) == \A s \in segmento[p] : EncontrarHueco(huecos, s.limite) # {}

Desuspendibles == {p \in en_swap' : Cabe(p, lista_huecos')}

\* The notice goes behind the pending ones; one that names nobody is read and dropped, so it is
\* not modelled.
notificar_desuspendibles(pendientes) ==
    avisos' = IF Desuspendibles = {} THEN pendientes ELSE Append(pendientes, Desuspendibles)

BloquesLibres == SWAP_NUM_BLOQUES - Cardinality({p \in en_swap : segmento[p] # {}})

Devolver(p) ==
    \/ segmento[p] = {} /\ UNCHANGED lista_huecos
    \/ \E s \in segmento[p] : lista_huecos' = InsertarYFusionar(lista_huecos, s)

\* suspender_proceso of swap_gestor.c; the notice leaves before the answer.
AlSwap(p) ==
    /\ segmento[p] = {} \/ BloquesLibres > 0
    /\ Devolver(p)
    /\ en_swap' = en_swap \cup {p}
    /\ notificar_desuspendibles(avisos)
    /\ UNCHANGED segmento

\* Mutant of Presente: a process without blocks keeps its flag.
SinBajarBandera(p) == IF segmento[p] = {} THEN en_swap ELSE en_swap \ {p}

\* proc->en_swap = false, also when no block of the swap is of the process.
Presente(p) == en_swap \ {p}

\* desuspender_proceso of swap_gestor.c: DESUSPEND_OK.
DelSwap(p) ==
    /\ en_swap' = Presente(p)
    /\ \/ segmento[p] = {} /\ UNCHANGED <<lista_huecos, segmento>>
       \/ \E s \in segmento[p] : \E h \in EncontrarHueco(lista_huecos, s.limite) :
            /\ lista_huecos' = Achicar(lista_huecos, h, s.limite)
            /\ segmento' = [segmento EXCEPT ![p] = {[base |-> h.base, limite |-> s.limite]}]

-----------------------------------------------------------------------------
(* A process on its CPU.  Requests are served by the thread of the CPU.    *)

\* exec_mutex is kept by a thread that waits for mutex_stdout_ocupado with it (scheduler.c:279).
ExecLibre == \A c \in CPUS : hilo_cpu[c].paso # "espera_stdout"

StdoutLibre ==
    \A c \in CPUS : hilo_cpu[c].paso # "bloquear"
                    /\ ~(hilo_cpu[c].paso = "armar" /\ hilo_cpu[c].io = "STDOUT")

\* The program of p runs on c and asks for something.
Pide(c, p) == exec[c] = p /\ hilo_cpu[c] = Libre /\ ExecLibre

Despachar(c, p) ==
    /\ ExecLibre
    /\ cpus_libres > 0
    /\ exec[c] = NULL
    /\ p \in ready
    /\ exec' = [exec EXCEPT ![c] = p]
    /\ ready' = ready \ {p}
    /\ cpus_libres' = cpus_libres - 1
    /\ UNCHANGED <<listas, timers, hilo_cpu, dispositivos, hilo_io, texto, memoria, escucha, roto>>

MEM_ALLOC(c, p, tamanio) ==
    /\ Pide(c, p)
    /\ segmento[p] = {}
    /\ \E h \in EncontrarHueco(lista_huecos, tamanio) :
        /\ lista_huecos' = Achicar(lista_huecos, h, tamanio)
        /\ segmento' = [segmento EXCEPT ![p] = {[base |-> h.base, limite |-> tamanio]}]
    /\ UNCHANGED <<ejecucion, listas, timers, hilo_cpu, dispositivos, hilo_io, texto, en_swap,
                   escucha, roto>>

MEM_FREE(c, p) ==
    /\ Pide(c, p)
    /\ segmento[p] # {}
    /\ Len(avisos) < MAX_AVISOS
    /\ Devolver(p)
    /\ segmento' = [segmento EXCEPT ![p] = {}]
    /\ UNCHANGED en_swap
    /\ notificar_desuspendibles(avisos)
    /\ UNCHANGED <<ejecucion, listas, timers, hilo_cpu, dispositivos, hilo_io, texto, hilo_escucha,
                   roto>>

EXIT(c, p) ==
    /\ Pide(c, p)
    /\ Devolver(p)
    /\ segmento' = [segmento EXCEPT ![p] = {}]
    /\ UNCHANGED en_swap
    /\ notificar_desuspendibles(avisos)
    /\ exec' = [exec EXCEPT ![c] = NULL]
    /\ cpus_libres' = cpus_libres + 1
    /\ espera_texto' = espera_texto \ {p}
    /\ destino_invalido' = destino_invalido \ {p}
    /\ UNCHANGED <<ready, listas, timers, hilo_cpu, dispositivos, hilo_io, cadena, hilo_escucha,
                   roto>>

\* bloquear_proceso up to list_add, under exec_mutex and then block_mutex.
Bloqueado(c, p, d) ==
    /\ exec' = [exec EXCEPT ![c] = NULL]
    /\ block' = block \cup {p}
    /\ hilo_cpu' = [hilo_cpu EXCEPT ![c] = [paso |-> "armar", pid |-> p, io |-> d]]

\* The address STDIN names: within the segment of p, or not.  The CPU checks it, but with the table
\* it was given when it began to execute p (solicitar_stdin), which may keep a segment that MEM_FREE
\* has just asked Kernel Memory to free, as nobody waits for the answer.
NombraDestino(p) ==
    /\ espera_texto' = espera_texto \cup {p}
    /\ \/ segmento[p] # {} /\ destino_invalido' = destino_invalido \ {p}
       \/ /\ Cardinality(destino_invalido \ {p}) < DIRECCIONES_INVALIDAS
          /\ destino_invalido' = destino_invalido \cup {p}

\* case SLEEP, case STDIN.
Bloquear(c, p, d) ==
    /\ Pide(c, p)
    /\ Bloqueado(c, p, d)
    /\ \/ d = "SLEEP" /\ UNCHANGED <<espera_texto, destino_invalido>>
       \/ d = "STDIN" /\ NombraDestino(p)
    /\ UNCHANGED <<ready, cpus_libres, susp_block, susp_ready, rechazados, timers, dispositivos,
                   hilo_io, cadena, memoria, escucha, roto>>

\* case STDOUT: exec_mutex is taken, and kept until mutex_stdout_ocupado is.
STDOUT(c, p) ==
    /\ Pide(c, p)
    /\ segmento[p] # {} \/ DIRECCIONES_INVALIDAS > 0
    /\ hilo_cpu' = [hilo_cpu EXCEPT ![c] = [paso |-> "espera_stdout", pid |-> p, io |-> "STDOUT"]]
    /\ UNCHANGED <<ejecucion, listas, timers, dispositivos, hilo_io, texto, memoria, escucha, roto>>

TomarStdout(c) ==
    /\ hilo_cpu[c].paso = "espera_stdout"
    /\ StdoutLibre
    /\ hilo_cpu' = [hilo_cpu EXCEPT ![c].paso = "bloquear"]
    /\ UNCHANGED <<ejecucion, listas, timers, dispositivos, hilo_io, texto, memoria, escucha, roto>>

\* bloquear_proceso takes exec_mutex again, mutex_stdout_ocupado being held.
BloquearStdout(c) ==
    /\ hilo_cpu[c].paso = "bloquear"
    /\ ExecLibre
    /\ Bloqueado(c, hilo_cpu[c].pid, "STDOUT")
    /\ UNCHANGED <<ready, cpus_libres, susp_block, susp_ready, rechazados, timers, dispositivos,
                   hilo_io, texto, memoria, escucha, roto>>

\* timer_tiempo_bloqueado: the token grows, so the timers of earlier blockings are void and the
\* new one counts; then the request enters the queue of the device, unless it has to be read
\* from memory first, and the CPU is announced.
Armar(c) ==
    /\ hilo_cpu[c].paso = "armar"
    /\ timers' = timers \cup {hilo_cpu[c].pid}
    /\ cpus_libres' = cpus_libres + 1
    /\ IF hilo_cpu[c].io = "STDOUT"
       THEN /\ hilo_cpu' = [hilo_cpu EXCEPT ![c].paso = "leer"]
            /\ UNCHANGED cola
       ELSE /\ hilo_cpu' = [hilo_cpu EXCEPT ![c] = Libre]
            /\ cola' = [cola EXCEPT ![hilo_cpu[c].io] = Append(@, hilo_cpu[c].pid)]
    /\ UNCHANGED <<ready, exec, listas, disponible, en_io, hilo_io, texto, memoria, escucha, roto>>

\* solicitar_cadena_a_memory.  After LECTURA_FALLIDA (the address is outside the segment, or there
\* is none) the request is dropped and the process stays blocked.
LeerSalida(c) ==
    /\ hilo_cpu[c].paso = "leer"
    /\ \/ /\ segmento[hilo_cpu[c].pid] # {}
          /\ cola' = [cola EXCEPT !["STDOUT"] = Append(@, hilo_cpu[c].pid)]
       \/ DIRECCIONES_INVALIDAS > 0 /\ UNCHANGED cola
    /\ hilo_cpu' = [hilo_cpu EXCEPT ![c] = Libre]
    /\ UNCHANGED <<ejecucion, listas, timers, disponible, en_io, hilo_io, texto, memoria, escucha,
                   roto>>

-----------------------------------------------------------------------------
(* hilo_timer_bloqueado.                                                   *)

\* The process is no longer blocked: the timer ends.
TimerObsoleto(p) ==
    /\ p \in timers \ block
    /\ timers' = timers \ {p}
    /\ UNCHANGED <<ejecucion, listas, hilo_cpu, dispositivos, hilo_io, texto, memoria, escucha, roto>>

Vencido(p) == p \in timers /\ p \in block

Suspender(p) ==
    /\ Vencido(p)
    /\ Len(avisos) < MAX_AVISOS
    /\ timers' = timers \ {p}
    /\ block' = block \ {p}
    /\ susp_block' = susp_block \cup {p}
    /\ AlSwap(p)
    /\ UNCHANGED <<ejecucion, susp_ready, rechazados, hilo_cpu, dispositivos, hilo_io, texto,
                   hilo_escucha, roto>>

\* The answer is MEMORIA_NO_DISPONIBLE: the pcb is freed, and put in susp_block all the same.
SuspensionRechazada(p) ==
    /\ Vencido(p)
    /\ segmento[p] # {} /\ BloquesLibres = 0
    /\ roto' = TRUE
    /\ UNCHANGED <<ejecucion, listas, timers, hilo_cpu, dispositivos, hilo_io, texto, memoria,
                   escucha>>

-----------------------------------------------------------------------------
(* Resuming: desuspender_proceso of utils_scheduler.c.  Its caller keeps   *)
(* mutex_susp_ready from the first request to the second.                  *)

SuspReadyLibre ==
    hilo_escucha = "libre" /\ \A d \in DISPOSITIVOS : hilo_io[d].paso # "pedir_mas"

\* Mutant of EscribirAlVolver: cadenaStdin is dropped.
VolverSinTexto(p) ==
    /\ UNCHANGED <<espera_texto, destino_invalido>>
    /\ cadena' = [cadena EXCEPT ![p] = NULL]

\* kernel_memory writes the text that came with the request, as many bytes as it has, and answers
\* DESUSPEND_OK whether it could or not (memory.c:377): after ESCRITURA_FALLIDA the text is lost.
EscribirAlVolver(p) ==
    /\ \/ /\ cadena[p] = "entero" /\ p \notin destino_invalido
          /\ espera_texto' = espera_texto \ {p}
       \/ /\ cadena[p] # "entero" \/ p \in destino_invalido
          /\ UNCHANGED espera_texto
    /\ UNCHANGED destino_invalido
    /\ cadena' = [cadena EXCEPT ![p] = NULL]

\* DESUSPENDER_PROCESO, answered DESUSPEND_OK.
Desuspender(p) ==
    /\ DelSwap(p)
    /\ EscribirAlVolver(p)
    /\ ready' = ready \cup {p}
    /\ UNCHANGED rechazados

\* Any other answer: the process stays in swap, and in no list.
DesuspensionRechazada(p) ==
    /\ ~Cabe(p, lista_huecos)
    /\ rechazados' = rechazados \cup {p}
    /\ cadena' = [cadena EXCEPT ![p] = NULL]
    /\ UNCHANGED <<ready, memoria, espera_texto, destino_invalido>>

\* Mutant of PedirDesuspendibles: nothing is asked after a success.
SinPedir == UNCHANGED avisos

\* SOLICITAR_PROCS_DESUSPENDIBLES, after DESUSPEND_OK.
PedirDesuspendibles == notificar_desuspendibles(avisos)

-----------------------------------------------------------------------------
(* The devices.                                                            *)

\* Mutant of Desencolar: the request is read and stays in the queue.
Mirar(lista) == lista

Desencolar(lista) == Tail(lista)

\* hilo_io_sleep, hilo_io_stdin, hilo_io_stdout.
EnviarAlDispositivo(d) ==
    /\ cola[d] # <<>>
    /\ disponible[d] > 0
    /\ disponible' = [disponible EXCEPT ![d] = @ - 1]
    /\ en_io' = [en_io EXCEPT ![d] = Append(@, Head(cola[d]))]
    /\ cola' = [cola EXCEPT ![d] = Desencolar(@)]
    /\ UNCHANGED <<ejecucion, listas, timers, hilo_cpu, hilo_io, texto, memoria, escucha, roto>>

\* The thread of the device reads FINALIZAR_SLEEP, FINALIZAR_STDIN or FINALIZAR_STDOUT of p.
Finaliza(d, p) ==
    /\ hilo_io[d] = Libre
    /\ en_io[d] # <<>>
    /\ Head(en_io[d]) = p
    /\ en_io' = [en_io EXCEPT ![d] = Tail(@)]

\* FINALIZAR_STDOUT ends by taking mutex_stdout_ocupado, the semaphore having been posted.
AlTerminar(d) == IF d = "STDOUT" THEN PorDesocupar ELSE Libre

Desocupar(d) ==
    /\ hilo_io[d] = PorDesocupar
    /\ StdoutLibre
    /\ hilo_io' = [hilo_io EXCEPT ![d] = Libre]
    /\ UNCHANGED <<ejecucion, listas, timers, hilo_cpu, dispositivos, texto, memoria, escucha, roto>>

\* The process is still in block_lista.
FinalizarEnBlock(d, p) ==
    /\ Finaliza(d, p)
    /\ p \in block
    /\ d = "STDIN" => p \notin destino_invalido
    /\ block' = block \ {p}
    /\ ready' = ready \cup {p}
    /\ disponible' = [disponible EXCEPT ![d] = @ + 1]
    /\ \/ d # "STDIN" /\ UNCHANGED espera_texto
       \/ d = "STDIN" /\ \E t \in TEXTOS :
            espera_texto' = IF t = "entero" THEN espera_texto \ {p} ELSE espera_texto
    /\ hilo_io' = [hilo_io EXCEPT ![d] = AlTerminar(d)]
    /\ UNCHANGED <<exec, cpus_libres, susp_block, susp_ready, rechazados, timers, hilo_cpu, cola,
                   cadena, destino_invalido, memoria, escucha, roto>>

\* ESCRITURA_FALLIDA: the handler ends, with the process in no list and the device taken.
EscrituraFallida(p) ==
    /\ Finaliza("STDIN", p)
    /\ p \in block
    /\ p \in destino_invalido
    /\ block' = block \ {p}
    /\ UNCHANGED <<ejecucion, susp_block, susp_ready, rechazados, timers, hilo_cpu, cola,
                   disponible, hilo_io, texto, memoria, escucha, roto>>

\* pasar_des_susp_block_a_ready, the section of mutex_susp_block.
SacarDeSuspBlock(d, p) ==
    /\ Finaliza(d, p)
    /\ p \in susp_block
    /\ susp_block' = susp_block \ {p}
    /\ \/ d # "STDIN" /\ UNCHANGED cadena
       \/ d = "STDIN" /\ \E t \in TEXTOS : cadena' = [cadena EXCEPT ![p] = t]
    /\ hilo_io' = [hilo_io EXCEPT ![d] = [paso |-> "agregar", pid |-> p]]
    /\ UNCHANGED <<ejecucion, block, susp_ready, rechazados, timers, hilo_cpu, cola, disponible,
                   espera_texto, destino_invalido, memoria, escucha, roto>>

\* list_add_sorted: before the first one that has to wait for p.
Ordenada(lista, p) ==
    LET i == SelectInSeq(lista, LAMBDA q : prioridad[p] < prioridad[q])
    IN  IF i = 0 THEN Append(lista, p) ELSE InsertAt(lista, i, p)

AgregarASuspReady(d) ==
    /\ hilo_io[d].paso = "agregar"
    /\ SuspReadyLibre
    /\ susp_ready' = Ordenada(susp_ready, hilo_io[d].pid)
    /\ hilo_io' = [hilo_io EXCEPT ![d].paso = "pedir"]
    /\ UNCHANGED <<ejecucion, block, susp_block, rechazados, timers, hilo_cpu, dispositivos, texto,
                   memoria, escucha, roto>>

\* Mutant of TerminarHandler: the semaphore of the device is not posted.
TerminarSinPost(d) ==
    /\ hilo_io' = [hilo_io EXCEPT ![d] = AlTerminar(d)]
    /\ UNCHANGED dispositivos

\* The end of the handler: the device is free again.
TerminarHandler(d) ==
    /\ disponible' = [disponible EXCEPT ![d] = @ + 1]
    /\ hilo_io' = [hilo_io EXCEPT ![d] = AlTerminar(d)]
    /\ UNCHANGED <<cola, en_io>>

\* Mutant of PedirAlEntrar: only the next notice will tell.
EsperarAviso == UNCHANGED avisos

PedirAlEntrar == notificar_desuspendibles(avisos)

\* bytesSuspendidos is not zero: somebody has to say that it fits.
PedirLugar(d) ==
    /\ \/ hilo_io[d].paso = "pedir" /\ segmento[hilo_io[d].pid] # {}
       \/ hilo_io[d].paso = "pedir_liberado"
    /\ UNCHANGED <<ejecucion, listas, timers, hilo_cpu, texto, memoria, hilo_escucha, roto>>
    /\ PedirAlEntrar
    /\ TerminarHandler(d)

\* bytesSuspendidos is zero: it needs no memory, and so is not refused.
DesuspenderSinBytes(d) ==
    /\ hilo_io[d].paso = "pedir"
    /\ segmento[hilo_io[d].pid] = {}
    /\ SuspReadyLibre
    /\ susp_ready' = RemoveFirst(susp_ready, hilo_io[d].pid)
    /\ Desuspender(hilo_io[d].pid)
    /\ hilo_io' = [hilo_io EXCEPT ![d].paso = "pedir_mas"]
    /\ UNCHANGED <<exec, cpus_libres, block, susp_block, timers, hilo_cpu, dispositivos, escucha,
                   roto>>

PedirMas(d) ==
    /\ hilo_io[d].paso = "pedir_mas"
    /\ UNCHANGED <<ejecucion, listas, timers, hilo_cpu, texto, memoria, hilo_escucha, roto>>
    /\ PedirDesuspendibles
    /\ TerminarHandler(d)

\* The listener resumed the process since it entered susp_ready and, when it ended, freed what the
\* handler now reads: it may find anything there, bytesSuspendidos as it was in PedirLugar.
UsarLiberado(d) ==
    /\ hilo_io[d].paso = "pedir_liberado"
    /\ hilo_escucha = "libre"
    /\ roto' = TRUE
    /\ UNCHANGED <<ejecucion, listas, timers, hilo_cpu, dispositivos, hilo_io, texto, memoria,
                   escucha>>

-----------------------------------------------------------------------------
(* hilo_escuchar_memory.                                                   *)

\* The position in susp_ready of the first process the notice names; 0 if there is none.
Nombrado == SelectInSeq(susp_ready, LAMBDA p : p \in Head(avisos))

AvisoSinEfecto ==
    /\ avisos # <<>>
    /\ SuspReadyLibre
    /\ Nombrado = 0
    /\ avisos' = Tail(avisos)
    /\ UNCHANGED <<ejecucion, listas, timers, hilo_cpu, dispositivos, hilo_io, texto, memoria,
                   hilo_escucha, roto>>

\* recorrer_y_desuspender: one process is tried, and the loop ends.
AtenderAviso ==
    /\ avisos # <<>>
    /\ SuspReadyLibre
    /\ Nombrado # 0
    /\ avisos' = Tail(avisos)
    /\ LET p == susp_ready[Nombrado]
       IN  /\ susp_ready' = RemoveAt(susp_ready, Nombrado)
           /\ hilo_io' = [d \in DISPOSITIVOS |->
                            IF hilo_io[d] = [paso |-> "pedir", pid |-> p]
                            THEN [paso |-> "pedir_liberado", pid |-> p] ELSE hilo_io[d]]
           /\ \/ Desuspender(p) /\ hilo_escucha' = "pedir"
              \/ DesuspensionRechazada(p) /\ UNCHANGED hilo_escucha
    /\ UNCHANGED <<exec, cpus_libres, block, susp_block, timers, hilo_cpu, dispositivos, roto>>

PedirTrasAviso ==
    /\ hilo_escucha = "pedir"
    /\ hilo_escucha' = "libre"
    /\ UNCHANGED <<ejecucion, listas, timers, hilo_cpu, dispositivos, hilo_io, texto, memoria, roto>>
    /\ PedirDesuspendibles

-----------------------------------------------------------------------------
HiloCpu(c) == TomarStdout(c) \/ BloquearStdout(c) \/ Armar(c) \/ LeerSalida(c)

HiloIO(d) ==
    \/ \E p \in PIDS : FinalizarEnBlock(d, p) \/ SacarDeSuspBlock(d, p)
    \/ d = "STDIN" /\ \E p \in PIDS : EscrituraFallida(p)
    \/ AgregarASuspReady(d) \/ PedirLugar(d) \/ DesuspenderSinBytes(d) \/ PedirMas(d)
    \/ UsarLiberado(d) \/ Desocupar(d)

HiloEscucha == AvisoSinEfecto \/ AtenderAviso \/ PedirTrasAviso

HiloTimer(p) == TimerObsoleto(p) \/ Suspender(p) \/ SuspensionRechazada(p)

Programa(c, p) ==
    \/ \E tamanio \in TAMANIOS : MEM_ALLOC(c, p, tamanio)
    \/ MEM_FREE(c, p) \/ EXIT(c, p)
    \/ \E d \in DISPOSITIVOS : Bloquear(c, p, d)
    \/ "STDOUT" \in DISPOSITIVOS /\ STDOUT(c, p)

\* What is done with freed memory is not followed.
Next ==
    /\ ~roto
    /\ \/ \E c \in CPUS, p \in PIDS : Despachar(c, p) \/ Programa(c, p)
       \/ \E c \in CPUS : HiloCpu(c)
       \/ \E p \in PIDS : HiloTimer(p)
       \/ \E d \in DISPOSITIVOS : EnviarAlDispositivo(d) \/ HiloIO(d)
       \/ HiloEscucha

Spec == Init /\ [][Next]_vars

\* Every thread of the scheduler runs and a device ends what it was given; programs do what they
\* want, and a timer may be as long as it likes.
SpecJusta ==
    /\ Spec
    /\ \A c \in CPUS : WF_vars(~roto /\ HiloCpu(c))
    /\ \A d \in DISPOSITIVOS : WF_vars(~roto /\ EnviarAlDispositivo(d)) /\ WF_vars(~roto /\ HiloIO(d))
    /\ WF_vars(~roto /\ HiloEscucha)

-----------------------------------------------------------------------------
(* Properties.                                                             *)

EnSuspReady == ToSet(susp_ready)
EnTraslado == {hilo_io[d].pid : d \in {d \in DISPOSITIVOS : hilo_io[d].paso = "agregar"}}
EnNingunLado == PIDS \ (ready \cup {exec[c] : c \in CPUS} \cup block \cup susp_block
                        \cup EnTraslado \cup EnSuspReady)

\* The scheduler and kernel_memory agree on who is suspended, whatever timer, answer and notice
\* crossed: a process is in swap just while it is in SUSP BLOCK or SUSP READY (or on its way from
\* one to the other, or given up), so one that runs or may be run has its memory.
MismaSuspension == en_swap = susp_block \cup EnTraslado \cup EnSuspReady \cup rechazados

\* What is asked of a device ends with the process where the handler looks for it
\* (pasar_des_susp_block_a_ready leaves with mutex_susp_block taken if it is not): waiting or
\* being served, it is in BLOCK or in SUSP BLOCK, once, and asks for nothing else.
EsperaEnSuLista ==
    LET pedidos(d) == cola[d] \o en_io[d]
    IN  \A d \in DISPOSITIVOS : \A i \in DOMAIN pedidos(d) :
            /\ pedidos(d)[i] \in block \cup susp_block
            /\ \A e \in DISPOSITIVOS : \A j \in DOMAIN pedidos(e) :
                  pedidos(d)[i] = pedidos(e)[j] => d = e /\ i = j

\* The semaphore of a device counts it: it is free, or it works for one process, or the thread
\* that reads its answers has not posted it for the last one.  It is lost only together with a
\* process whose text had nowhere to go, one that is in no list although nobody refused to resume
\* it (ESCRITURA_FALLIDA, scheduler.c:372-377).
UnUsoPorDispositivo ==
    \A d \in DISPOSITIVOS :
        LET usos == disponible[d] + Len(en_io[d])
                        + (IF hilo_io[d] \in {Libre, PorDesocupar} THEN 0 ELSE 1)
        IN  \/ usos = 1
            \/ /\ usos = 0 /\ d = "STDIN"
               /\ destino_invalido \cap (EnNingunLado \ rechazados) # {}

\* A process that asked for text at an address it holds does not run again before its memory has
\* it, whether it was written at FINALIZAR_STDIN or kept in cadenaStdin while the process was in
\* swap.
TextoAntesDeSeguir ==
    (espera_texto \ destino_invalido) \cap (ready \cup {exec[c] : c \in CPUS}) = {}

\* Somebody has still to ask who fits: the handler that put p in SUSP READY, or whoever resumed
\* another process and keeps mutex_susp_ready.
PediranPor(p) ==
    \/ \E d \in DISPOSITIVOS : hilo_io[d] = [paso |-> "pedir", pid |-> p]
    \/ ~SuspReadyLibre

\* No process is forgotten in SUSP READY, although a notice names all those that fit and resumes
\* one (recorrer_y_desuspender): while one fits there is a notice that names it, or somebody has
\* still to ask.  Only a refused desuspension breaks the chain, since nothing is asked after it.
NadieOlvidado ==
    rechazados = {} => \A p \in EnSuspReady :
        Cabe(p, lista_huecos) => PediranPor(p) \/ \E i \in DOMAIN avisos : p \in avisos[i]

\* A process whose operation ended while it was suspended does not stay in SUSP READY for ever if
\* it fits from some moment on (or its desuspension is refused, or freed memory is used).
SeReanuda ==
    <>roto \/ \A p \in PIDS : []<>~(p \in EnSuspReady /\ Cabe(p, lista_huecos))

\* "igual nunca se deberia llegar a esta situacion" (utils_scheduler.c): a desuspension
\* kernel_memory announced is not refused.  False: the memory may be given to somebody else while
\* the notice travels, and then the process is in no list.
NuncaRechaza == rechazados = {}

\* A process that asked for text does not run again without it, whatever address it named: while it
\* is in BLOCK a write that fails ends it (scheduler.c:372-377).  False: the result of the write made
\* when it comes back from swap is not looked at (memory.c:377).
NuncaSinTexto == espera_texto \cap (ready \cup {exec[c] : c \in CPUS}) = {}

\* Memory that was freed is not used.  False: with the swap full the pcb goes to susp_block after
\* free (utils_scheduler.c:784-791), and the listener may resume a process before
\* pasar_des_susp_block_a_ready looks at it again.
SinUsoTrasLiberar == ~roto

\* STDOUT prints what the process had in memory.  False: the process is blocked, and its timer
\* armed, before the bytes are read (scheduler.c:284-293).
LeeSuMemoria ==
    [][\A c \in CPUS : hilo_cpu[c].paso = "leer" /\ hilo_cpu'[c] = Libre
                       => hilo_cpu[c].pid \notin en_swap]_vars

\* Only the timer of this blocking suspends.  False: between list_add and tokenBloqueado++ the
\* timer of an earlier one still has the right token (utils_scheduler.c:190-194).
SuspendeSuTimer ==
    [][\A c \in CPUS : hilo_cpu[c].paso = "armar" /\ hilo_cpu[c].pid \in block
                       => hilo_cpu[c].pid \notin susp_block']_vars

\* The two locks of STDOUT are not waited for in opposite orders.  False with two CPUs
\* (scheduler.c:279-284).
SinAbrazo ==
    ~(\E c, e \in CPUS : hilo_cpu[c].paso = "espera_stdout" /\ hilo_cpu[e].paso = "bloquear")
=============================================================================
