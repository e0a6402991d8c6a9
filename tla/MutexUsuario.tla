---------------------------- MODULE MutexUsuario ----------------------------
(* Kernel Scheduler: the mutexes of the user programs, the inheritance of    *)
(* priority, and the lists a blocked process goes through meanwhile (BLOCK,  *)
(* SUSP BLOCK, SUSP READY, READY).                                           *)
(*                                                                           *)
(* A step is one critical section of the code; mutex_lista_mutex, which is   *)
(* kept through several of them, has a variable.  The messages between a     *)
(* handler and its CPU are those of Despacho: here a process that is resumed *)
(* runs, and an eviction finds the handler idle.  Compaction, preemption     *)
(* between queues and refusals of Kernel Memory are not here.                *)
(*                                                                           *)
(* The programs: never lock what they hold, unlock only what they hold (or   *)
(* what does not exist).                                                     *)
EXTENDS Integers, Sequences, FiniteSets, SequencesExt

CONSTANTS
    PIDS,            \* the processes, all of them already created
    CPUS,
    MUTEX,           \* names of mutexes
    CREADOS,         \* those the programs created before the others run
    Nadie,           \* NULL, and UINT32_MAX as the pid of a free mutex
    ALGORITMO,       \* "FIFO", "RR" or "CMN" (without preemption)
    CANTIDAD_COLAS,
    ORIGINAL,        \* prioridadOriginal of each process
    SIN_MEMORIA,     \* the processes without segments
    AVISADOS,        \* those the notices of Kernel Memory may name
    SYSCALLS         \* what the programs may call

ASSUME SupuestosMutex ==
    /\ IsFiniteSet(PIDS) /\ IsFiniteSet(CPUS) /\ IsFiniteSet(CREADOS)
    /\ Nadie \notin PIDS \cup CPUS \cup MUTEX
    /\ CPUS \cap {"io", "escucha"} = {}
    /\ CREADOS \subseteq MUTEX
    /\ SIN_MEMORIA \cup AVISADOS \subseteq PIDS
    /\ ALGORITMO \in {"FIFO", "RR", "CMN"}
    /\ CANTIDAD_COLAS \in Nat
    /\ ORIGINAL \in [PIDS -> 0 .. CANTIDAD_COLAS - 1]
    /\ SYSCALLS \subseteq
          {"MUTEX_CREATE", "MUTEX_LOCK", "MUTEX_UNLOCK", "SLEEP", "EXIT"}

VARIABLES
    cpu,          \* cpu->pcb of each CPU
    prioridad,    \* pcb->prioridad of each process
    cola,         \* cola_multinivel; ready_cola is queue 0
    sem,          \* sem_hay_proceso_ready and sem_hay_cpu_libre
    planif,       \* the thread planificador: paso, pcb
    block,        \* block_lista
    susp_block,
    susp_ready,
    cola_sleep,   \* the processes at the SLEEP device or waiting for it
    lista_mutex,
    mutex_lista,  \* the thread that holds mutex_lista_mutex
    manejador,    \* handlers of the CPUs and the device, hilo_escuchar_memory
    vivos,        \* the processes whose t_pcb exists
    pide,         \* program: the mutex it called MUTEX_LOCK on
    tiene,        \* program: the mutexes it has locked
    caida         \* NULL was dereferenced

listas == <<block, susp_block, susp_ready, cola_sleep>>
programa == <<vivos, pide, tiene>>
vars == <<cpu, prioridad, cola, sem, planif, listas, lista_mutex, mutex_lista,
          manejador, programa, caida>>

Io == "io"
Escucha == "escucha"
HILOS == CPUS \cup {Io, Escucha}

PRIORIDADES == 0 .. CANTIDAD_COLAS - 1

Libre == [syscall |-> "ninguna", paso |-> "recibir", pid |-> Nadie,
          otro |-> Nadie, i |-> 0, sacado |-> FALSE, nueva |-> 0]

Mutex(nombre) == [nombre |-> nombre, pid |-> Nadie, contador |-> 1,
                  colaEspera |-> <<>>]

-----------------------------------------------------------------------------
(* Ready queues.                                                             *)

ColaDe(p, prio) == IF ALGORITMO = "CMN" THEN prio[p] ELSE 0

\* encolar_pcb_ready, with the priorities of that moment.
Encolada(p, prio) ==
    [cola EXCEPT ![ColaDe(p, prio)] = Append(@, p)]

EnReady == UNION {ToSet(cola[k]) : k \in PRIORIDADES}

\* desencolar_pcb_ready takes the first of the first queue that has one.
colaElegida ==
    CHOOSE k \in PRIORIDADES :
        cola[k] # <<>> /\ \A j \in PRIORIDADES : cola[j] # <<>> => k <= j

Ejecutando == {cpu[c] : c \in CPUS} \ {Nadie}

-----------------------------------------------------------------------------
(* The list of mutexes.                                                      *)

Creado(nombre) == \E i \in DOMAIN lista_mutex : lista_mutex[i].nombre = nombre

\* buscar_mutex, when there is one.
Indice(nombre) ==
    CHOOSE i \in DOMAIN lista_mutex : lista_mutex[i].nombre = nombre

Esperan(m) == ToSet(m.colaEspera)

\* The best priority among a set of processes and n.
Mejor(S, n) ==
    LET prios == {prioridad[p] : p \in S} \cup {n}
    IN CHOOSE k \in prios : \A j \in prios : k <= j

\* Mutant of Entregado: to the last that came.
EntregadoAlUltimo(m) ==
    [m EXCEPT !.contador = @ + 1, !.pid = Last(m.colaEspera),
              !.colaEspera = Front(@)]

\* m given to the first of its queue.
Entregado(m) ==
    [m EXCEPT !.contador = @ + 1, !.pid = Head(m.colaEspera),
              !.colaEspera = Tail(@)]

\* What the new owner inherits from those who still wait.
HeredaDeLaCola(m) ==
    LET sig == Head(m.colaEspera)
    IN [prioridad EXCEPT ![sig] = Mejor(ToSet(Tail(m.colaEspera)), @)]

-----------------------------------------------------------------------------
(* Ways a handler goes on.                                                   *)

Sigue(h, paso) == manejador' = [manejador EXCEPT ![h].paso = paso]

\* The handler is idle and the program of the process on its CPU makes a call.
Llama(c, syscall) ==
    /\ ~caida
    /\ syscall \in SYSCALLS
    /\ cpu[c] # Nadie
    /\ manejador[c] = Libre

\* The call found no such mutex: the handler goes back to its socket and the
\* process is never resumed (nor is anything else read from that CPU).
NoExiste(c, syscall) ==
    /\ manejador' = [manejador EXCEPT ![c].syscall = syscall,
                                      ![c].paso = "sin_respuesta"]
    /\ UNCHANGED <<cpu, prioridad, cola, sem, planif, listas, lista_mutex,
                   mutex_lista, programa, caida>>

-----------------------------------------------------------------------------
(* MUTEX_CREATE: an existing mutex is left alone.                            *)

Crear(c, nombre) ==
    /\ Llama(c, "MUTEX_CREATE")
    /\ mutex_lista = Nadie
    /\ ~Creado(nombre)
    /\ lista_mutex' = Append(lista_mutex, Mutex(nombre))
    /\ UNCHANGED <<cpu, prioridad, cola, sem, planif, listas, mutex_lista,
                   manejador, programa, caida>>

-----------------------------------------------------------------------------
(* MUTEX_LOCK.                                                               *)

\* Mutant of LockLibre: taken without looking at the counter.
LockSinMirar(c, nombre) ==
    LET i == Indice(nombre) IN
    /\ lista_mutex' = [lista_mutex EXCEPT ![i].contador = @ - 1,
                                          ![i].pid = cpu[c]]
    /\ tiene' = [tiene EXCEPT ![cpu[c]] = @ \cup {nombre}]
    /\ UNCHANGED <<prioridad, mutex_lista, manejador, pide>>

\* Free: the process takes it and goes on.
LockLibre(c, nombre) ==
    LET i == Indice(nombre) IN
    /\ lista_mutex[i].contador >= 1
    /\ lista_mutex' = [lista_mutex EXCEPT ![i].contador = @ - 1,
                                          ![i].pid = cpu[c]]
    /\ tiene' = [tiene EXCEPT ![cpu[c]] = @ \cup {nombre}]
    /\ UNCHANGED <<prioridad, mutex_lista, manejador, pide>>

\* Mutant of LockTomado: who waits is not counted.
LockSinContar(c, nombre) ==
    LET i == Indice(nombre) IN
    /\ lista_mutex[i].contador < 1
    /\ lista_mutex' = [lista_mutex EXCEPT
                          ![i].colaEspera = Append(@, cpu[c])]
    /\ mutex_lista' = c
    /\ pide' = [pide EXCEPT ![cpu[c]] = nombre]
    /\ manejador' = [manejador EXCEPT ![c] =
           [Libre EXCEPT !.syscall = "MUTEX_LOCK", !.paso = "en_exec",
                         !.pid = cpu[c], !.otro = lista_mutex[i].pid]]
    /\ UNCHANGED <<prioridad, tiene>>

\* Taken: it joins the queue and looks for the owner, keeping the list locked.
LockTomado(c, nombre) ==
    LET i == Indice(nombre) IN
    /\ lista_mutex[i].contador < 1
    /\ lista_mutex' = [lista_mutex EXCEPT ![i].contador = @ - 1,
                                          ![i].colaEspera = Append(@, cpu[c])]
    /\ mutex_lista' = c
    /\ pide' = [pide EXCEPT ![cpu[c]] = nombre]
    /\ manejador' = [manejador EXCEPT ![c] =
           [Libre EXCEPT !.syscall = "MUTEX_LOCK", !.paso = "en_exec",
                         !.pid = cpu[c], !.otro = lista_mutex[i].pid]]
    /\ UNCHANGED <<prioridad, tiene>>

Lock(c, nombre) ==
    /\ Llama(c, "MUTEX_LOCK")
    /\ nombre \notin tiene[cpu[c]]
    /\ mutex_lista = Nadie
    /\ Creado(nombre)
    /\ LockLibre(c, nombre) \/ LockTomado(c, nombre)
    /\ UNCHANGED <<cpu, cola, sem, planif, listas, vivos, caida>>

LockNoExiste(c, nombre) ==
    /\ Llama(c, "MUTEX_LOCK")
    /\ mutex_lista = Nadie
    /\ ~Creado(nombre)
    /\ NoExiste(c, "MUTEX_LOCK")

\* buscar_pcb_por_pid looks in one list after another, each under its mutex.
BuscarEn(c, paso, lista, sigue) ==
    /\ ~caida
    /\ manejador[c].paso = paso
    /\ Sigue(c, IF manejador[c].otro \in lista THEN "heredar" ELSE sigue)
    /\ UNCHANGED <<cpu, prioridad, cola, sem, planif, listas, lista_mutex,
                   mutex_lista, programa, caida>>

BuscarEnExec(c) == BuscarEn(c, "en_exec", Ejecutando, "en_ready")
BuscarEnBlock(c) == BuscarEn(c, "en_block", block, "en_susp_block")
BuscarEnSuspBlock(c) ==
    BuscarEn(c, "en_susp_block", susp_block, "en_susp_ready")

\* mutex_susp_ready is kept while a process is being resumed.
SuspReadyLibre == \A h \in HILOS : manejador[h].paso # "desuspender"

BuscarEnSuspReady(c) ==
    /\ SuspReadyLibre
    /\ BuscarEn(c, "en_susp_ready", susp_ready, "dejar_cpu")

\* Mutant of BuscarEnReady: the owner leaves its queue even to inherit nothing.
SacarSinHeredar(c) ==
    LET d == manejador[c].otro
        sale == ALGORITMO = "CMN" /\ d \in EnReady IN
    /\ ~caida
    /\ manejador[c].paso = "en_ready"
    /\ manejador' = [manejador EXCEPT
           ![c].paso = IF d \in EnReady THEN "heredar" ELSE "en_block",
           ![c].sacado = sale]
    /\ cola' = IF sale THEN [k \in PRIORIDADES |-> RemoveFirst(cola[k], d)] ELSE cola
    /\ UNCHANGED <<cpu, prioridad, sem, planif, listas, lista_mutex,
                   mutex_lista, programa, caida>>

\* With CMN an owner that will inherit leaves its queue, to enter another one.
BuscarEnReady(c) ==
    LET d == manejador[c].otro
        sale == /\ ALGORITMO = "CMN"
                /\ d \in EnReady
                /\ prioridad[manejador[c].pid] < prioridad[d] IN
    /\ ~caida
    /\ manejador[c].paso = "en_ready"
    /\ manejador' = [manejador EXCEPT
           ![c].paso = IF d \in EnReady THEN "heredar" ELSE "en_block",
           ![c].sacado = sale]
    /\ cola' = IF sale THEN [k \in PRIORIDADES |-> RemoveFirst(cola[k], d)] ELSE cola
    /\ UNCHANGED <<cpu, prioridad, sem, planif, listas, lista_mutex,
                   mutex_lista, programa, caida>>

Heredar(c) ==
    LET p == manejador[c].pid
        d == manejador[c].otro
        hereda == prioridad[d] > prioridad[p] IN
    /\ ~caida
    /\ manejador[c].paso = "heredar"
    /\ prioridad' = IF hereda THEN [prioridad EXCEPT ![d] = prioridad[p]]
                    ELSE prioridad
    /\ manejador' = [manejador EXCEPT
           ![c].paso = IF hereda THEN "transitiva" ELSE "dejar_cpu",
           ![c].i = 1]
    /\ UNCHANGED <<cpu, cola, sem, planif, listas, lista_mutex, mutex_lista,
                   programa, caida>>

\* The owner of another mutex, where buscar_pcb_por_pid would find it.
Ubicado(p) ==
    p \in Ejecutando \cup EnReady \cup block \cup susp_block \cup susp_ready

\* One turn of the loop: the owner d that inherited waits for another mutex,
\* whose owner inherits from d and, if it was ready, changes queue.
Transitiva(c) ==
    LET d == manejador[c].otro
        m == lista_mutex[manejador[c].i]
        otro == m.pid
        hereda == /\ otro # d
                  /\ d \in Esperan(m)
                  /\ Ubicado(otro)
                  /\ prioridad[d] < prioridad[otro]
        subida == [prioridad EXCEPT ![otro] = prioridad[d]]
        sin == [k \in PRIORIDADES |-> RemoveFirst(cola[k], otro)] IN
    /\ ~caida
    /\ manejador[c].paso = "transitiva"
    /\ manejador[c].i <= Len(lista_mutex)
    /\ manejador' = [manejador EXCEPT ![c].i = @ + 1]
    /\ prioridad' = IF hereda THEN subida ELSE prioridad
    /\ cola' = IF hereda /\ ALGORITMO = "CMN" /\ otro \in EnReady
               THEN [sin EXCEPT ![prioridad[d]] = Append(@, otro)]
               ELSE cola
    /\ UNCHANGED <<cpu, sem, planif, listas, lista_mutex, mutex_lista,
                   programa, caida>>

\* After the loop the owner that left its queue enters the new one.
FinTransitiva(c) ==
    LET d == manejador[c].otro IN
    /\ ~caida
    /\ manejador[c].paso = "transitiva"
    /\ manejador[c].i > Len(lista_mutex)
    /\ manejador' = [manejador EXCEPT ![c].paso = "dejar_cpu",
                                      ![c].sacado = FALSE]
    /\ cola' = IF manejador[c].sacado THEN Encolada(d, prioridad) ELSE cola
    /\ UNCHANGED <<cpu, prioridad, sem, planif, listas, lista_mutex,
                   mutex_lista, programa, caida>>

-----------------------------------------------------------------------------
(* bloquear_proceso, for MUTEX_LOCK and SLEEP: leaves the CPU, then enters   *)
(* block_lista.                                                              *)

DejarCpu(c) ==
    /\ ~caida
    /\ manejador[c].paso = "dejar_cpu"
    /\ cpu' = [cpu EXCEPT ![c] = Nadie]
    /\ Sigue(c, "a_block")
    /\ UNCHANGED <<prioridad, cola, sem, planif, listas, lista_mutex,
                   mutex_lista, programa, caida>>

\* MUTEX_LOCK releases the list of mutexes; SLEEP queues for the device.
EntrarABlock(c) ==
    LET m == manejador[c] IN
    /\ ~caida
    /\ m.paso = "a_block"
    /\ block' = block \cup {m.pid}
    /\ cola_sleep' = IF m.syscall = "SLEEP" THEN Append(cola_sleep, m.pid)
                     ELSE cola_sleep
    /\ mutex_lista' = IF m.syscall = "MUTEX_LOCK" THEN Nadie ELSE mutex_lista
    /\ sem' = [sem EXCEPT !.cpu = @ + 1]
    /\ manejador' = [manejador EXCEPT ![c] = Libre]
    /\ UNCHANGED <<cpu, prioridad, cola, planif, susp_block, susp_ready,
                   lista_mutex, programa, caida>>

Sleep(c) ==
    /\ Llama(c, "SLEEP")
    /\ manejador' = [manejador EXCEPT ![c] =
           [Libre EXCEPT !.syscall = "SLEEP", !.paso = "dejar_cpu",
                         !.pid = cpu[c]]]
    /\ UNCHANGED <<cpu, prioridad, cola, sem, planif, listas, lista_mutex,
                   mutex_lista, programa, caida>>

-----------------------------------------------------------------------------
(* From BLOCK or SUSP BLOCK to READY: the new owner of a mutex, or the       *)
(* process whose SLEEP ended.                                                *)

Haciendo(h, paso) ==
    /\ ~caida
    /\ manejador[h].paso = paso

\* What a handler does when the process it woke is on its way.
Despues(syscall) ==
    CASE syscall = "MUTEX_UNLOCK" -> "recalcular"
      [] syscall = "EXIT" -> "muerte"
      [] OTHER -> "recibir"

Prosigue(h) ==
    LET m == manejador[h]
        paso == Despues(m.syscall)
    IN manejador' = [manejador EXCEPT ![h] =
           IF paso = "recibir" THEN Libre
           ELSE [m EXCEPT !.paso = paso, !.otro = Nadie]]

\* buscar_y_sacar_de_block
SacarDeBlock(h) ==
    LET p == manejador[h].otro IN
    /\ Haciendo(h, "sacar")
    /\ block' = block \ {p}
    /\ Sigue(h, IF p \in block THEN "encolar" ELSE "de_susp_block")
    /\ UNCHANGED <<cpu, prioridad, cola, sem, planif, susp_block, susp_ready,
                   cola_sleep, lista_mutex, mutex_lista, programa, caida>>

\* Mutant of Encolar: without sem_post.
EncolarSinToken(h) ==
    LET p == manejador[h].otro IN
    /\ Haciendo(h, "encolar")
    /\ cola' = Encolada(p, prioridad)
    /\ Prosigue(h)
    /\ UNCHANGED <<cpu, prioridad, sem, planif, listas, lista_mutex,
                   mutex_lista, programa, caida>>

\* encolar_pcb_ready and its token; an evicted process also leaves a CPU free.
Encolar(h) ==
    LET p == manejador[h].otro IN
    /\ Haciendo(h, "encolar")
    /\ cola' = Encolada(p, prioridad)
    /\ sem' = [ready |-> sem.ready + 1,
               cpu |-> IF manejador[h].syscall = "DESALOJO" THEN sem.cpu + 1
                       ELSE sem.cpu]
    /\ Prosigue(h)
    /\ UNCHANGED <<cpu, prioridad, planif, listas, lista_mutex, mutex_lista,
                   programa, caida>>

\* pasar_des_susp_block_a_ready: out of susp_block, into susp_ready.
SacarDeSuspBlock(h) ==
    LET p == manejador[h].otro IN
    /\ Haciendo(h, "de_susp_block")
    /\ p \in susp_block
    /\ susp_block' = susp_block \ {p}
    /\ Sigue(h, "a_susp_ready")
    /\ UNCHANGED <<cpu, prioridad, cola, sem, planif, block, susp_ready,
                   cola_sleep, lista_mutex, mutex_lista, programa, caida>>

\* Without segments it is resumed at once; otherwise Kernel Memory is asked.
PonerEnSuspReady(h) ==
    LET p == manejador[h].otro IN
    /\ Haciendo(h, "a_susp_ready")
    /\ SuspReadyLibre
    /\ susp_ready' = susp_ready \cup {p}
    /\ IF p \in SIN_MEMORIA THEN Sigue(h, "pedir_desuspender") ELSE Prosigue(h)
    /\ UNCHANGED <<cpu, prioridad, cola, sem, planif, block, susp_block,
                   cola_sleep, lista_mutex, mutex_lista, programa, caida>>

\* desuspender_proceso, with mutex_susp_ready taken until the end.
SacarDeSuspReady(h) ==
    LET p == manejador[h].otro IN
    /\ Haciendo(h, "pedir_desuspender")
    /\ SuspReadyLibre
    /\ susp_ready' = susp_ready \ {p}
    /\ Sigue(h, "desuspender")
    /\ UNCHANGED <<cpu, prioridad, cola, sem, planif, block, susp_block,
                   cola_sleep, lista_mutex, mutex_lista, programa, caida>>

Desuspender(h) ==
    LET p == manejador[h].otro IN
    /\ Haciendo(h, "desuspender")
    /\ cola' = Encolada(p, prioridad)
    /\ sem' = [sem EXCEPT !.ready = @ + 1]
    /\ Prosigue(h)
    /\ UNCHANGED <<cpu, prioridad, planif, listas, lista_mutex, mutex_lista,
                   programa, caida>>

\* NUEVA_MEMORIA_DISPONIBLE: the first of susp_ready that Kernel Memory says
\* fits, which may be any of those it names.
NuevaMemoria(p) ==
    /\ Haciendo(Escucha, "recibir")
    /\ SuspReadyLibre
    /\ p \in susp_ready \cap AVISADOS
    /\ susp_ready' = susp_ready \ {p}
    /\ manejador' = [manejador EXCEPT ![Escucha] =
           [Libre EXCEPT !.syscall = "AVISO", !.paso = "desuspender",
                         !.otro = p]]
    /\ UNCHANGED <<cpu, prioridad, cola, sem, planif, block, susp_block,
                   cola_sleep, lista_mutex, mutex_lista, programa, caida>>

\* FINALIZAR_SLEEP
FinSleep ==
    /\ Haciendo(Io, "recibir")
    /\ cola_sleep # <<>>
    /\ cola_sleep' = Tail(cola_sleep)
    /\ manejador' = [manejador EXCEPT ![Io] =
           [Libre EXCEPT !.syscall = "FINALIZAR_SLEEP", !.paso = "sacar",
                         !.otro = Head(cola_sleep)]]
    /\ UNCHANGED <<cpu, prioridad, cola, sem, planif, block, susp_block,
                   susp_ready, lista_mutex, mutex_lista, programa, caida>>

\* hilo_timer_bloqueado and suspender_proceso, under block_mutex all along.
Suspender(p) ==
    /\ ~caida
    /\ p \in block
    /\ block' = block \ {p}
    /\ susp_block' = susp_block \cup {p}
    /\ UNCHANGED <<cpu, prioridad, cola, sem, planif, susp_ready, cola_sleep,
                   lista_mutex, mutex_lista, manejador, programa, caida>>

-----------------------------------------------------------------------------
(* MUTEX_UNLOCK.                                                             *)

\* The counter says whether somebody waits: if so the mutex changes hands,
\* and if not it is free and keeps the pid of its last owner.
Unlock(c, nombre) ==
    LET i == Indice(nombre)
        m == lista_mutex[i]
        alguien == m.contador + 1 # 1
        seguir == [Libre EXCEPT !.syscall = "MUTEX_UNLOCK", !.pid = cpu[c]] IN
    /\ Llama(c, "MUTEX_UNLOCK")
    /\ nombre \in tiene[cpu[c]]
    /\ mutex_lista = Nadie
    /\ tiene' = [tiene EXCEPT ![cpu[c]] = @ \ {nombre}]
    /\ lista_mutex' = [lista_mutex EXCEPT ![i] =
           IF alguien THEN Entregado(m) ELSE [m EXCEPT !.contador = @ + 1]]
    /\ prioridad' = IF alguien THEN HeredaDeLaCola(m) ELSE prioridad
    /\ manejador' = [manejador EXCEPT ![c] =
           IF alguien
           THEN [seguir EXCEPT !.paso = "sacar", !.otro = Head(m.colaEspera)]
           ELSE [seguir EXCEPT !.paso = "recalcular"]]
    /\ UNCHANGED <<cpu, cola, sem, planif, listas, mutex_lista, vivos, pide,
                   caida>>

UnlockNoExiste(c, nombre) ==
    /\ Llama(c, "MUTEX_UNLOCK")
    /\ mutex_lista = Nadie
    /\ ~Creado(nombre)
    /\ NoExiste(c, "MUTEX_UNLOCK")

\* Who still waits for a mutex of p.
EsperanA(p) ==
    UNION {Esperan(lista_mutex[i]) :
              i \in {j \in DOMAIN lista_mutex : lista_mutex[j].pid = p}}

\* Mutant of Recalcular: from the present priority, not the original one.
RecalcularDesdeActual(c) ==
    LET p == manejador[c].pid IN
    /\ Haciendo(c, "recalcular")
    /\ mutex_lista = Nadie
    /\ manejador' = [manejador EXCEPT
           ![c].paso = "reponer",
           ![c].nueva = Mejor(EsperanA(p), prioridad[p])]
    /\ UNCHANGED <<cpu, prioridad, cola, sem, planif, listas, lista_mutex,
                   mutex_lista, programa, caida>>

\* The priority it goes back to, computed with the list of mutexes locked...
Recalcular(c) ==
    LET p == manejador[c].pid IN
    /\ Haciendo(c, "recalcular")
    /\ mutex_lista = Nadie
    /\ manejador' = [manejador EXCEPT
           ![c].paso = "reponer", ![c].nueva = Mejor(EsperanA(p), ORIGINAL[p])]
    /\ UNCHANGED <<cpu, prioridad, cola, sem, planif, listas, lista_mutex,
                   mutex_lista, programa, caida>>

\* ... and written after unlocking it; the process is resumed.
Reponer(c) ==
    /\ Haciendo(c, "reponer")
    /\ prioridad' = [prioridad EXCEPT ![manejador[c].pid] = manejador[c].nueva]
    /\ manejador' = [manejador EXCEPT ![c] = Libre]
    /\ UNCHANGED <<cpu, cola, sem, planif, listas, lista_mutex, mutex_lista,
                   programa, caida>>

-----------------------------------------------------------------------------
(* EXIT and liberar_de_mutex_por_muerte.                                     *)

Exit(c) ==
    LET p == cpu[c] IN
    /\ Llama(c, "EXIT")
    /\ cpu' = [cpu EXCEPT ![c] = Nadie]
    /\ vivos' = vivos \ {p}
    /\ tiene' = [tiene EXCEPT ![p] = {}]
    /\ manejador' = [manejador EXCEPT ![c] =
           [Libre EXCEPT !.syscall = "EXIT", !.paso = "morir", !.pid = p]]
    /\ UNCHANGED <<prioridad, cola, sem, planif, listas, lista_mutex,
                   mutex_lista, pide, caida>>

EmpezarMuerte(c) ==
    /\ Haciendo(c, "morir")
    /\ mutex_lista = Nadie
    /\ mutex_lista' = c
    /\ manejador' = [manejador EXCEPT ![c].paso = "muerte", ![c].i = 1]
    /\ UNCHANGED <<cpu, prioridad, cola, sem, planif, listas, lista_mutex,
                   programa, caida>>

\* Mutant of DelMuerto: only those somebody waits for.
DelMuertoConCola(p, i) ==
    {j \in DOMAIN lista_mutex :
        j >= i /\ lista_mutex[j].pid = p /\ lista_mutex[j].contador < 0}

\* The mutexes of the dead process from place i on.
DelMuerto(p, i) ==
    {j \in DOMAIN lista_mutex :
        j >= i /\ lista_mutex[j].pid = p /\ lista_mutex[j].contador < 1}

\* The next one is freed or given to the first of its queue.
LiberarPorMuerte(c) ==
    LET suyos == DelMuerto(manejador[c].pid, manejador[c].i)
        i == CHOOSE k \in suyos : \A j \in suyos : k <= j
        m == lista_mutex[i] IN
    /\ Haciendo(c, "muerte")
    /\ suyos # {}
    /\ \/ /\ m.colaEspera = <<>>
          /\ lista_mutex' = [lista_mutex EXCEPT ![i].contador = @ + 1,
                                                ![i].pid = Nadie]
          /\ manejador' = [manejador EXCEPT ![c].i = i + 1]
          /\ UNCHANGED prioridad
       \/ /\ m.colaEspera # <<>>
          /\ lista_mutex' = [lista_mutex EXCEPT ![i] = Entregado(m)]
          /\ manejador' = [manejador EXCEPT
                 ![c].paso = "sacar", ![c].i = i + 1,
                 ![c].otro = Head(m.colaEspera)]
          /\ prioridad' = HeredaDeLaCola(m)
    /\ UNCHANGED <<cpu, cola, sem, planif, listas, mutex_lista, programa,
                   caida>>

FinMuerte(c) ==
    /\ Haciendo(c, "muerte")
    /\ DelMuerto(manejador[c].pid, manejador[c].i) = {}
    /\ mutex_lista' = Nadie
    /\ sem' = [sem EXCEPT !.cpu = @ + 1]
    /\ manejador' = [manejador EXCEPT ![c] = Libre]
    /\ UNCHANGED <<cpu, prioridad, cola, planif, listas, lista_mutex, programa,
                   caida>>

-----------------------------------------------------------------------------
(* The planner, and the end of a quantum.                                    *)

SinProceso == [paso |-> "esperar", pcb |-> Nadie]

\* Both sem_wait: nobody else takes these tokens, so they are one step.
Esperar ==
    /\ ~caida
    /\ planif.paso = "esperar"
    /\ sem.ready > 0 /\ sem.cpu > 0
    /\ sem' = [ready |-> sem.ready - 1, cpu |-> sem.cpu - 1]
    /\ planif' = [planif EXCEPT !.paso = "desencolar"]
    /\ UNCHANGED <<cpu, prioridad, cola, listas, lista_mutex, mutex_lista,
                   manejador, programa, caida>>

Desencolar ==
    /\ ~caida
    /\ planif.paso = "desencolar"
    /\ EnReady # {}
    /\ planif' = [paso |-> "enviar", pcb |-> Head(cola[colaElegida])]
    /\ cola' = [cola EXCEPT ![colaElegida] = Tail(@)]
    /\ UNCHANGED <<cpu, prioridad, sem, listas, lista_mutex, mutex_lista,
                   manejador, programa, caida>>

\* The queues are not tested for being empty: NULL goes to enviar_proceso_a_cpu.
DesencolarNada ==
    /\ ~caida
    /\ planif.paso = "desencolar"
    /\ EnReady = {}
    /\ caida' = TRUE
    /\ UNCHANGED <<cpu, prioridad, cola, sem, planif, listas, lista_mutex,
                   mutex_lista, manejador, programa>>

\* A process that was waiting in MUTEX_LOCK comes back from it.
Enviar(c) ==
    LET p == planif.pcb IN
    /\ ~caida
    /\ planif.paso = "enviar"
    /\ cpu[c] = Nadie
    /\ cpu' = [cpu EXCEPT ![c] = p]
    /\ planif' = SinProceso
    /\ tiene' = [tiene EXCEPT ![p] = @ \cup ({pide[p]} \ {Nadie})]
    /\ pide' = [pide EXCEPT ![p] = Nadie]
    /\ UNCHANGED <<prioridad, cola, sem, listas, lista_mutex, mutex_lista,
                   manejador, vivos, caida>>

\* FINALIZAR_POR_QUANTUM answered with the process preempted.
FinDeQuantum(c) ==
    /\ ~caida
    /\ ALGORITMO # "FIFO"
    /\ cpu[c] # Nadie
    /\ manejador[c] = Libre
    /\ cpu' = [cpu EXCEPT ![c] = Nadie]
    /\ manejador' = [manejador EXCEPT ![c] =
           [Libre EXCEPT !.syscall = "DESALOJO", !.paso = "encolar",
                         !.otro = cpu[c]]]
    /\ UNCHANGED <<prioridad, cola, sem, planif, listas, lista_mutex,
                   mutex_lista, programa, caida>>

-----------------------------------------------------------------------------
\* The processes in their queues, in any order.
Repartos ==
    {f \in [PRIORIDADES -> UNION {SetToSeqs(S) : S \in SUBSET PIDS}] :
        \A k \in PRIORIDADES :
            f[k] \in SetToSeqs({p \in PIDS : ColaDe(p, ORIGINAL) = k})}

\* Every process has been created and waits in its queue.
Init ==
    /\ cpu = [c \in CPUS |-> Nadie]
    /\ prioridad = ORIGINAL
    /\ cola \in Repartos
    /\ sem = [ready |-> Cardinality(PIDS), cpu |-> Cardinality(CPUS)]
    /\ planif = SinProceso
    /\ block = {} /\ susp_block = {} /\ susp_ready = {} /\ cola_sleep = <<>>
    /\ \E orden \in SetToSeqs(CREADOS) :
          lista_mutex = [i \in DOMAIN orden |-> Mutex(orden[i])]
    /\ mutex_lista = Nadie
    /\ manejador = [h \in HILOS |-> Libre]
    /\ vivos = PIDS
    /\ pide = [p \in PIDS |-> Nadie]
    /\ tiene = [p \in PIDS |-> {}]
    /\ caida = FALSE

\* What the programs decide.
Programa(c) ==
    \/ Sleep(c) \/ Exit(c)
    \/ \E n \in MUTEX : \/ Crear(c, n) \/ Lock(c, n) \/ Unlock(c, n)
                        \/ LockNoExiste(c, n) \/ UnlockNoExiste(c, n)

\* What a handler goes on doing.
Atender(c) ==
    \/ BuscarEnExec(c) \/ BuscarEnReady(c) \/ BuscarEnBlock(c)
    \/ BuscarEnSuspBlock(c) \/ BuscarEnSuspReady(c)
    \/ Heredar(c) \/ Transitiva(c) \/ FinTransitiva(c)
    \/ DejarCpu(c) \/ EntrarABlock(c)
    \/ Recalcular(c) \/ Reponer(c)
    \/ EmpezarMuerte(c) \/ LiberarPorMuerte(c) \/ FinMuerte(c)

Despertar(h) ==
    \/ SacarDeBlock(h) \/ Encolar(h) \/ SacarDeSuspBlock(h)
    \/ PonerEnSuspReady(h) \/ SacarDeSuspReady(h) \/ Desuspender(h)

Planificador ==
    \/ Esperar \/ Desencolar \/ DesencolarNada
    \/ \E c \in CPUS : Enviar(c)

Next ==
    \/ Planificador
    \/ \E c \in CPUS : Programa(c) \/ Atender(c) \/ FinDeQuantum(c)
    \/ \E h \in HILOS : Despertar(h)
    \/ FinSleep
    \/ \E p \in PIDS : NuevaMemoria(p) \/ Suspender(p)

Spec == Init /\ [][Next]_vars

\* The programs unlock what they hold, however often they lose the CPU before.
Desbloquear(p) == \E c \in CPUS, n \in MUTEX : cpu[c] = p /\ Unlock(c, n)

\* Every thread and the device go on; programs do not keep a mutex for ever.
Equidad ==
    /\ WF_vars(Planificador)
    /\ WF_vars(FinSleep)
    /\ \A c \in CPUS : WF_vars(Atender(c)) /\ WF_vars(FinDeQuantum(c))
    /\ \A h \in HILOS : WF_vars(Despertar(h))
    /\ \A p \in PIDS : SF_vars(Desbloquear(p))

FairSpec == Spec /\ Equidad

-----------------------------------------------------------------------------
(* Properties.                                                               *)

PASOS == {"recibir", "sin_respuesta", "en_exec", "en_ready", "en_block",
          "en_susp_block", "en_susp_ready", "heredar", "transitiva",
          "dejar_cpu", "a_block", "sacar", "encolar", "de_susp_block",
          "a_susp_ready", "pedir_desuspender", "desuspender", "recalcular",
          "reponer", "morir", "muerte"}

LLAMADAS == {"ninguna", "MUTEX_CREATE", "MUTEX_LOCK", "MUTEX_UNLOCK", "SLEEP",
             "EXIT", "DESALOJO", "FINALIZAR_SLEEP", "AVISO"}

\* What a thread keeps of the call it serves.
Atenciones ==
    [syscall : LLAMADAS, paso : PASOS, pid : PIDS \cup {Nadie},
     otro : PIDS \cup {Nadie}, i : Nat, sacado : BOOLEAN, nueva : Nat]

Mutexes ==
    [nombre : MUTEX, pid : PIDS \cup {Nadie}, contador : Int,
     colaEspera : Seq(PIDS)]

\* Types of the variables (t_cpu, t_mutex_syscall and the lists).
TypeOK ==
    /\ cpu \in [CPUS -> PIDS \cup {Nadie}]
    /\ prioridad \in [PIDS -> PRIORIDADES]
    /\ cola \in [PRIORIDADES -> Seq(PIDS)]
    /\ sem \in [ready : Nat, cpu : Nat]
    /\ planif \in [paso : {"esperar", "desencolar", "enviar"},
                   pcb : PIDS \cup {Nadie}]
    /\ planif.paso = "enviar" <=> planif.pcb # Nadie
    /\ {block, susp_block, susp_ready, vivos} \subseteq SUBSET PIDS
    /\ cola_sleep \in Seq(PIDS)
    /\ lista_mutex \in Seq(Mutexes)
    /\ mutex_lista \in CPUS \cup {Nadie}
    /\ manejador \in [HILOS -> Atenciones]
    /\ pide \in [PIDS -> MUTEX \cup {Nadie}]
    /\ tiene \in [PIDS -> SUBSET MUTEX]
    /\ caida \in BOOLEAN

Tomado(m) == m.contador < 1

\* The interface of Turnos: who is in line for each mutex, the owner first.
Linea(nombre) ==
    IF ~Creado(nombre) THEN <<>>
    ELSE LET m == lista_mutex[Indice(nombre)]
         IN IF Tomado(m) THEN <<m.pid>> \o m.colaEspera ELSE <<>>

Abstracto == INSTANCE Turnos WITH turno <- [n \in MUTEX |-> Linea(n)]

\* A program that came back from MUTEX_LOCK is the recorded owner and is alone,
\* however the mutex reached it: free, handed over by MUTEX_UNLOCK, or left by
\* a process that ended (scheduler.c 438-606, liberar_de_mutex_por_muerte).
Exclusion ==
    \A p \in PIDS : \A n \in tiene[p] :
        /\ p \in vivos
        /\ Linea(n) # <<>> /\ Head(Linea(n)) = p
        /\ \A q \in PIDS \ {p} : n \notin tiene[q]

EnLlamada(p, syscall) ==
    \E c \in CPUS : manejador[c].syscall = syscall /\ manejador[c].pid = p

\* The counter, the queue and the programs tell the same story: contador counts
\* who waits, each of them waits once, in that queue only, blocked or about to
\* be; whoever called MUTEX_LOCK waits there or was already given the mutex.
EsperaConsistente ==
    /\ \A i \in DOMAIN lista_mutex :
          LET m == lista_mutex[i] IN
          /\ m.contador = IF Tomado(m) THEN 0 - Len(m.colaEspera) ELSE 1
          /\ ~Tomado(m) => m.colaEspera = <<>>
          /\ IsInjective(m.colaEspera)
          /\ \A p \in Esperan(m) :
                /\ pide[p] = m.nombre /\ p # m.pid
                /\ p \in block \cup susp_block \/ EnLlamada(p, "MUTEX_LOCK")
    /\ \A p \in PIDS : pide[p] # Nadie =>
          LET m == lista_mutex[Indice(pide[p])]
          IN p \in Esperan(m) \/ (Tomado(m) /\ m.pid = p)

\* No mutex stays with a process that ended: until it passes on, its EXIT is
\* still being served (scheduler.c:211).
SinHuerfanos ==
    \A i \in DOMAIN lista_mutex :
        LET m == lista_mutex[i]
        IN Tomado(m) => m.pid \in vivos \/ EnLlamada(m.pid, "EXIT")

\* An inherited priority is given back: a program that runs and owns no mutex
\* has the priority it was created with (scheduler.c 619-641).
DevuelvePrioridad ==
    \A c \in CPUS :
        /\ cpu[c] # Nadie /\ manejador[c] = Libre
        /\ \A i \in DOMAIN lista_mutex :
              Tomado(lista_mutex[i]) => lista_mutex[i].pid # cpu[c]
        => prioridad[cpu[c]] = ORIGINAL[cpu[c]]

\* The threads that have the t_pcb of p in hand, out of every list.
EnMano(h, p) ==
    LET m == manejador[h] IN
    \/ m.otro = p /\ m.paso \in {"encolar", "a_susp_ready", "desuspender"}
    \/ m.otro = p /\ m.sacado
    \/ m.pid = p /\ m.paso = "a_block"

Lugares(p) ==
    {<<"cpu", c>> : c \in {d \in CPUS : cpu[d] = p}}
        \cup {<<"mano", h>> : h \in {g \in HILOS : EnMano(g, p)}}
        \cup {<<"planif", p>> : x \in {planif.pcb} \cap {p}}
        \cup (UNION {{<<"cola", k, i>> : i \in {j \in DOMAIN cola[k] :
                                                cola[k][j] = p}} :
                        k \in PRIORIDADES})
        \cup {<<"block", p>> : x \in block \cap {p}}
        \cup {<<"susp_block", p>> : x \in susp_block \cap {p}}
        \cup {<<"susp_ready", p>> : x \in susp_ready \cap {p}}

\* Whatever crosses (an owner pulled out of its queue to inherit, a hand-over,
\* the timer of a blocked process, the end of a SLEEP, a notice of memory), a
\* live process is in one place; and the handler that looks for the process it
\* woke finds it, or it would return with mutex_susp_block locked
\* (utils_scheduler.c:812).
UnLugar ==
    /\ \A p \in PIDS : Cardinality(Lugares(p)) = IF p \in vivos THEN 1 ELSE 0
    /\ \A h \in HILOS : manejador[h].paso = "de_susp_block" =>
          manejador[h].otro \in susp_block

\* The mutexes are the lines of Turnos: owners are served in the order in
\* which they asked, and nobody enters out of turn.
ImplementaTurnos == Abstracto!Spec

\* Whoever calls MUTEX_LOCK comes back with the mutex.
ObtieneMutex ==
    \A p \in PIDS, n \in MUTEX : pide[p] = n ~> n \in tiene[p]

\* "recalculo por si tiene otro mutex tomado que lo haga heredar": while the
\* list of mutexes is at rest, an owner that runs is at least as urgent as
\* those who wait for it.
HerenciaRespetada ==
    mutex_lista = Nadie =>
        \A c \in CPUS, i \in DOMAIN lista_mutex :
            LET m == lista_mutex[i] IN
            /\ cpu[c] # Nadie /\ manejador[c] = Libre
            /\ Tomado(m) /\ m.pid = cpu[c]
            => \A p \in Esperan(m) : prioridad[cpu[c]] <= prioridad[p]
=============================================================================
