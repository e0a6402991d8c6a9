---------------------------- MODULE AvisosSticks ----------------------------
(***************************************************************************)
(* How the CPUs learn which memory sticks there are (memory.c,             *)
(* memory_sticks.c; cpu.c, kernel_memory_avisos.c).  A CPU connects twice  *)
(* to kernel_memory: the first connection is recorded by the main thread,  *)
(* the second, for notices, is accepted by hilo_notificaciones_cpu, which  *)
(* looks for the record by the id of the CPU and sends the sticks there    *)
(* are.  A stick that connects later is announced by the main thread to    *)
(* every recorded CPU.  Both send the whole list, and the two threads      *)
(* share no lock while they send.                                          *)
(*                                                                         *)
(* A process started again with the id of one that died is another element *)
(* of CPUS with the same idCpu.  A socket is named by the CPU at the other *)
(* end; nothing is lost or reordered within one.                           *)
(*                                                                         *)
(* Left out: the monitor of disconnected sticks, which aborts the process, *)
(* and the notice to the scheduler at the end of agregar_memory_stick,     *)
(* which is of the kind Suspension follows.                                *)
(***************************************************************************)
EXTENDS Naturals, Sequences, SequencesExt

CONSTANTS
    CPUS,        \* processes cpu, each started once
    idCpu,       \* CPU -> the identifier it was started with
    STICKS,      \* memory sticks, each connects once
    NULL

ASSUME AvisosAssumption == NULL \notin CPUS

VARIABLES
    lista_memory_sticks,
    lista_sockets_cpu_notif,  \* the t_cpu_conexiones
    principal,                \* the main thread of kernel_memory
    hilo_notif,               \* hilo_notificaciones_cpu
    por_aceptar,              \* connections to PUERTO_MEMORY_NOTIF not yet accepted
    canal,                    \* CPU -> the lists on their way to it
    cerrado,                  \* CPUs whose notices socket kernel_memory closed
    cpu,                      \* CPU -> how far it went
    lista_memory_stick        \* CPU -> the sticks it is connected to

memoria == <<lista_memory_sticks, lista_sockets_cpu_notif>>
vars == <<memoria, principal, hilo_notif, por_aceptar, canal, cerrado, cpu, lista_memory_stick>>

Conexiones == [main : CPUS, notif : CPUS \cup {NULL}]
Listas == SeqOf(STICKS, Cardinality(STICKS))
En(paso) == [paso |-> paso]

TypeOK ==
    /\ lista_memory_sticks \in Listas
    /\ \A i \in DOMAIN lista_sockets_cpu_notif : lista_sockets_cpu_notif[i] \in Conexiones
    /\ principal \in [paso : {"aceptar"}] \cup [paso : {"anotar"}, cpu : CPUS]
                     \cup [paso : {"avisar"}, lista : Listas]
    /\ hilo_notif \in [paso : {"aceptar"}] \cup [paso : {"registrar", "leer"}, cpu : CPUS]
                      \cup [paso : {"mandar"}, cpu : CPUS, lista : Listas]
    /\ \A i \in DOMAIN por_aceptar : por_aceptar[i] \in CPUS
    /\ \A c \in CPUS : \A i \in DOMAIN canal[c] : canal[c][i] \in Listas
    /\ cerrado \in SUBSET CPUS
    /\ cpu \in [CPUS -> {"apagada", "conectada", "avisada", "caida"}]
    /\ lista_memory_stick \in [CPUS -> Listas]

Init ==
    /\ lista_memory_sticks = <<>>
    /\ lista_sockets_cpu_notif = <<>>
    /\ principal = En("aceptar")
    /\ hilo_notif = En("aceptar")
    /\ por_aceptar = <<>>
    /\ canal = [c \in CPUS |-> <<>>]
    /\ cerrado = {}
    /\ cpu = [c \in CPUS |-> "apagada"]
    /\ lista_memory_stick = [c \in CPUS |-> <<>>]

\* A message to a CPU that is gone, or through a closed socket, is lost (SIGPIPE is ignored).
Llega(c) == c # NULL /\ cpu[c] # "caida" /\ c \notin cerrado

Enviada(lista, destinos) ==
    [c \in CPUS |-> IF c \in destinos /\ Llega(c) THEN Append(canal[c], lista) ELSE canal[c]]

-----------------------------------------------------------------------------
(* The main thread of kernel_memory.                                       *)

\* case CPU: segment_max_size is sent before the entry is made.  The same id is used again
\* only once its process has ended.
AceptarCpu(c) ==
    /\ principal.paso = "aceptar"
    /\ cpu[c] = "apagada"
    /\ \A d \in CPUS \ {c} : idCpu[d] = idCpu[c] => cpu[d] \in {"apagada", "caida"}
    /\ cpu' = [cpu EXCEPT ![c] = "conectada"]
    /\ principal' = [paso |-> "anotar", cpu |-> c]
    /\ UNCHANGED <<memoria, hilo_notif, por_aceptar, canal, cerrado, lista_memory_stick>>

AnotarCpu ==
    /\ principal.paso = "anotar"
    /\ lista_sockets_cpu_notif' =
           Append(lista_sockets_cpu_notif, [main |-> principal.cpu, notif |-> NULL])
    /\ principal' = En("aceptar")
    /\ UNCHANGED <<lista_memory_sticks, hilo_notif, por_aceptar, canal, cerrado, cpu,
                   lista_memory_stick>>

\* The section of memoria_mutex: the stick enters the list, which is serialised there.
agregar_memory_stick(s) ==
    /\ principal.paso = "aceptar"
    /\ ~Contains(lista_memory_sticks, s)
    /\ lista_memory_sticks' = Append(lista_memory_sticks, s)
    /\ principal' = [paso |-> "avisar", lista |-> Append(lista_memory_sticks, s)]
    /\ UNCHANGED <<lista_sockets_cpu_notif, hilo_notif, por_aceptar, canal, cerrado, cpu,
                   lista_memory_stick>>

\* Mutant of Destinos: the loop ends one entry early.
SinLaUltima ==
    {lista_sockets_cpu_notif[i].notif : i \in 1 .. Len(lista_sockets_cpu_notif) - 1}

\* The sockets the loop over the list sends to.
Destinos == {e.notif : e \in Range(lista_sockets_cpu_notif)}

\* The section of mutex_sockets_cpu_notif.
AvisarATodas ==
    /\ principal.paso = "avisar"
    /\ canal' = Enviada(principal.lista, Destinos)
    /\ principal' = En("aceptar")
    /\ UNCHANGED <<memoria, hilo_notif, por_aceptar, cerrado, cpu, lista_memory_stick>>

-----------------------------------------------------------------------------
(* hilo_notificaciones_cpu.                                                *)

AceptarAvisos ==
    /\ hilo_notif.paso = "aceptar"
    /\ por_aceptar # <<>>
    /\ hilo_notif' = [paso |-> "registrar", cpu |-> Head(por_aceptar)]
    /\ por_aceptar' = Tail(por_aceptar)
    /\ UNCHANGED <<memoria, principal, canal, cerrado, cpu, lista_memory_stick>>

\* The first entry with the id of the CPU takes the socket; there may be none.
Registrada(c) ==
    LET i == SelectInSeq(lista_sockets_cpu_notif, LAMBDA e : idCpu[e.main] = idCpu[c])
    IN  IF i = 0 THEN lista_sockets_cpu_notif
        ELSE [lista_sockets_cpu_notif EXCEPT ![i].notif = c]

RegistrarAvisos ==
    /\ hilo_notif.paso = "registrar"
    /\ lista_sockets_cpu_notif' = Registrada(hilo_notif.cpu)
    /\ hilo_notif' = [hilo_notif EXCEPT !.paso = "leer"]
    /\ UNCHANGED <<lista_memory_sticks, principal, por_aceptar, canal, cerrado, cpu,
                   lista_memory_stick>>

\* The section of memoria_mutex.
LeerLista ==
    /\ hilo_notif.paso = "leer"
    /\ hilo_notif' = [paso |-> "mandar", cpu |-> hilo_notif.cpu, lista |-> lista_memory_sticks]
    /\ UNCHANGED <<memoria, principal, por_aceptar, canal, cerrado, cpu, lista_memory_stick>>

\* Without a lock.
MandarLista ==
    /\ hilo_notif.paso = "mandar"
    /\ canal' = Enviada(hilo_notif.lista, {hilo_notif.cpu})
    /\ hilo_notif' = En("aceptar")
    /\ UNCHANGED <<memoria, principal, por_aceptar, cerrado, cpu, lista_memory_stick>>

-----------------------------------------------------------------------------
(* The end of atender_cpu: the entry of the connection that broke goes, and *)
(* the notices socket it names is closed.                                  *)

OlvidarCpu(c) ==
    /\ cpu[c] = "caida"
    /\ \E i \in DOMAIN lista_sockets_cpu_notif :
        /\ lista_sockets_cpu_notif[i].main = c
        /\ cerrado' = cerrado \cup ({lista_sockets_cpu_notif[i].notif} \ {NULL})
        /\ lista_sockets_cpu_notif' = RemoveAt(lista_sockets_cpu_notif, i)
    /\ UNCHANGED <<lista_memory_sticks, principal, hilo_notif, por_aceptar, canal, cpu,
                   lista_memory_stick>>

-----------------------------------------------------------------------------
(* A CPU.                                                                  *)

ConectarAvisos(c) ==
    /\ cpu[c] = "conectada"
    /\ cpu' = [cpu EXCEPT ![c] = "avisada"]
    /\ por_aceptar' = Append(por_aceptar, c)
    /\ UNCHANGED <<memoria, principal, hilo_notif, canal, cerrado, lista_memory_stick>>

Caer(c) ==
    /\ cpu' = [cpu EXCEPT ![c] = "caida"]
    /\ canal' = [canal EXCEPT ![c] = <<>>]

\* Mutant of NuevasSticks: the loop connects again to the sticks already known.
TodasLasSticks(c, lista) == lista

\* The sticks conectarme_nuevas_sticks connects to.
NuevasSticks(c, lista) == SubSeq(lista, Len(lista_memory_stick[c]) + 1, Len(lista))

\* conectarme_nuevas_sticks: a list that is not shorter is followed, a shorter one is an error,
\* and the process aborts.
RecibirAviso(c) ==
    /\ cpu[c] = "avisada"
    /\ canal[c] # <<>>
    /\ LET lista == Head(canal[c])
       IN  IF Len(lista) < Len(lista_memory_stick[c])
           THEN Caer(c) /\ UNCHANGED lista_memory_stick
           ELSE /\ lista_memory_stick' = IF Len(lista) = Len(lista_memory_stick[c])
                                         THEN lista_memory_stick
                                         ELSE [lista_memory_stick EXCEPT ![c] = @ \o NuevasSticks(c, lista)]
                /\ canal' = [canal EXCEPT ![c] = Tail(@)]
                /\ UNCHANGED cpu
    /\ UNCHANGED <<memoria, principal, hilo_notif, por_aceptar, cerrado>>

\* recibir_paquete returns NULL: "Se desconecto Kernel Memory Avisos", and abort.
RecibirCierre(c) ==
    /\ cpu[c] = "avisada"
    /\ c \in cerrado
    /\ canal[c] = <<>>
    /\ Caer(c)
    /\ UNCHANGED <<memoria, principal, hilo_notif, por_aceptar, cerrado, lista_memory_stick>>

\* The process is killed.
Morir(c) ==
    /\ cpu[c] \in {"conectada", "avisada"}
    /\ Caer(c)
    /\ UNCHANGED <<memoria, principal, hilo_notif, por_aceptar, cerrado, lista_memory_stick>>

-----------------------------------------------------------------------------
HiloPrincipal == AnotarCpu \/ AvisarATodas
HiloNotif == AceptarAvisos \/ RegistrarAvisos \/ LeerLista \/ MandarLista
Cpu(c) == ConectarAvisos(c) \/ RecibirAviso(c) \/ RecibirCierre(c)

Next ==
    \/ HiloPrincipal \/ HiloNotif
    \/ \E s \in STICKS : agregar_memory_stick(s)
    \/ \E c \in CPUS : AceptarCpu(c) \/ Cpu(c) \/ OlvidarCpu(c) \/ Morir(c)

Spec == Init /\ [][Next]_vars

\* Threads run, and a CPU reads its socket; nobody has to connect or to die.
SpecJusta ==
    /\ Spec
    /\ WF_vars(HiloPrincipal)
    /\ WF_vars(HiloNotif)
    /\ \A c \in CPUS : WF_vars(Cpu(c)) /\ WF_vars(OlvidarCpu(c))

-----------------------------------------------------------------------------
(* Properties.                                                             *)

\* A CPU is connected to the first sticks of kernel_memory, in its order and each once: an
\* address is the same byte for both, whatever lists crossed on the way and however old they are
\* (conectarme_nuevas_sticks goes on from the number of sticks it knows).
ListaPrefijo == \A c \in CPUS : IsPrefix(lista_memory_stick[c], lista_memory_sticks)

Anotada(c) == \E e \in Range(lista_sockets_cpu_notif) : e.notif = c

\* "Mando la lista actual de sticks para que la CPU no se pierda los que ya estaban conectados"
\* (memory.c): a CPU that was found in the list and lives ends up with every stick, because its
\* socket is registered before the list is read.
ConoceSticks ==
    \A c \in CPUS :
        <>[](Anotada(c) /\ cpu[c] = "avisada" => lista_memory_stick[c] = lista_memory_sticks)

\* The same for every CPU that lives.  False: its notices connection may be accepted before the
\* main thread records it, and then it gets only the first list (memory.c:120).
TodaCpuConoce ==
    \A c \in CPUS : <>[](cpu[c] = "avisada" => lista_memory_stick[c] = lista_memory_sticks)

\* kernel_memory never makes a CPU abort with a list shorter than the one it has.  False: the
\* list a connecting CPU is sent may be read before a stick is added and sent after the notice.
ListasEnOrden ==
    \A c \in CPUS : \A i \in DOMAIN canal[c] :
        Len(canal[c][i]) >= Len(IF i = 1 THEN lista_memory_stick[c] ELSE canal[c][i - 1])

\* A CPU is told to close only what belongs to a dead one.  False: a CPU started again with the
\* id of one that died may be registered in the old entry, and the clean-up closes it.
CierraSoloCaidas == \A c \in cerrado : cpu[c] = "caida"
=============================================================================
