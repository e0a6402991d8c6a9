------------------------------ MODULE Despacho ------------------------------
(* Kernel Scheduler: the planner (FIFO and RR), one thread atender_cliente   *)
(* per CPU, the quantum timers and the CPUs at the other end of the sockets. *)
(*                                                                           *)
(* A step is one critical section of the code.  A sem_post that follows a    *)
(* section with no other shared access is part of that section's step; what  *)
(* a thread has in hand between two sections is in manejador and planif.     *)
(* Left to other modules: suspension, user mutexes, STDIN and STDOUT, CMN,   *)
(* disconnections.                                                           *)
EXTENDS Naturals, Sequences, FiniteSets

CONSTANTS
    PIDS,               \* process ids
    CPUS,               \* the CPUs that may connect
    Nadie,              \* NULL: no process, no CPU
    ALGORITMO,          \* "FIFO" or "RR"
    SYSCALLS,           \* the syscalls the programs make
    RESPUESTAS,         \* what Kernel Memory may answer to a request
    MAX_COMPACTACIONES, \* bound of the checks: compactions in a run
    MAX_EN_VUELO        \* bound of the checks: messages in the sockets of a CPU
                        \* when one of its timers expires

ASSUME SupuestosDespacho ==
    /\ Nadie \notin PIDS \cup CPUS
    /\ IsFiniteSet(CPUS)
    /\ ALGORITMO \in {"FIFO", "RR"}
    /\ SYSCALLS \subseteq
          {"SLEEP", "EXIT", "SEG_FAULT", "MEM_FREE", "MEM_ALLOC", "INIT_PROC"}
    /\ RESPUESTAS \subseteq
          {"MEMORIA_DISPONIBLE", "MEMORIA_NO_DISPONIBLE", "COMPACTACION"}
    /\ MAX_COMPACTACIONES \in Nat
    /\ MAX_EN_VUELO \in Nat

VARIABLES
    exec_lista,     \* the connected CPUs, in order of connection
    cpu,            \* t_cpu of each CPU: pcb, control_enviado, esperando_ack
    a_cpu,          \* socket: scheduler -> CPU
    a_plan,         \* socket: CPU -> scheduler
    corre,          \* the process each CPU is executing; Nadie: obtener_pid
    manejador,      \* the thread atender_cliente of each CPU
    planif,         \* the thread planificador
    temporizador,   \* the pid of the last quantum timer started on each CPU
    ready,          \* ready_cola
    block,          \* block_lista
    cola_sleep,     \* the processes at the SLEEP device or waiting for it
    sem,            \* sem_hay_proceso_ready, _cpu_libre, _desalojo_compactacion
    compactando,    \* the global flag
    mutex_socket,   \* owner of mutex_socket_memory across a compaction
    vida,           \* "nuevo", "vivo" or "fin": does the t_pcb exist
    caida,          \* "no"; "nulo": NULL dereferenced; "bsod": abort()
    compactaciones  \* compactions so far

colas == <<ready, block, cola_sleep>>
memoria == <<compactando, mutex_socket, compactaciones>>
vars == <<exec_lista, cpu, a_cpu, a_plan, corre, manejador, planif,
          temporizador, colas, sem, memoria, vida, caida>>

INTERRUPCIONES == {"FINALIZAR_POR_QUANTUM", "COMPACTACION"}
ORDENES == {"EJECUTAR_PROCESO", "PROCESO_BLOQUEADO", "FIN_PROCESO"}

Msj(t, p) == [tipo |-> t, pid |-> p]

\* A thread that waits in recibir_paquete.
Ocioso == [paso |-> "recibir", pid |-> Nadie, cpu |-> Nadie, pcb |-> Nadie,
           faltan |-> 0, totales |-> <<>>]

CpuNueva == [pcb |-> Nadie, control |-> FALSE, ack |-> FALSE]

-----------------------------------------------------------------------------
(* Helpers, all of them run under exec_mutex.                                *)

Conectadas == {exec_lista[i] : i \in DOMAIN exec_lista}

\* The first CPU of exec_lista whose pcb is x.
PrimeraCon(x) ==
    LET donde == {i \in DOMAIN exec_lista : cpu[exec_lista[i]].pcb = x}
    IN IF donde = {} THEN Nadie
       ELSE exec_lista[CHOOSE i \in donde : \A j \in donde : i <= j]

\* Mutant of obtener_cpu_libre: the first CPU, free or not.
PrimeraCpu == IF exec_lista = <<>> THEN Nadie ELSE Head(exec_lista)

encontrar_cpu_con_pid(p) == PrimeraCon(p)
obtener_cpu_libre == PrimeraCon(Nadie)

\* The socket of CPU d after trying to send it one control message: only the
\* first control message of a dispatch is sent.
ConControl(d, t, p) ==
    IF cpu[d].control THEN a_cpu ELSE [a_cpu EXCEPT ![d] = Append(@, Msj(t, p))]

Caer(motivo) ==
    /\ caida' = motivo
    /\ UNCHANGED <<exec_lista, cpu, a_cpu, a_plan, corre, manejador, planif,
                   temporizador, colas, sem, memoria, vida>>

\* A CPU connects; it gives its token only when no compaction is going on.
ConectarCpu(c) ==
    /\ c \notin Conectadas
    /\ exec_lista' = Append(exec_lista, c)
    /\ cpu' = [cpu EXCEPT ![c] = CpuNueva]
    /\ sem' = IF compactando THEN sem ELSE [sem EXCEPT !.cpu = @ + 1]
    /\ UNCHANGED <<a_cpu, a_plan, corre, manejador, planif, temporizador,
                   colas, memoria, vida, caida>>

-----------------------------------------------------------------------------
(* The CPU: waits for a pid, executes, looks at its socket between cycles.   *)

EnCpu == UNCHANGED <<exec_lista, cpu, manejador, planif, temporizador, colas,
                     sem, memoria, vida, caida>>

\* Mutant of CpuOciosa: no break after the case PROCESO_BLOQUEADO.
CpuSinBreak(c) ==
    /\ corre[c] = Nadie
    /\ a_cpu[c] # <<>>
    /\ LET m == Head(a_cpu[c]) IN
       /\ corre' = IF m.tipo \in {"EJECUTAR_PROCESO", "PROCESO_BLOQUEADO"}
                   THEN [corre EXCEPT ![c] = m.pid] ELSE corre
       /\ a_plan' = IF m.tipo \in INTERRUPCIONES
                    THEN [a_plan EXCEPT ![c] = Append(@, m)] ELSE a_plan
    /\ a_cpu' = [a_cpu EXCEPT ![c] = Tail(@)]
    /\ EnCpu

\* obtener_pid: starts a process, answers an interruption that came late.
CpuOciosa(c) ==
    /\ corre[c] = Nadie
    /\ a_cpu[c] # <<>>
    /\ LET m == Head(a_cpu[c]) IN
       /\ corre' = IF m.tipo = "EJECUTAR_PROCESO"
                   THEN [corre EXCEPT ![c] = m.pid] ELSE corre
       /\ a_plan' = IF m.tipo \in INTERRUPCIONES
                    THEN [a_plan EXCEPT ![c] = Append(@, m)] ELSE a_plan
    /\ a_cpu' = [a_cpu EXCEPT ![c] = Tail(@)]
    /\ EnCpu

\* hay_interrupcion: only an interruption for the running process stops it.
hay_interrupcion(c) ==
    /\ corre[c] # Nadie
    /\ a_cpu[c] # <<>>
    /\ LET m == Head(a_cpu[c])
           para == m.tipo \in INTERRUPCIONES /\ m.pid = corre[c] IN
       /\ corre' = IF para THEN [corre EXCEPT ![c] = Nadie] ELSE corre
       /\ a_plan' = IF para THEN [a_plan EXCEPT ![c] = Append(@, m)] ELSE a_plan
    /\ a_cpu' = [a_cpu EXCEPT ![c] = Tail(@)]
    /\ EnCpu

\* The process makes a syscall: the CPU sends it and goes back to obtener_pid.
Syscall(c, s) ==
    /\ corre[c] # Nadie
    /\ a_plan' = [a_plan EXCEPT ![c] = Append(@, Msj(s, corre[c]))]
    /\ corre' = [corre EXCEPT ![c] = Nadie]
    /\ UNCHANGED a_cpu
    /\ EnCpu

-----------------------------------------------------------------------------
(* atender_cliente: the thread of CPU c takes the next message.              *)

\* The next message of c is one of the set and the thread goes on with r.
Recibir(c, tipos, r) ==
    /\ manejador[c] = Ocioso
    /\ a_plan[c] # <<>>
    /\ Head(a_plan[c]).tipo \in tipos
    /\ a_plan' = [a_plan EXCEPT ![c] = Tail(@)]
    /\ manejador' = [manejador EXCEPT ![c] = r]

Paso(c, paso) == manejador[c].paso = paso
Seguir(c, r) == manejador' = [manejador EXCEPT ![c] = r]

\* A process leaves its CPU, found by pid: for the end of its quantum, the
\* end of the process or a compaction.  Nothing happens if no CPU has it.
SacarDeCpu(c, tipos, limpia, paso) ==
    LET p == Head(a_plan[c]).pid
        d == encontrar_cpu_con_pid(p) IN
    /\ Recibir(c, tipos,
               IF d = Nadie THEN Ocioso
               ELSE [Ocioso EXCEPT !.paso = paso, !.pid = p, !.cpu = d, !.pcb = p])
    /\ cpu' = IF d = Nadie THEN cpu
              ELSE [cpu EXCEPT ![d] =
                       [pcb |-> Nadie,
                        control |-> IF "control" \in limpia THEN FALSE ELSE @.control,
                        ack |-> IF "ack" \in limpia THEN FALSE ELSE @.ack]]
    /\ UNCHANGED <<exec_lista, a_cpu, corre, planif, temporizador, colas, sem,
                   memoria, vida, caida>>

FINALIZAR_POR_QUANTUM(c) ==
    /\ a_plan[c] # <<>>
    /\ SacarDeCpu(c, {"FINALIZAR_POR_QUANTUM"}, {"control"}, "encolar")
EXIT(c) ==
    /\ a_plan[c] # <<>>
    /\ SacarDeCpu(c, {"EXIT", "SEG_FAULT"}, {}, "fin_memoria")
COMPACTACION(c) ==
    /\ a_plan[c] # <<>>
    /\ SacarDeCpu(c, {"COMPACTACION"}, {"control", "ack"}, "enlistar_primero")

\* SLEEP and MEM_ALLOC only look for the CPU of the process.
BuscarCpu(c, tipo, paso) ==
    /\ a_plan[c] # <<>>
    /\ LET p == Head(a_plan[c]).pid
           d == encontrar_cpu_con_pid(p) IN
       Recibir(c, {tipo}, IF d = Nadie THEN Ocioso
                          ELSE [Ocioso EXCEPT !.paso = paso, !.pid = p, !.cpu = d])
    /\ UNCHANGED <<exec_lista, cpu, a_cpu, corre, planif, temporizador, colas,
                   sem, memoria, vida, caida>>

SLEEP(c) == BuscarCpu(c, "SLEEP", "leer_pcb")
MEM_ALLOC(c) == BuscarCpu(c, "MEM_ALLOC", "pedir")

\* Kernel Memory is told first, under mutex_socket_memory.
MEM_FREE(c) ==
    /\ mutex_socket = Nadie
    /\ a_plan[c] # <<>>
    /\ Recibir(c, {"MEM_FREE"},
               [Ocioso EXCEPT !.paso = "buscar", !.pid = Head(a_plan[c]).pid])
    /\ UNCHANGED <<exec_lista, cpu, a_cpu, corre, planif, temporizador, colas,
                   sem, memoria, vida, caida>>

\* crear_proceso: a child with a new pid.  Kernel Memory may refuse it; then
\* its pid is not used again and nothing is left of it.
INIT_PROC(c, hijos) ==
    /\ mutex_socket = Nadie
    /\ a_plan[c] # <<>>
    /\ Recibir(c, {"INIT_PROC"},
               [Ocioso EXCEPT !.paso = "buscar", !.pid = Head(a_plan[c]).pid])
    /\ \/ \E hijo \in hijos :
            /\ vida[hijo] = "nuevo"
            /\ vida' = [vida EXCEPT ![hijo] = "vivo"]
            /\ ready' = Append(ready, hijo)
            /\ sem' = [sem EXCEPT !.ready = @ + 1]
       \/ UNCHANGED <<vida, ready, sem>>
    /\ UNCHANGED <<exec_lista, cpu, a_cpu, corre, planif, temporizador, block,
                   cola_sleep, memoria, caida>>

-----------------------------------------------------------------------------
(* atender_cliente: the following critical sections of each handler.         *)

\* Mutants of EncolarReady: one of the two posts is missing.
EncolarSinReady(c) ==
    /\ Paso(c, "encolar")
    /\ ready' = Append(ready, manejador[c].pcb)
    /\ sem' = [sem EXCEPT !.cpu = @ + 1]
    /\ Seguir(c, Ocioso)
    /\ UNCHANGED <<exec_lista, cpu, a_cpu, a_plan, corre, planif, temporizador,
                   block, cola_sleep, memoria, vida, caida>>
EncolarSinCpu(c) ==
    /\ Paso(c, "encolar")
    /\ ready' = Append(ready, manejador[c].pcb)
    /\ sem' = [sem EXCEPT !.ready = @ + 1]
    /\ Seguir(c, Ocioso)
    /\ UNCHANGED <<exec_lista, cpu, a_cpu, a_plan, corre, planif, temporizador,
                   block, cola_sleep, memoria, vida, caida>>

EncolarReady(c) ==
    /\ Paso(c, "encolar")
    /\ ready' = Append(ready, manejador[c].pcb)
    /\ sem' = [sem EXCEPT !.ready = @ + 1, !.cpu = @ + 1]
    /\ Seguir(c, Ocioso)
    /\ UNCHANGED <<exec_lista, cpu, a_cpu, a_plan, corre, planif, temporizador,
                   block, cola_sleep, memoria, vida, caida>>

\* Mutant of enlistar_primero_ready: sem_hay_proceso_ready is not posted.
EnlistarSinReady(c) ==
    /\ Paso(c, "enlistar_primero")
    /\ ready' = <<manejador[c].pcb>> \o ready
    /\ sem' = [sem EXCEPT !.desalojo = @ + 1]
    /\ Seguir(c, Ocioso)
    /\ UNCHANGED <<exec_lista, cpu, a_cpu, a_plan, corre, planif, temporizador,
                   block, cola_sleep, memoria, vida, caida>>

\* No token for the CPU: the compaction gives it when it ends.
enlistar_primero_ready(c) ==
    /\ Paso(c, "enlistar_primero")
    /\ ready' = <<manejador[c].pcb>> \o ready
    /\ sem' = [sem EXCEPT !.ready = @ + 1, !.desalojo = @ + 1]
    /\ Seguir(c, Ocioso)
    /\ UNCHANGED <<exec_lista, cpu, a_cpu, a_plan, corre, planif, temporizador,
                   block, cola_sleep, memoria, vida, caida>>

enviar_fin_proceso_memory(c) ==
    /\ Paso(c, "fin_memoria")
    /\ mutex_socket = Nadie
    /\ Seguir(c, [manejador[c] EXCEPT !.paso = "fin_cpu"])
    /\ UNCHANGED <<exec_lista, cpu, a_cpu, a_plan, corre, planif, temporizador,
                   colas, sem, memoria, vida, caida>>

\* The control message goes to the CPU where the process was, whatever that
\* CPU has been given since.
enviar_fin_proceso_a_cpu(c) ==
    /\ Paso(c, "fin_cpu")
    /\ LET d == manejador[c].cpu IN
       /\ a_cpu' = ConControl(d, "FIN_PROCESO", manejador[c].pcb)
       /\ cpu' = [cpu EXCEPT ![d].control = TRUE]
    /\ vida' = [vida EXCEPT ![manejador[c].pcb] = "fin"]
    /\ sem' = [sem EXCEPT !.cpu = @ + 1]
    /\ Seguir(c, Ocioso)
    /\ UNCHANGED <<exec_lista, a_plan, corre, planif, temporizador, colas,
                   memoria, caida>>

\* cpuSleep->pcb is read with exec_mutex released.
LeerPcb(c) ==
    /\ Paso(c, "leer_pcb")
    /\ LET q == cpu[manejador[c].cpu].pcb IN
       IF q = Nadie
       THEN Caer("nulo")
       ELSE /\ Seguir(c, [manejador[c] EXCEPT !.paso = "bloquear", !.pcb = q])
            /\ UNCHANGED <<exec_lista, cpu, a_cpu, a_plan, corre, planif,
                           temporizador, colas, sem, memoria, vida, caida>>

\* Mutant of bloquear_proceso: cpu->pcb is not set to NULL.
BloquearSinNull(c) ==
    /\ Paso(c, "bloquear")
    /\ LET q == manejador[c].pcb
           d == encontrar_cpu_con_pid(q) IN
       IF d = Nadie
       THEN /\ Seguir(c, [manejador[c] EXCEPT !.paso = "dormir"])
            /\ UNCHANGED <<cpu, a_cpu>>
       ELSE /\ Seguir(c, [manejador[c] EXCEPT !.paso = "a_block"])
            /\ a_cpu' = ConControl(d, "PROCESO_BLOQUEADO", q)
            /\ cpu' = [cpu EXCEPT ![d].control = TRUE]
    /\ UNCHANGED <<exec_lista, a_plan, corre, planif, temporizador, colas, sem,
                   memoria, vida, caida>>

bloquear_proceso(c) ==
    /\ Paso(c, "bloquear")
    /\ LET q == manejador[c].pcb
           d == encontrar_cpu_con_pid(q) IN
       IF d = Nadie
       THEN /\ Seguir(c, [manejador[c] EXCEPT !.paso = "dormir"])
            /\ UNCHANGED <<cpu, a_cpu>>
       ELSE /\ Seguir(c, [manejador[c] EXCEPT !.paso = "a_block"])
            /\ a_cpu' = ConControl(d, "PROCESO_BLOQUEADO", q)
            /\ cpu' = [cpu EXCEPT ![d] = [@ EXCEPT !.pcb = Nadie, !.control = TRUE]]
    /\ UNCHANGED <<exec_lista, a_plan, corre, planif, temporizador, colas, sem,
                   memoria, vida, caida>>

\* Mutant of PasarABlock: without liberar_cpu_y_notificar.
PasarSinToken(c) ==
    /\ Paso(c, "a_block") \/ Paso(c, "dormir")
    /\ block' = IF Paso(c, "a_block") THEN block \cup {manejador[c].pcb} ELSE block
    /\ cola_sleep' = Append(cola_sleep, manejador[c].pid)
    /\ Seguir(c, Ocioso)
    /\ UNCHANGED <<exec_lista, cpu, a_cpu, a_plan, corre, planif, temporizador,
                   ready, sem, memoria, vida, caida>>

\* list_add to block_lista, unless bloquear_proceso returned early; then the
\* device queue and the token of the CPU.
PasarABlock(c) ==
    /\ Paso(c, "a_block") \/ Paso(c, "dormir")
    /\ block' = IF Paso(c, "a_block") THEN block \cup {manejador[c].pcb} ELSE block
    /\ cola_sleep' = Append(cola_sleep, manejador[c].pid)
    /\ sem' = [sem EXCEPT !.cpu = @ + 1]
    /\ Seguir(c, Ocioso)
    /\ UNCHANGED <<exec_lista, cpu, a_cpu, a_plan, corre, planif, temporizador,
                   ready, memoria, vida, caida>>

\* The second search of a handler: the process may have left its CPU.
BuscarDeNuevo(c) ==
    /\ Paso(c, "buscar") \/ Paso(c, "buscar_fin")
    /\ LET d == encontrar_cpu_con_pid(manejador[c].pid)
           paso == IF Paso(c, "buscar") THEN "reanudar" ELSE "sacar_pcb" IN
       Seguir(c, IF d = Nadie THEN Ocioso
                 ELSE [manejador[c] EXCEPT !.paso = paso, !.cpu = d])
    /\ UNCHANGED <<exec_lista, cpu, a_cpu, a_plan, corre, planif, temporizador,
                   colas, sem, memoria, vida, caida>>

\* Nothing is sent when a control message went out in this dispatch.
reanudar_proceso_en_cpu(c) ==
    /\ Paso(c, "reanudar")
    /\ LET d == manejador[c].cpu IN
       IF ~cpu[d].control /\ cpu[d].pcb = Nadie
       THEN Caer("nulo")
       ELSE /\ a_cpu' = ConControl(d, "EJECUTAR_PROCESO", cpu[d].pcb)
            /\ Seguir(c, Ocioso)
            /\ UNCHANGED <<exec_lista, cpu, a_plan, corre, planif, temporizador,
                           colas, sem, memoria, vida, caida>>

\* Out of memory: the process ends.
SacarSinMemoria(c) ==
    /\ Paso(c, "sacar_pcb")
    /\ LET d == manejador[c].cpu IN
       IF cpu[d].pcb = Nadie
       THEN Caer("nulo")
       ELSE /\ cpu' = [cpu EXCEPT ![d].pcb = Nadie]
            /\ Seguir(c, [manejador[c] EXCEPT !.paso = "fin_memoria",
                                              !.pcb = cpu[d].pcb])
            /\ UNCHANGED <<exec_lista, a_cpu, a_plan, corre, planif,
                           temporizador, colas, sem, memoria, vida, caida>>

-----------------------------------------------------------------------------
(* solicitar_segmento_memory: a request, and the compaction it may start.    *)

\* "pedir" is SOLICITAR_SEGMENTO and "repedir" RESOLICITAR_SEGMENTO, whose
\* refusal is a BSOD.  On COMPACTACION the socket is not given back.
Pedir(c, r) ==
    /\ Paso(c, "pedir") \/ Paso(c, "repedir")
    /\ mutex_socket = Nadie
    /\ IF r = "COMPACTACION"
       THEN /\ compactaciones < MAX_COMPACTACIONES
            /\ compactaciones' = compactaciones + 1
            /\ compactando' = TRUE
            /\ mutex_socket' = c
            /\ Seguir(c, [manejador[c] EXCEPT !.paso = "medir"])
            /\ UNCHANGED caida
       ELSE /\ UNCHANGED memoria
            /\ IF Paso(c, "pedir")
               THEN /\ Seguir(c, [manejador[c] EXCEPT !.paso =
                           IF r = "MEMORIA_DISPONIBLE" THEN "buscar" ELSE "buscar_fin"])
                    /\ UNCHANGED caida
               ELSE IF r = "MEMORIA_DISPONIBLE"
               THEN /\ Seguir(c, [manejador[c] EXCEPT !.paso = "reponer"])
                    /\ UNCHANGED caida
               ELSE /\ caida' = "bsod"
                    /\ UNCHANGED manejador
    /\ UNCHANGED <<exec_lista, cpu, a_cpu, a_plan, corre, planif, temporizador,
                   colas, sem, vida>>

\* sem_getvalue and sem_wait are two calls.
despostear_todas_cpus(c) ==
    /\ \/ /\ Paso(c, "medir")
          /\ Seguir(c, [manejador[c] EXCEPT
                           !.paso = IF sem.cpu > 0 THEN "bajar" ELSE "desalojar"])
          /\ UNCHANGED sem
       \/ /\ Paso(c, "bajar")
          /\ sem.cpu > 0
          /\ sem' = [sem EXCEPT !.cpu = @ - 1]
          /\ Seguir(c, [manejador[c] EXCEPT !.paso = "medir"])
    /\ UNCHANGED <<exec_lista, cpu, a_cpu, a_plan, corre, planif, temporizador,
                   colas, memoria, vida, caida>>

\* One section of exec_mutex.  The CPU that asked loses its process at once;
\* the others are sent COMPACTACION, unless a control message went out before.
desalojar_por_compactacion(c) ==
    /\ Paso(c, "desalojar")
    /\ LET ocupadas == {d \in Conectadas : cpu[d].pcb # Nadie}
           avisadas == {d \in ocupadas \ {c} : ~cpu[d].control} IN
       /\ cpu' = [d \in CPUS |->
              IF d \in ocupadas /\ d = c
                THEN [cpu[d] EXCEPT !.pcb = Nadie, !.control = FALSE]
              ELSE IF d \in avisadas
                THEN [cpu[d] EXCEPT !.control = TRUE, !.ack = TRUE]
              ELSE cpu[d]]
       /\ a_cpu' = [d \in CPUS |->
              IF d \in avisadas
              THEN Append(a_cpu[d], Msj("COMPACTACION", cpu[d].pcb))
              ELSE a_cpu[d]]
       /\ ready' = IF c \in ocupadas THEN <<cpu[c].pcb>> \o ready ELSE ready
       /\ sem' = IF c \in ocupadas THEN [sem EXCEPT !.ready = @ + 1] ELSE sem
       /\ Seguir(c, [manejador[c] EXCEPT
                        !.paso = "esperar",
                        !.faltan = Cardinality(avisadas),
                        !.totales = Append(@, Cardinality(ocupadas))])
    /\ UNCHANGED <<exec_lista, a_plan, corre, planif, temporizador, block,
                   cola_sleep, memoria, vida, caida>>

\* Mutant of EsperarDesalojos: the loop stops one CPU short.
EsperarUnoMenos(c) ==
    /\ Paso(c, "esperar")
    /\ IF manejador[c].faltan <= 1
       THEN /\ Seguir(c, [manejador[c] EXCEPT !.paso = "compactar"])
            /\ UNCHANGED sem
       ELSE /\ sem.desalojo > 0
            /\ sem' = [sem EXCEPT !.desalojo = @ - 1]
            /\ Seguir(c, [manejador[c] EXCEPT !.faltan = @ - 1])
    /\ UNCHANGED <<exec_lista, cpu, a_cpu, a_plan, corre, planif, temporizador,
                   colas, memoria, vida, caida>>

EsperarDesalojos(c) ==
    /\ Paso(c, "esperar")
    /\ IF manejador[c].faltan = 0
       THEN /\ Seguir(c, [manejador[c] EXCEPT !.paso = "compactar"])
            /\ UNCHANGED sem
       ELSE /\ sem.desalojo > 0
            /\ sem' = [sem EXCEPT !.desalojo = @ - 1]
            /\ Seguir(c, [manejador[c] EXCEPT !.faltan = @ - 1])
    /\ UNCHANGED <<exec_lista, cpu, a_cpu, a_plan, corre, planif, temporizador,
                   colas, memoria, vida, caida>>

\* PROCESOS_DESALOJADOS was sent: Kernel Memory moves the segments while the
\* thread is at "compactar", and this is its answer.
CompactacionExitosa(c) ==
    /\ Paso(c, "compactar")
    /\ mutex_socket' = Nadie
    /\ Seguir(c, [manejador[c] EXCEPT !.paso = "repedir"])
    /\ UNCHANGED <<exec_lista, cpu, a_cpu, a_plan, corre, planif, temporizador,
                   colas, sem, compactando, compactaciones, vida, caida>>

\* The flag goes down, then one token for each process that was evicted; a
\* compaction inside the retry of another one returns to it.
FinDeCompactacion(c) ==
    /\ \/ /\ Paso(c, "reponer")
          /\ compactando' = FALSE
          /\ Seguir(c, [manejador[c] EXCEPT !.paso = "postear"])
          /\ UNCHANGED sem
       \/ /\ Paso(c, "postear")
          /\ LET t == manejador[c].totales
                 resto == SubSeq(t, 1, Len(t) - 1) IN
             /\ sem' = [sem EXCEPT !.cpu = @ + t[Len(t)]]
             /\ Seguir(c, [manejador[c] EXCEPT
                              !.paso = IF resto = <<>> THEN "buscar" ELSE "reponer",
                              !.totales = resto])
          /\ UNCHANGED compactando
    /\ UNCHANGED <<exec_lista, cpu, a_cpu, a_plan, corre, planif, temporizador,
                   colas, mutex_socket, compactaciones, vida, caida>>

\* Mutants of FINALIZAR_SLEEP: no post of sem_hay_proceso_ready; two posts.
FinSleepSinPost ==
    /\ cola_sleep # <<>>
    /\ LET p == Head(cola_sleep) IN
       IF p \in block
       THEN /\ block' = block \ {p}
            /\ ready' = Append(ready, p)
       ELSE UNCHANGED <<block, ready>>
    /\ cola_sleep' = Tail(cola_sleep)
    /\ UNCHANGED <<exec_lista, cpu, a_cpu, a_plan, corre, manejador, planif,
                   temporizador, sem, memoria, vida, caida>>
FinSleepDosPosts ==
    /\ cola_sleep # <<>>
    /\ LET p == Head(cola_sleep) IN
       IF p \in block
       THEN /\ block' = block \ {p}
            /\ ready' = Append(ready, p)
            /\ sem' = [sem EXCEPT !.ready = @ + 2]
       ELSE UNCHANGED <<block, ready, sem>>
    /\ cola_sleep' = Tail(cola_sleep)
    /\ UNCHANGED <<exec_lista, cpu, a_cpu, a_plan, corre, manejador, planif,
                   temporizador, memoria, vida, caida>>

\* FINALIZAR_SLEEP, on the thread of the device: it serves one at a time.
FINALIZAR_SLEEP ==
    /\ cola_sleep # <<>>
    /\ LET p == Head(cola_sleep) IN
       IF p \in block
       THEN /\ block' = block \ {p}
            /\ ready' = Append(ready, p)
            /\ sem' = [sem EXCEPT !.ready = @ + 1]
       ELSE UNCHANGED <<block, ready, sem>>
    /\ cola_sleep' = Tail(cola_sleep)
    /\ UNCHANGED <<exec_lista, cpu, a_cpu, a_plan, corre, manejador, planif,
                   temporizador, memoria, vida, caida>>

-----------------------------------------------------------------------------
(* planificador, branch FIFO and RR.                                         *)

EnPlan == UNCHANGED <<exec_lista, a_plan, corre, manejador, block, cola_sleep,
                      memoria, vida>>

PlanPaso(paso) == planif.paso = paso
PlanSeguir(paso) == planif' = [planif EXCEPT !.paso = paso]

EsperarReady ==
    /\ PlanPaso("esperar_ready")
    /\ sem.ready > 0
    /\ sem' = [sem EXCEPT !.ready = @ - 1]
    /\ PlanSeguir("esperar_cpu")
    /\ UNCHANGED <<cpu, a_cpu, temporizador, ready, caida>>
    /\ EnPlan

EsperarCpu ==
    /\ PlanPaso("esperar_cpu")
    /\ sem.cpu > 0
    /\ sem' = [sem EXCEPT !.cpu = @ - 1]
    /\ PlanSeguir("mirar")
    /\ UNCHANGED <<cpu, a_cpu, temporizador, ready, caida>>
    /\ EnPlan

MirarCompactando ==
    /\ PlanPaso("mirar")
    /\ PlanSeguir(IF compactando THEN "dormido" ELSE "desencolar")
    /\ sem' = IF compactando THEN [sem EXCEPT !.ready = @ + 1, !.cpu = @ + 1]
              ELSE sem
    /\ UNCHANGED <<cpu, a_cpu, temporizador, ready, caida>>
    /\ EnPlan

\* while(compactando) pthread_cond_wait(...)
Despertar ==
    /\ PlanPaso("dormido")
    /\ ~compactando
    /\ PlanSeguir("esperar_ready")
    /\ UNCHANGED <<cpu, a_cpu, temporizador, ready, sem, caida>>
    /\ EnPlan

desencolar_pcb_ready ==
    /\ PlanPaso("desencolar")
    /\ IF ready = <<>>
       THEN Caer("nulo")
       ELSE /\ ready' = Tail(ready)
            /\ planif' = [planif EXCEPT !.paso = "despachar", !.pcb = Head(ready)]
            /\ UNCHANGED <<cpu, a_cpu, temporizador, sem, caida>>
            /\ EnPlan

\* obtener_cpu_libre and enviar_proceso_a_cpu: only the planner takes a free
\* CPU, so the one it found is still free when it sends.
enviar_proceso_a_cpu ==
    /\ PlanPaso("despachar")
    /\ LET p == planif.pcb
           d == obtener_cpu_libre IN
       IF d = Nadie
       THEN /\ ready' = Append(ready, p)
            /\ sem' = [sem EXCEPT !.ready = @ + 1]
            /\ planif' = [paso |-> "esperar_ready", pcb |-> Nadie, cpu |-> Nadie]
            /\ UNCHANGED <<cpu, a_cpu>>
       ELSE /\ cpu' = [cpu EXCEPT ![d] = [@ EXCEPT !.pcb = p, !.control = FALSE]]
            /\ a_cpu' = [a_cpu EXCEPT ![d] = Append(@, Msj("EJECUTAR_PROCESO", p))]
            /\ planif' = IF ALGORITMO = "RR"
                         THEN [paso |-> "temporizar", pcb |-> Nadie, cpu |-> d]
                         ELSE [paso |-> "esperar_ready", pcb |-> Nadie, cpu |-> Nadie]
            /\ UNCHANGED <<ready, sem>>
    /\ UNCHANGED <<temporizador, caida>>
    /\ EnPlan

\* cpu->pcb->pid is read in another section of exec_mutex than the dispatch.
iniciar_timer_quantum ==
    /\ PlanPaso("temporizar")
    /\ LET d == planif.cpu IN
       IF cpu[d].pcb = Nadie
       THEN Caer("nulo")
       ELSE /\ temporizador' = [temporizador EXCEPT ![d] = cpu[d].pcb]
            /\ planif' = [paso |-> "esperar_ready", pcb |-> Nadie, cpu |-> Nadie]
            /\ UNCHANGED <<cpu, a_cpu, ready, sem, caida>>
            /\ EnPlan

\* Mutant of hilo_timer_quantum: the test of sigueEjecutando is inverted.
TimerInvertido(c) ==
    /\ temporizador[c] # Nadie
    /\ Len(a_cpu[c]) + Len(a_plan[c]) < MAX_EN_VUELO
    /\ temporizador' = [temporizador EXCEPT ![c] = Nadie]
    /\ IF cpu[c].pcb \notin {Nadie, temporizador[c]}
       THEN /\ a_cpu' = ConControl(c, "FINALIZAR_POR_QUANTUM", cpu[c].pcb)
            /\ cpu' = [cpu EXCEPT ![c].control = TRUE]
       ELSE UNCHANGED <<cpu, a_cpu>>
    /\ UNCHANGED <<planif, ready, sem, caida>>
    /\ EnPlan

\* The last timer started on c expires; the others find another token and do
\* nothing.
hilo_timer_quantum(c) ==
    /\ temporizador[c] # Nadie
    /\ Len(a_cpu[c]) + Len(a_plan[c]) < MAX_EN_VUELO
    /\ temporizador' = [temporizador EXCEPT ![c] = Nadie]
    /\ IF cpu[c].pcb = temporizador[c]
       THEN /\ a_cpu' = ConControl(c, "FINALIZAR_POR_QUANTUM", cpu[c].pcb)
            /\ cpu' = [cpu EXCEPT ![c].control = TRUE]
       ELSE UNCHANGED <<cpu, a_cpu>>
    /\ UNCHANGED <<planif, ready, sem, caida>>
    /\ EnPlan

-----------------------------------------------------------------------------
(* The first process is created before the planner starts.                   *)

Init ==
    \E p \in PIDS :
      /\ vida = [q \in PIDS |-> IF q = p THEN "vivo" ELSE "nuevo"]
      /\ ready = <<p>>
      /\ sem = [ready |-> 1, cpu |-> 0, desalojo |-> 0]
      /\ exec_lista = <<>>
      /\ cpu = [c \in CPUS |-> CpuNueva]
      /\ a_cpu = [c \in CPUS |-> <<>>]
      /\ a_plan = [c \in CPUS |-> <<>>]
      /\ corre = [c \in CPUS |-> Nadie]
      /\ manejador = [c \in CPUS |-> Ocioso]
      /\ planif = [paso |-> "esperar_ready", pcb |-> Nadie, cpu |-> Nadie]
      /\ temporizador = [c \in CPUS |-> Nadie]
      /\ block = {}
      /\ cola_sleep = <<>>
      /\ compactando = FALSE
      /\ mutex_socket = Nadie
      /\ caida = "no"
      /\ compactaciones = 0

Cpu(c) == CpuOciosa(c) \/ hay_interrupcion(c)

Programa(c) == \E s \in SYSCALLS : Syscall(c, s)

Recepcion(c) ==
    \/ FINALIZAR_POR_QUANTUM(c)
    \/ EXIT(c)
    \/ COMPACTACION(c)
    \/ SLEEP(c)
    \/ MEM_ALLOC(c)
    \/ MEM_FREE(c)
    \/ INIT_PROC(c, PIDS)

Manejador(c) ==
    \/ Recepcion(c)
    \/ EncolarReady(c)
    \/ enlistar_primero_ready(c)
    \/ enviar_fin_proceso_memory(c)
    \/ enviar_fin_proceso_a_cpu(c)
    \/ LeerPcb(c)
    \/ bloquear_proceso(c)
    \/ PasarABlock(c)
    \/ BuscarDeNuevo(c)
    \/ reanudar_proceso_en_cpu(c)
    \/ SacarSinMemoria(c)
    \/ \E r \in RESPUESTAS : Pedir(c, r)
    \/ despostear_todas_cpus(c)
    \/ desalojar_por_compactacion(c)
    \/ EsperarDesalojos(c)
    \/ CompactacionExitosa(c)
    \/ FinDeCompactacion(c)

planificador ==
    \/ EsperarReady
    \/ EsperarCpu
    \/ MirarCompactando
    \/ Despertar
    \/ desencolar_pcb_ready
    \/ enviar_proceso_a_cpu
    \/ iniciar_timer_quantum

Next ==
    /\ caida = "no"
    /\ \/ planificador
       \/ FINALIZAR_SLEEP
       \/ \E c \in CPUS :
            \/ ConectarCpu(c)
            \/ Cpu(c)
            \/ Programa(c)
            \/ Manejador(c)
            \/ hilo_timer_quantum(c)

Spec == Init /\ [][Next]_vars
-----------------------------------------------------------------------------
(* Properties.                                                               *)

PASOS == {"recibir", "encolar", "enlistar_primero", "fin_memoria", "fin_cpu",
          "leer_pcb", "bloquear", "a_block", "dormir", "buscar", "buscar_fin",
          "reanudar", "sacar_pcb", "pedir", "repedir", "medir", "bajar",
          "desalojar", "esperar", "compactar", "reponer", "postear"}
PLAN_PASOS == {"esperar_ready", "esperar_cpu", "mirar", "dormido",
               "desencolar", "despachar", "temporizar"}

PidONadie == PIDS \cup {Nadie}
CpuONadie == CPUS \cup {Nadie}


RegCpu == [pcb : PidONadie, control : BOOLEAN, ack : BOOLEAN]
RegManejador == [paso : PASOS, pid : PidONadie, cpu : CpuONadie,
                 pcb : PidONadie, faltan : Nat, totales : Seq(Nat)]
RegPlanif == [paso : PLAN_PASOS, pcb : PidONadie, cpu : CpuONadie]
MsjACpu == [tipo : INTERRUPCIONES \cup ORDENES, pid : PIDS]
MsjAPlan == [tipo : INTERRUPCIONES \cup SYSCALLS, pid : PIDS]

\* Every variable has its type.
TypeOK ==
    /\ exec_lista \in Seq(CPUS)
    /\ cpu \in [CPUS -> RegCpu]
    /\ a_cpu \in [CPUS -> Seq(MsjACpu)]
    /\ a_plan \in [CPUS -> Seq(MsjAPlan)]
    /\ corre \in [CPUS -> PidONadie]
    /\ manejador \in [CPUS -> RegManejador]
    /\ planif \in RegPlanif
    /\ temporizador \in [CPUS -> PidONadie]
    /\ ready \in Seq(PIDS)
    /\ block \in SUBSET PIDS
    /\ cola_sleep \in Seq(PIDS)
    /\ sem \in [ready : Nat, cpu : Nat, desalojo : Nat]
    /\ compactando \in BOOLEAN
    /\ mutex_socket \in CpuONadie
    /\ vida \in [PIDS -> {"nuevo", "vivo", "fin"}]
    /\ caida \in {"no", "nulo", "bsod"}
    /\ compactaciones \in Nat

\* What a thread has in hand at each step: a handler that goes on has a pid, one
\* that moves a t_pcb has it, one that writes to a CPU knows which, and a
\* compaction under way has counted the processes it evicted.
ConLoSuyo(m) ==
    /\ m.paso # "recibir" => m.pid \in PIDS
    /\ m.paso \in {"encolar", "enlistar_primero", "fin_memoria", "fin_cpu",
                   "bloquear", "a_block"} => m.pcb \in PIDS
    /\ m.paso \in {"fin_memoria", "fin_cpu", "leer_pcb", "reanudar",
                   "sacar_pcb"} => m.cpu \in CPUS
    /\ m.paso \in {"esperar", "compactar", "repedir", "reponer", "postear"} =>
           m.totales # <<>>
EnLaMano ==
    /\ \A c \in CPUS : ConLoSuyo(manejador[c])
    /\ PlanPaso("despachar") => planif.pcb \in PIDS
    /\ PlanPaso("temporizar") => planif.cpu \in CPUS

\* The places where the t_pcb of p is: the lists, a CPU, or the hands of a
\* thread that took it out of one and has not put it in another yet.
ConPcb == {"encolar", "enlistar_primero", "fin_memoria", "fin_cpu", "a_block"}
Lugares(p) ==
         {<<"ready", i>> : i \in {j \in DOMAIN ready : ready[j] = p}}
    \cup {<<"cpu", c>> : c \in {d \in CPUS : cpu[d].pcb = p}}
    \cup {<<"mano", c>> : c \in {d \in CPUS : manejador[d].pcb = p
                                              /\ manejador[d].paso \in ConPcb}}
    \cup {<<"plan", q>> : q \in {p} \cap {planif.pcb}}
    \cup {<<"block", q>> : q \in {p} \cap block}

\* The t_pcb of a live process is in one place and only one, whatever the
\* order in which timers, handlers, the planner and a compaction move it.
UnLugar ==
    \A p \in PIDS : IF vida[p] = "vivo" THEN Cardinality(Lugares(p)) = 1
                                        ELSE Lugares(p) = {}

\* sem_hay_proceso_ready counts ready_cola, less the process the planner has
\* already waited for: desencolar_pcb_ready never finds the queue empty.
TieneTurno == planif.paso \in {"esperar_cpu", "mirar", "desencolar"}
ReadyContado == sem.ready + (IF TieneTurno THEN 1 ELSE 0) = Len(ready)

\* The inductive invariant of DespachoProofs: with types and what the threads
\* hold, every move of a t_pcb keeps the count of sem_hay_proceso_ready.
InvReady == TypeOK /\ EnLaMano /\ ReadyContado

\* sem_hay_cpu_libre counts the free CPUs: a CPU without a process has its
\* token in the semaphore, in the hands of the planner, or in those of the
\* handler that has just freed it.
PlanConToken == planif.paso \in {"mirar", "desencolar", "despachar"}
PorPostear == {c \in CPUS : manejador[c].paso \in
                  {"encolar", "fin_memoria", "fin_cpu", "a_block"}}
Libres == {c \in Conectadas : cpu[c].pcb = Nadie}
TokensDeCpu ==
    caida = "no" /\ ~compactando /\ (\A c \in CPUS : manejador[c].totales = <<>>)
      => sem.cpu + (IF PlanConToken THEN 1 ELSE 0) + Cardinality(PorPostear)
           = Cardinality(Libres)

\* control_enviado on a CPU with a process means that an interruption for that
\* process was sent and its answer is still to come.
EnCamino(c, p) ==
    \E t \in INTERRUPCIONES : \/ \E i \in DOMAIN a_cpu[c] : a_cpu[c][i] = Msj(t, p)
                              \/ \E i \in DOMAIN a_plan[c] : a_plan[c][i] = Msj(t, p)
ControlPendiente ==
    \A c \in CPUS : cpu[c].control /\ cpu[c].pcb # Nadie
                      => EnCamino(c, cpu[c].pcb)

\* A CPU executes only the process the scheduler has on it: no process runs on
\* two CPUs, nor after it ended or while it is in another queue.
EjecutaElAsignado ==
    \A c \in CPUS : corre[c] # Nadie => cpu[c].pcb = corre[c]

\* While Kernel Memory moves the segments no process is executing.
NadieEjecutaAlCompactar ==
    (\E c \in CPUS : Paso(c, "compactar")) => \A d \in CPUS : corre[d] = Nadie

\* No thread reads the pid of a CPU that has no process.
SinNulos == caida # "nulo"

\* A compaction starts only when every CPU that was asked to stop has stopped.
AcksRecibidos ==
    (\E c \in CPUS : Paso(c, "compactar")) => \A d \in CPUS : ~cpu[d].ack

-----------------------------------------------------------------------------
(* The abstract specification and the mapping to it.  A thread that took the *)
(* t_pcb out of a CPU has already decided where the process goes.            *)

EnMano(p, pasos) == \E c \in CPUS : manejador[c].pcb = p /\ manejador[c].paso \in pasos
EstadoDe(p) ==
    IF vida[p] = "nuevo" THEN "NEW"
    ELSE IF vida[p] = "fin" \/ EnMano(p, {"fin_memoria", "fin_cpu"}) THEN "EXIT"
    ELSE IF p \in block \/ EnMano(p, {"a_block"}) THEN "BLOCK"
    ELSE IF \E c \in CPUS : cpu[c].pcb = p THEN "EXEC"
    ELSE "READY"

Ciclo == INSTANCE CicloDeVida WITH
            estado <- [p \in PIDS |-> EstadoDe(p)],
            en <- [c \in CPUS |-> cpu[c].pcb]

\* Whatever the threads do, a process goes only along the arrows of CicloDeVida.
ImplementaCiclo == Ciclo!Spec

-----------------------------------------------------------------------------
(* Liveness.  The threads are never abandoned by the operating system, a CPU *)
(* that is started connects, the device answers, and the timers expire.      *)
(* Programas says in addition that a program that is given the CPU again and *)
(* again ends or blocks some day; RR does without it.                        *)

Activo(A) == caida = "no" /\ A

Justicia ==
    /\ WF_vars(Activo(planificador))
    /\ WF_vars(Activo(FINALIZAR_SLEEP))
    /\ \A c \in CPUS : /\ WF_vars(Activo(ConectarCpu(c)))
                       /\ WF_vars(Activo(Cpu(c)))
                       /\ WF_vars(Activo(Manejador(c)))
                       /\ WF_vars(Activo(hilo_timer_quantum(c)))
Ceder(c) == \E s \in SYSCALLS \cap {"SLEEP", "EXIT", "SEG_FAULT"} : Syscall(c, s)
Programas == \A c \in CPUS : SF_vars(Activo(Ceder(c)))

SpecJusta == Spec /\ Justicia
SpecConProgramas == SpecJusta /\ Programas

\* Every process in the ready queue comes to execute, unless the scheduler
\* goes down.
SeAtiende ==
    \A p \in PIDS : (\E i \in DOMAIN ready : ready[i] = p)
                      ~> ((\E c \in CPUS : corre[c] = p) \/ caida # "no")

\* A compaction ends: with the memory compacted or with the BSOD.
CompactacionTermina == compactando ~> (~compactando \/ caida # "no")
=============================================================================
